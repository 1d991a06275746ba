---------------------------- MODULE ForwardLists ----------------------------
(***************************************************************************)
(* What IntrusiveForwardList promises (Utils/IntrusiveForwardList.hpp):    *)
(* each list is a sequence of nodes, and a node is in one list at a time.  *)
(***************************************************************************)
EXTENDS Sequences

CONSTANTS Lists, Nodes

VARIABLE lists  \* lists[l]: the nodes of l in order

Init == lists = [l \in Lists |-> <<>>]

Free(n) == \A l \in Lists : \A i \in DOMAIN lists[l] : lists[l][i] # n

PushBack(l, n)  == lists' = [lists EXCEPT ![l] = Append(@, n)] /\ Free(n)
PushFront(l, n) == lists' = [lists EXCEPT ![l] = <<n>> \o @] /\ Free(n)
PopFront(l)     == lists[l] # <<>> /\ lists' = [lists EXCEPT ![l] = Tail(@)]
Splice(l, m)    == l # m /\ lists' = [lists EXCEPT ![l] = @ \o lists[m], ![m] = <<>>]

Next ==
    \/ \E l \in Lists, n \in Nodes : PushBack(l, n) \/ PushFront(l, n)
    \/ \E l \in Lists : PopFront(l)
    \/ \E l, m \in Lists : Splice(l, m)

Spec == Init /\ [][Next]_lists
=============================================================================
