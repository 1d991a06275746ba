------------------------ MODULE IntrusiveForwardList ------------------------
(***************************************************************************)
(* The lists of Utils/IntrusiveForwardList.hpp: head, tail and size of     *)
(* each list, and the one Next pointer that a node has for all of them.    *)
(* Each operation is an action that its users compose with their own       *)
(* steps; Next is a user that calls them as it likes, with a node that is  *)
(* in no list when it pushes one, as the pointers demand.                  *)
(***************************************************************************)
EXTENDS Naturals, FiniteSets, Sequences

CONSTANTS Lists, Nodes, nullptr

ASSUME ListsAssumption == IsFiniteSet(Nodes) /\ nullptr \notin Nodes

VARIABLES
    head_, tail_, size_,    \* of each list
    next                    \* next[n]: Next of the node n

listVars == <<head_, tail_, size_, next>>

ListsInit ==
    /\ head_ = [l \in Lists |-> nullptr]
    /\ tail_ = [l \in Lists |-> nullptr]
    /\ size_ = [l \in Lists |-> 0]
    /\ next = [n \in Nodes |-> nullptr]

IsEmpty(l) == head_[l] = nullptr

PushBack(l, n) ==
    /\ size_' = [size_ EXCEPT ![l] = @ + 1]
    /\ head_' = IF IsEmpty(l) THEN [head_ EXCEPT ![l] = n] ELSE head_
    /\ tail_' = [tail_ EXCEPT ![l] = n]
    /\ next' = [m \in Nodes |-> IF m = n THEN nullptr
                                ELSE IF m = tail_[l] /\ ~ IsEmpty(l) THEN n ELSE next[m]]

\* The first node's Next is left as it is.
PushFront(l, n) ==
    /\ size_' = [size_ EXCEPT ![l] = @ + 1]
    /\ head_' = [head_ EXCEPT ![l] = n]
    /\ tail_' = IF IsEmpty(l) THEN [tail_ EXCEPT ![l] = n] ELSE tail_
    /\ next' = IF IsEmpty(l) THEN next ELSE [next EXCEPT ![n] = head_[l]]

\* Fault: the node that leaves keeps its Next.
ForgetNext(n) == UNCHANGED next

ResetNext(n) == next' = [next EXCEPT ![n] = nullptr]

\* The head is taken; an empty list gives nullptr and stays as it is.
PopFront(l) ==
    /\ ~ IsEmpty(l)
    /\ size_' = [size_ EXCEPT ![l] = @ - 1]
    /\ head_' = [head_ EXCEPT ![l] = IF @ = tail_[l] THEN nullptr ELSE next[@]]
    /\ tail_' = [tail_ EXCEPT ![l] = IF head_[l] = @ THEN nullptr ELSE @]
    /\ ResetNext(head_[l])

\* l is given the representation of m, with `size` nodes, and m is reset.
TakeOver(l, m, head, size) ==
    /\ head_' = [head_ EXCEPT ![l] = head, ![m] = nullptr]
    /\ tail_' = [tail_ EXCEPT ![l] = tail_[m], ![m] = nullptr]
    /\ size_' = [size_ EXCEPT ![l] = size, ![m] = 0]

\* The constructor of l from m.
MoveConstruct(l, m) == TakeOver(l, m, head_[m], size_[m]) /\ UNCHANGED next

ListAppend(l, m) ==
    /\ ~ IsEmpty(m)
    /\ IF IsEmpty(l)
         THEN TakeOver(l, m, head_[m], size_[m]) /\ UNCHANGED next
         ELSE TakeOver(l, m, head_[l], size_[l] + size_[m])
              /\ next' = [next EXCEPT ![tail_[l]] = head_[m]]

\* What ForEach visits, and nullptr from its end on; one more than all nodes is a cycle.
Visits(l) ==
    LET visit[k \in 1 .. Cardinality(Nodes) + 1] ==
          IF k = 1 THEN head_[l]
          ELSE IF visit[k - 1] = nullptr THEN nullptr ELSE next[visit[k - 1]]
    IN  visit

Items(l) == [k \in 1 .. Cardinality({k \in DOMAIN Visits(l) : Visits(l)[k] # nullptr}) |-> Visits(l)[k]]

\* n is among them: it is in every set that has the head and, with a node, its Next.
IsIn(n, l) ==
    /\ ~ IsEmpty(l)
    /\ \A S \in SUBSET Nodes :
          head_[l] \in S /\ (\A m \in S : next[m] \in S \union {nullptr}) => n \in S

-----------------------------------------------------------------------------
ListsNext ==
    \/ \E l \in Lists : PopFront(l)
    \/ \E l \in Lists, n \in Nodes :
          (\A m \in Lists : ~ IsIn(n, m)) /\ (PushBack(l, n) \/ PushFront(l, n))
    \/ \E l, m \in Lists :
          l # m /\ (ListAppend(l, m) \/ (IsEmpty(l) /\ MoveConstruct(l, m)))

-----------------------------------------------------------------------------
Abstract == INSTANCE ForwardLists WITH lists <- [l \in Lists |-> Items(l)]

\* The pointers spell sequences through any legal calls, although a node goes
\* from list to list and PushFront on an empty list trusts its old Next; the
\* size and the tail agree with them (IntrusiveForwardList.hpp 51-110).
IsLists ==
    /\ Abstract!Spec
    /\ [] \A l \in Lists : /\ size_[l] = Len(Items(l))
                           /\ ~ IsEmpty(l) => tail_[l] = Items(l)[size_[l]]
=============================================================================
