----------------------------- MODULE LifoStack ------------------------------
(***************************************************************************)
(* What LockFreeStack promises (DataStructures/LockFreeStack.hpp): one     *)
(* stack.  Push and TryPop take effect at one moment of their call; TryPop *)
(* takes the newest item, and nothing only if the stack is empty.          *)
(***************************************************************************)
EXTENDS Sequences

CONSTANTS Threads, Items, Null

VARIABLES
    items,  \* the stack, the newest item first
    phase,  \* phase[t]: what the call of thread t has come to
    item    \* item[t]: the item that t pushes or has popped

vars == <<items, phase, item>>

Init ==
    /\ items = <<>>
    /\ phase = [t \in Threads |-> "idle"]
    /\ item = [t \in Threads |-> Null]

Move(t, from, to, x) ==
    /\ phase[t] = from
    /\ phase' = [phase EXCEPT ![t] = to]
    /\ item' = [item EXCEPT ![t] = x]

CallPush(t) == (\E x \in Items : Move(t, "idle", "push", x)) /\ UNCHANGED items
CallPop(t)  == Move(t, "idle", "pop", Null) /\ UNCHANGED items

Push(t) ==
    /\ Move(t, "push", "pushed", item[t])
    /\ items' = <<item[t]>> \o items

Pop(t) ==
    /\ items # <<>>
    /\ Move(t, "pop", "popped", Head(items))
    /\ items' = Tail(items)

FindEmpty(t) ==
    /\ items = <<>>
    /\ Move(t, "pop", "empty", Null)
    /\ UNCHANGED items

Return(t) ==
    /\ \E answer \in {"pushed", "popped", "empty"} : Move(t, answer, "idle", Null)
    /\ UNCHANGED items

Next ==
    \E t \in Threads :
        CallPush(t) \/ CallPop(t) \/ Push(t) \/ Pop(t) \/ FindEmpty(t) \/ Return(t)

Spec == Init /\ [][Next]_vars
=============================================================================
