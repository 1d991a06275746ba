--------------------------- MODULE WaitGroupSpec ----------------------------
(***************************************************************************)
(* What both fiber-aware wait groups (Synchronization/FiberAware/          *)
(* WaitGroup.cpp) promise: a call of Wait returns only if the counter was  *)
(* zero at some moment of the call, and a waiter that has joined is        *)
(* released by the very Done that brings the counter to zero, even when    *)
(* the group is used again before the waiter gets to run.                  *)
(***************************************************************************)
EXTENDS Naturals

CONSTANTS Waiters, MaxCount

VARIABLES
    count,  \* how many Done are missing
    phase   \* phase[p]: what the call of Wait by p has come to

vars == <<count, phase>>

Init ==
    /\ count = 0
    /\ phase = [p \in Waiters |-> "out"]

Add ==
    /\ \E n \in 1 .. MaxCount : count + n <= MaxCount /\ count' = count + n
    /\ UNCHANGED phase

Done ==
    /\ count > 0
    /\ count' = count - 1
    /\ phase' = [p \in Waiters |->
                   IF count = 1 /\ phase[p] = "joined" THEN "released" ELSE phase[p]]

Move(p, from, to) ==
    /\ phase[p] = from
    /\ phase' = [phase EXCEPT ![p] = to]
    /\ UNCHANGED count

Call(p)    == Move(p, "out", "called")
Observe(p) == count = 0 /\ Move(p, "called", "released")
Join(p)    == count > 0 /\ Move(p, "called", "joined")
Return(p)  == Move(p, "released", "out")

Next ==
    \/ Add
    \/ Done
    \/ \E p \in Waiters : Call(p) \/ Observe(p) \/ Join(p) \/ Return(p)

Spec == Init /\ [][Next]_vars
=============================================================================
