---------------------------- MODULE ThreadEvent -----------------------------
(***************************************************************************)
(* The events of Synchronization/Thread/Event.cpp inside the ThreadAwaiter *)
(* of each waiting thread.  The awaiter is on the stack of its thread, at  *)
(* the same address in one call after the other, so the futex of an event  *)
(* is known by its thread: a WakeAll that comes after the waiter has left  *)
(* meets whatever the thread does at that address then.                    *)
(***************************************************************************)
EXTENDS Naturals

CONSTANT Threads

VARIABLES
    state_, \* state_[t]: the word of the event in the awaiter of t
    asleep  \* the threads that sleep on the futex of their event

eventVars == <<state_, asleep>>

EventsInit == state_ = [t \in Threads |-> 0] /\ asleep = {}

\* The awaiter is constructed.
NewAwaiter(t) == state_' = [state_ EXCEPT ![t] = 0] /\ UNCHANGED asleep

\* Fire, once the address for the wake is kept: the waiter may go from now on.
Store(t) == state_' = [state_ EXCEPT ![t] = 1] /\ UNCHANGED asleep

\* The rest of Fire, at an address that may be in use for something else.
WakeAll(t) == asleep' = asleep \ {t} /\ UNCHANGED state_

IsFired(t) == state_[t] # 0

\* The kernel compares the word and puts the thread to sleep in one step.
FutexWait(t) == state_[t] = 0 /\ asleep' = asleep \union {t} /\ UNCHANGED state_

\* The kernel may wake a sleeper without a WakeAll.
WakeForNothing(t) == t \in asleep /\ WakeAll(t)
=============================================================================
