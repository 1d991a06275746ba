------------------------- MODULE MCSynchronization --------------------------
(***************************************************************************)
(* Three subjects for TLC in one run, chosen in the initial state: the     *)
(* events, the wait group with the spinlock, and its lists by themselves.  *)
(* The waiters that call Wait are chosen with the subject.                 *)
(***************************************************************************)
EXTENDS SpinlockWaitGroup

CONSTANTS
    Events, kFired, kNotFired,
    EventCallers, GroupCallers  \* the sets of waiters that use them

VARIABLES
    subject, callersOf,
    queue_head_, event, expected_head, head, follow, ev_next, ev_pc, ev_state, ev_asleep

E == INSTANCE FiberEvent WITH pc <- ev_pc, next <- ev_next, state_ <- ev_state, asleep <- ev_asleep

events == <<queue_head_, event, expected_head, head, follow, ev_next, ev_pc, ev_state, ev_asleep>>
choice == <<subject, callersOf>>
all    == <<choice, vars, events>>

MCInit ==
    /\ Init /\ E!Init
    /\ \/ subject = "events" /\ callersOf \in EventCallers
       \/ subject = "wait group" /\ callersOf \in GroupCallers
       \/ subject = "lists" /\ callersOf = {}

\* What the proofs about the events assume of their addresses.
ASSUME EventConstantsAssumption == E!EventConstants

EventStep(A) == subject = "events" /\ A /\ UNCHANGED <<choice, vars>>
GroupStep(A) == subject = "wait group" /\ A /\ UNCHANGED <<choice, events>>
ListStep == /\ subject = "lists"
            /\ ListsNext
            /\ UNCHANGED <<choice, events, lock_, counter_, pc, op, moved, callers, eventVars>>

MCNext ==
    \/ EventStep(E!Next /\ \A p \in Waiters \ callersOf : ev_pc'[p] = "idle")
    \/ GroupStep(Next /\ \A p \in Waiters \ callersOf : pc'[p] = "idle")
    \/ ListStep

\* Nobody has to call, but everybody goes on with a call.  A spin may lose the
\* lock to others for ever.
MCSpec ==
    /\ MCInit /\ [][MCNext]_all
    /\ \A p \in Waiters : WF_all(EventStep(E!WaitStep(p))) /\ WF_all(GroupStep(WaitStep(p)))
    /\ \A e \in Events : WF_all(EventStep(E!FireStep(e)))
    /\ \A w \in Workers : WF_all(GroupStep(WorkStep(w)))

\* The properties of the parts.
WaitersAreRight    == E!WaitersAreRight /\ (subject = "wait group" => AwaiterAlive)
FiredWaiterReturns == E!FiredWaiterReturns
=============================================================================
