----------------------------- MODULE FiberEvent -----------------------------
(***************************************************************************)
(* The one-shot events of Synchronization/FiberAware/Event.cpp: the word   *)
(* queue_head_ holds kFired or the stack of the awaiters, which the one    *)
(* Fire exchanges and wakes.  The awaiters are on the stacks of the        *)
(* waiters, so waiters stand for them; a waiter goes from event to event.  *)
(* A thread waits in a ThreadEvent; a fiber is suspended, and goes on when *)
(* its handle is scheduled (MutexOnWorkers has that part in detail).       *)
(***************************************************************************)
EXTENDS ThreadEvent, FiniteSets

CONSTANTS
    Events,     \* each is fired by one process, which is known by its event
    Fibers,
    kFired, kNotFired

Waiters  == Threads \union Fibers
Pointers == Waiters \union {kFired, kNotFired}

\* What the addresses are; a module that gives the constants their values assumes it.
EventConstants ==
    /\ Events # {} /\ Events \intersect Waiters = {}
    /\ kFired \notin Waiters /\ kNotFired \notin Waiters /\ kFired # kNotFired

VARIABLES
    queue_head_,    \* queue_head_[e]
    next,           \* next[p]: Next of the awaiter of p
    pc,
    event,          \* event[p]: the event whose Wait p has called
    expected_head,  \* expected_head[p], the local of Wait
    head, follow    \* head[e], follow[e]: the locals `head` and `next` of Fire

own  == <<event, expected_head, next>>
fire == <<head, follow>>
vars == <<queue_head_, next, pc, event, expected_head, head, follow, state_, asleep>>

AnyEvent == CHOOSE e \in Events : TRUE

Init ==
    /\ queue_head_ = [e \in Events |-> kNotFired]
    /\ next = [p \in Waiters |-> kFired]
    /\ pc = [p \in Waiters \union Events |-> "idle"]
    /\ event = [p \in Waiters |-> AnyEvent]
    /\ expected_head = [p \in Waiters |-> kNotFired]
    /\ head = [e \in Events |-> kNotFired]
    /\ follow = [e \in Events |-> kNotFired]
    /\ EventsInit

Goto(p, label) == pc' = [pc EXCEPT ![p] = label]

-----------------------------------------------------------------------------
\* An event that is fired already costs no suspension; else the awaiter is
\* constructed.
Wait(p) ==
    /\ pc[p] = "idle"
    /\ \E e \in Events :
          /\ event' = [event EXCEPT ![p] = e]
          /\ Goto(p, IF queue_head_[e] = kFired THEN "return" ELSE "load")
    /\ IF p \in Threads THEN NewAwaiter(p) ELSE UNCHANGED eventVars
    /\ UNCHANGED <<queue_head_, next, expected_head, fire>>

\* The load of DoAwait's lambda, and the one that a failed weak CAS makes.
Load(p) ==
    /\ pc[p] \in {"load", "cas"}
    /\ expected_head' = [expected_head EXCEPT ![p] = queue_head_[event[p]]]
    /\ Goto(p, "link")
    /\ UNCHANGED <<queue_head_, next, event, fire, eventVars>>

\* Fault: the load before DoAwait is the only one that minds kFired.
LinkBlindly(p) ==
    /\ pc[p] = "link"
    /\ next' = [next EXCEPT ![p] = expected_head[p]]
    /\ Goto(p, "cas")
    /\ UNCHANGED <<queue_head_, event, expected_head, fire, eventVars>>

Link(p) ==
    /\ pc[p] = "link"
    /\ IF expected_head[p] = kFired
         THEN Goto(p, "return") /\ UNCHANGED next
         ELSE Goto(p, "cas") /\ next' = [next EXCEPT ![p] = expected_head[p]]
    /\ UNCHANGED <<queue_head_, event, expected_head, fire, eventVars>>

Cas(p) ==
    /\ pc[p] = "cas"
    /\ queue_head_[event[p]] = expected_head[p]
    /\ queue_head_' = [queue_head_ EXCEPT ![event[p]] = p]
    /\ expected_head' = [expected_head EXCEPT ![p] = kNotFired]
    /\ Goto(p, "parked")
    /\ UNCHANGED <<next, event, fire, eventVars>>

\* A thread looks at its event, sleeps on it, and looks again when it wakes.
Look(t) ==
    /\ pc[t] = "parked"
    /\ Goto(t, IF IsFired(t) THEN "return" ELSE "wait")
    /\ UNCHANGED <<queue_head_, own, fire, eventVars>>

Sleep(t) ==
    /\ pc[t] = "wait"
    /\ IF IsFired(t) THEN Goto(t, "parked") /\ UNCHANGED eventVars
                     ELSE Goto(t, "asleep") /\ FutexWait(t)
    /\ UNCHANGED <<queue_head_, own, fire>>

Awake(t) ==
    /\ pc[t] = "asleep"
    /\ t \notin asleep
    /\ Goto(t, "parked")
    /\ UNCHANGED <<queue_head_, own, fire, eventVars>>

\* Wait returns and the awaiter is gone.
Return(p) ==
    /\ pc[p] = "return"
    /\ Goto(p, "idle")
    /\ event' = [event EXCEPT ![p] = AnyEvent]
    /\ expected_head' = [expected_head EXCEPT ![p] = kNotFired]
    /\ next' = [next EXCEPT ![p] = kFired]
    /\ UNCHANGED <<queue_head_, fire, eventVars>>

-----------------------------------------------------------------------------
Fire(e) ==
    /\ pc[e] = "idle"
    /\ head' = [head EXCEPT ![e] = queue_head_[e]]
    /\ queue_head_' = [queue_head_ EXCEPT ![e] = kFired]
    /\ Goto(e, "walk")
    /\ UNCHANGED <<own, follow, eventVars>>

\* Next is read before the Wake.
Walk(e) ==
    /\ pc[e] = "walk"
    /\ head[e] # kNotFired
    /\ follow' = [follow EXCEPT ![e] = next[head[e]]]
    /\ Goto(e, "wake")
    /\ UNCHANGED <<queue_head_, own, head, eventVars>>

Advance(e) ==
    /\ head' = [head EXCEPT ![e] = follow[e]]
    /\ follow' = [follow EXCEPT ![e] = kNotFired]

WakeFiber(e) ==
    /\ pc[e] = "wake"
    /\ head[e] \in Fibers
    /\ Advance(e)
    /\ pc' = [pc EXCEPT ![e] = "walk", ![head[e]] = "return"]
    /\ UNCHANGED <<queue_head_, own, eventVars>>

WakeThread(e) ==
    /\ pc[e] = "wake"
    /\ head[e] \in Threads
    /\ Store(head[e])
    /\ Goto(e, "notify")
    /\ UNCHANGED <<queue_head_, own, fire>>

\* Fault: Next is read when the awaiter has been woken.
NotifyFirst(e) ==
    /\ pc[e] = "notify"
    /\ WakeAll(head[e])
    /\ head' = [head EXCEPT ![e] = next[head[e]]]
    /\ Goto(e, "walk")
    /\ UNCHANGED <<queue_head_, own, follow>>

Notify(e) ==
    /\ pc[e] = "notify"
    /\ WakeAll(head[e])
    /\ Advance(e)
    /\ Goto(e, "walk")
    /\ UNCHANGED <<queue_head_, own>>

\* A signal, say, ends the futex wait.
Interrupt(t) == WakeForNothing(t) /\ UNCHANGED <<queue_head_, pc, own, fire>>

WaitStep(p) == Load(p) \/ Link(p) \/ Cas(p) \/ Return(p)
               \/ (p \in Threads /\ (Look(p) \/ Sleep(p) \/ Awake(p)))
FireStep(e) == Walk(e) \/ WakeFiber(e) \/ WakeThread(e) \/ Notify(e)

Next ==
    \/ \E p \in Waiters : Wait(p) \/ WaitStep(p)
    \/ \E t \in Threads : Interrupt(t)
    \/ \E e \in Events : Fire(e) \/ FireStep(e)

Spec == Init /\ [][Next]_vars

-----------------------------------------------------------------------------
TypeOK ==
    /\ queue_head_ \in [Events -> Pointers]
    /\ next \in [Waiters -> Pointers]
    /\ event \in [Waiters -> Events]
    /\ expected_head \in [Waiters -> Pointers]
    /\ head \in [Events -> Pointers] /\ follow \in [Events -> Pointers]
    /\ state_ \in [Threads -> 0 .. 1] /\ asleep \subseteq Threads

\* The awaiter of p is published in e and its waiter cannot leave yet.
Live(p, e) ==
    /\ event[p] = e
    /\ pc[p] \in {"parked", "wait", "asleep"}
    /\ p \in Threads => ~ IsFired(p)

\* Wait returns only when its event is fired, not for a wake meant for an
\* earlier call at the same address; and every pointer that Fire reads from or
\* wakes leads to an awaiter that still waits for that very event
\* (FiberAware/Event.cpp 13-19, 26-30; Thread/Event.cpp 6-8, 12-14).
WaitersAreRight ==
    /\ TypeOK
    /\ \A p \in Waiters : pc[p] = "return" => queue_head_[event[p]] = kFired
    /\ \A e \in Events :
          /\ pc[e] = "walk" => head[e] \in {kNotFired} \union {p \in Waiters : Live(p, e)}
          /\ pc[e] = "wake" => head[e] \in Waiters /\ Live(head[e], e)
          /\ pc[e] \in {"wake", "notify"} =>
                follow[e] \in {kNotFired} \union {p \in Waiters : Live(p, e)}

\* Whoever waits for an event that is fired returns: none is left on the stack
\* that Fire took, none joins it later, and no store comes too late for a sleeper.
FiredWaiterReturns ==
    \A p \in Waiters : (pc[p] # "idle" /\ queue_head_[event[p]] = kFired) ~> (pc[p] = "idle")
=============================================================================
