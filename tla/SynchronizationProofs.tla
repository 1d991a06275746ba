----------------------- MODULE SynchronizationProofs -----------------------
(***************************************************************************)
(* Proofs about the one-shot events, about the wait group with the         *)
(* spinlock and about its lists, for any events, threads, fibers, workers. *)
(*                                                                         *)
(* Events.  Fire walks over memory of the waiters that it wakes.  That it  *)
(* never follows a pointer to one that has left depends on all pointers:   *)
(* each leads to an awaiter that still waits (PointersLive), and no two    *)
(* lead to the same one (PointersOnce), so a Wake leaves none dangling.    *)
(*                                                                         *)
(* Group.  Each awaiter is placed in at most one list, with which head,    *)
(* tail and Next agree (Shape), and is in nobody's hands then (Holders).   *)
(* What the pointers reach from a head is the least set that has the head  *)
(* and is closed under Next: the awaiters placed in a list are such a set, *)
(* so nobody else is reached (ReachedIsPlaced); and a PushBack is seen     *)
(* from the head because the old tail was (PushReaches), so whoever joins  *)
(* is found by the Done that brings the counter to zero.                   *)
(*                                                                         *)
(* Lists.  Some sequences are spelled by the pointers (Spells): Next of a  *)
(* node is the one after it, nullptr at the end and for a node in no list, *)
(* as PushFront on an empty list needs, and no node is there twice.  Each  *)
(* call leaves the sequences that ForwardLists says (CallSpells), and what *)
(* ForEach visits is the sequence (ItemsAre), so there is no other.        *)
(***************************************************************************)
EXTENDS MCSynchronization, FiniteSetTheorems, TLAPS

WaitLabels == {"idle", "load", "link", "cas", "parked", "wait", "asleep", "return"}
FireLabels == {"idle", "walk", "wake", "notify"}
Suspended  == {"parked", "wait", "asleep"}

PcOK ==
    /\ DOMAIN ev_pc = E!Waiters \union Events
    /\ ev_pc = [x \in E!Waiters \union Events |-> ev_pc[x]]
    /\ \A p \in E!Waiters : ev_pc[p] \in WaitLabels
    /\ \A e \in Events : ev_pc[e] \in FireLabels

\* The awaiter of p is in the list of its event.
Waiting(p) == E!Live(p, event[p])

\* Where Fire goes on.
Ahead(e) == IF ev_pc[e] = "notify" THEN follow[e] ELSE head[e]

\* Who leaves, or will find no need to wait, leaves a fired event.
FiredRight ==
    /\ \A e \in Events : queue_head_[e] = kFired <=> ev_pc[e] # "idle"
    /\ \A p \in E!Waiters : ev_pc[p] = "return" => queue_head_[event[p]] = kFired
    /\ \A p \in E!Waiters : ev_pc[p] = "link" /\ expected_head[p] = kFired => queue_head_[event[p]] = kFired
    /\ \A p \in E!Waiters : ev_pc[p] = "cas" => ev_next[p] = expected_head[p] /\ expected_head[p] # kFired
    /\ \A p \in Threads : ev_pc[p] \in {"load", "link", "cas"} => ~ E!IsFired(p)
    /\ \A p \in Threads : ev_pc[p] \in Suspended /\ E!IsFired(p) => queue_head_[event[p]] = kFired

\* The pointer x of the list of e ends the list or leads to one that waits.
Leads(x, e) == x = kNotFired \/ (x \in E!Waiters /\ E!Live(x, e))

PointersLive ==
    /\ \A e \in Events : queue_head_[e] # kFired => Leads(queue_head_[e], e)
    /\ \A p \in E!Waiters : Waiting(p) => Leads(ev_next[p], event[p])
    /\ \A e \in Events : ev_pc[e] = "walk" => Leads(head[e], e)
    /\ \A e \in Events : ev_pc[e] = "wake" =>
          head[e] \in E!Waiters /\ E!Live(head[e], e) /\ follow[e] = ev_next[head[e]]
    /\ \A e \in Events : ev_pc[e] = "notify" => head[e] \in Threads /\ Leads(follow[e], e)

PointersOnce ==
    /\ \A p, q \in E!Waiters : Waiting(p) /\ Waiting(q) /\ ev_next[p] = ev_next[q] /\ ev_next[p] \in E!Waiters => p = q
    /\ \A p \in E!Waiters, e \in Events : Waiting(p) /\ ev_next[p] \in E!Waiters => ev_next[p] # queue_head_[e]
    /\ \A p \in E!Waiters, e \in Events :
          Waiting(p) /\ ev_next[p] \in E!Waiters /\ ev_pc[e] # "idle" => ev_next[p] # Ahead(e)

EInv == E!TypeOK /\ PcOK /\ FiredRight /\ PointersLive /\ PointersOnce

-----------------------------------------------------------------------------
\* No event is fired and nobody waits.
LEMMA InitEInv == ASSUME E!EventConstants, E!Init PROVE EInv
  <1>1. E!AnyEvent \in Events
    BY DEF E!EventConstants, E!AnyEvent
  <1>2. /\ \A p \in E!Waiters : ev_pc[p] = "idle"
        /\ \A e \in Events : ev_pc[e] = "idle" /\ queue_head_[e] = kNotFired
    BY DEF E!Init
  <1>3. E!TypeOK
    BY <1>1 DEF E!Init, E!EventsInit, E!TypeOK, E!Pointers
  <1>4. PcOK
    BY <1>2 DEF E!Init, PcOK, WaitLabels, FireLabels
  <1>5. FiredRight
    BY <1>2 DEF E!EventConstants, FiredRight, Suspended, E!Waiters
  <1>6. PointersLive /\ PointersOnce
    BY <1>2 DEF PointersLive, PointersOnce, Leads, Waiting, E!Live
  <1> QED BY <1>3, <1>4, <1>5, <1>6 DEF EInv

\* A waiter alone takes a step: nothing of the lists changes, and it is not in one
\* or stays in it as it was.
LEMMA QuietStep ==
  ASSUME EInv, E!TypeOK', PcOK', NEW p \in E!Waiters,
         queue_head_' = queue_head_, head' = head, follow' = follow,
         \A e \in Events : ev_pc'[e] = ev_pc[e],
         \A q \in E!Waiters : q # p => ev_pc'[q] = ev_pc[q] /\ ev_next'[q] = ev_next[q] /\ event'[q] = event[q],
         \A q \in Threads : q # p => ev_state'[q] = ev_state[q],
         \A e \in Events : E!Live(p, e) <=> E!Live(p, e)',
         Waiting(p)' => ev_next'[p] = ev_next[p] /\ event'[p] = event[p]
  PROVE  PointersLive' /\ PointersOnce'
  <1>1. /\ queue_head_ \in [Events -> E!Pointers] /\ ev_next \in [E!Waiters -> E!Pointers]
        /\ head \in [Events -> E!Pointers] /\ follow \in [Events -> E!Pointers]
        /\ event \in [E!Waiters -> Events] /\ event' \in [E!Waiters -> Events]
    BY DEF EInv, E!TypeOK
  <1>2. \A q \in E!Waiters, e \in Events : E!Live(q, e) <=> E!Live(q, e)'
    <2> SUFFICES ASSUME NEW q \in E!Waiters, NEW e \in Events PROVE E!Live(q, e) <=> E!Live(q, e)'
      OBVIOUS
    <2>1. CASE q = p
      BY <2>1
    <2>2. CASE q # p
      BY <2>2 DEF E!Live, E!IsFired
    <2> QED BY <2>1, <2>2
  <1>3. \A q \in E!Waiters : Waiting(q)' => Waiting(q) /\ ev_next'[q] = ev_next[q] /\ event'[q] = event[q]
    <2> SUFFICES ASSUME NEW q \in E!Waiters, Waiting(q)'
                 PROVE  Waiting(q) /\ ev_next'[q] = ev_next[q] /\ event'[q] = event[q]
      OBVIOUS
    <2>1. ev_next'[q] = ev_next[q] /\ event'[q] = event[q]
      OBVIOUS
    <2>2. event[q] \in Events
      BY <1>1
    <2>3. E!Live(q, event[q])'
      BY <2>1 DEF Waiting, E!Live
    <2> QED BY <1>2, <2>1, <2>2, <2>3 DEF Waiting, E!Live
  <1>4. PointersLive'
    <2>1. \A x \in E!Pointers, e \in Events : Leads(x, e) => Leads(x, e)'
      BY <1>2 DEF Leads
    <2>2. \A e \in Events : queue_head_'[e] # kFired => Leads(queue_head_[e], e)'
      <3> SUFFICES ASSUME NEW e \in Events, queue_head_'[e] # kFired PROVE Leads(queue_head_[e], e)'
        OBVIOUS
      <3>1. PICK x \in E!Pointers : x = queue_head_[e]
        BY <1>1
      <3>2. Leads(x, e)'
        BY <2>1, <3>1 DEF EInv, PointersLive
      <3> QED BY <3>1, <3>2
    <2>3. \A q \in E!Waiters : Waiting(q)' => Leads(ev_next[q], event[q])'
      <3> SUFFICES ASSUME NEW q \in E!Waiters, Waiting(q)' PROVE Leads(ev_next[q], event[q])'
        OBVIOUS
      <3>1. PICK x \in E!Pointers, e \in Events : x = ev_next[q] /\ e = event[q]
        BY <1>1
      <3>2. Leads(x, e)'
        BY <1>3, <2>1, <3>1 DEF EInv, PointersLive
      <3>3. x = ev_next'[q] /\ e = event'[q]
        BY <1>3, <3>1
      <3> QED BY <3>2, <3>3 DEF Leads, E!Live
    <2>4. \A e \in Events : ev_pc'[e] = "walk" => Leads(head[e], e)'
      <3> SUFFICES ASSUME NEW e \in Events, ev_pc'[e] = "walk" PROVE Leads(head[e], e)'
        OBVIOUS
      <3>1. PICK x \in E!Pointers : x = head[e]
        BY <1>1
      <3>2. Leads(x, e)'
        BY <2>1, <3>1 DEF EInv, PointersLive
      <3> QED BY <3>1, <3>2
    <2>5. \A e \in Events : ev_pc'[e] = "notify" => head'[e] \in Threads /\ Leads(follow[e], e)'
      <3> SUFFICES ASSUME NEW e \in Events, ev_pc'[e] = "notify"
                   PROVE  head'[e] \in Threads /\ Leads(follow[e], e)'
        OBVIOUS
      <3>1. PICK x \in E!Pointers : x = follow[e]
        BY <1>1
      <3>2. Leads(x, e)' /\ head[e] \in Threads
        BY <2>1, <3>1 DEF EInv, PointersLive
      <3> QED BY <3>1, <3>2
    <2>6. \A e \in Events : ev_pc'[e] = "wake" =>
            head'[e] \in E!Waiters /\ E!Live(head[e], e)' /\ follow'[e] = ev_next'[head'[e]]
      <3> SUFFICES ASSUME NEW e \in Events, ev_pc'[e] = "wake"
                   PROVE  head'[e] \in E!Waiters /\ E!Live(head[e], e)' /\ follow'[e] = ev_next'[head'[e]]
        OBVIOUS
      <3>1. head[e] \in E!Waiters /\ E!Live(head[e], e) /\ follow[e] = ev_next[head[e]]
        BY DEF EInv, PointersLive
      <3>2. PICK h \in E!Waiters : h = head[e]
        BY <3>1
      <3>3. E!Live(h, e)'
        BY <1>2, <3>1, <3>2
      <3>4. ev_next'[h] = ev_next[h]
        BY <1>3, <3>3 DEF E!Live, Waiting
      <3> QED BY <3>1, <3>2, <3>3, <3>4
    <2> QED BY <2>2, <2>3, <2>4, <2>5, <2>6 DEF PointersLive
  <1>5. PointersOnce'
    BY <1>3 DEF EInv, PointersOnce, Ahead
  <1> QED BY <1>4, <1>5

\* One process moves on.
LEMMA PcStep ==
  ASSUME PcOK, NEW x \in E!Waiters \union Events, NEW l, ev_pc' = [ev_pc EXCEPT ![x] = l],
         x \in E!Waiters => l \in WaitLabels, x \in Events => l \in FireLabels
  PROVE  PcOK' /\ ev_pc'[x] = l /\ \A y \in E!Waiters \union Events : y # x => ev_pc'[y] = ev_pc[y]
  BY DEF PcOK

\* A call: the awaiter is new, the event may be fired already.
LEMMA WaitEInv == ASSUME E!EventConstants, EInv, NEW p \in E!Waiters, E!Wait(p) PROVE EInv'
  <1>1. PICK e \in Events :
           /\ event' = [event EXCEPT ![p] = e]
           /\ ev_pc' = [ev_pc EXCEPT ![p] = IF queue_head_[e] = kFired THEN "return" ELSE "load"]
    BY DEF E!Wait, E!Goto
  <1>2. /\ ev_pc[p] = "idle" /\ queue_head_' = queue_head_ /\ ev_next' = ev_next
        /\ expected_head' = expected_head /\ head' = head /\ follow' = follow /\ ev_asleep' = ev_asleep
        /\ ev_state' = IF p \in Threads THEN [ev_state EXCEPT ![p] = 0] ELSE ev_state
    BY DEF E!Wait, E!NewAwaiter, E!eventVars, E!fire
  <1>3. E!TypeOK'
    BY <1>1, <1>2 DEF EInv, E!TypeOK
  <1>4. /\ PcOK' /\ ev_pc'[p] = IF queue_head_[e] = kFired THEN "return" ELSE "load"
        /\ \A y \in E!Waiters \union Events : y # p => ev_pc'[y] = ev_pc[y]
    BY <1>1, PcStep DEF EInv, E!EventConstants, WaitLabels
  <1>5. \A f \in Events : ev_pc'[f] = ev_pc[f]
    BY <1>4 DEF E!EventConstants
  <1>6. event'[p] = e /\ \A q \in E!Waiters : q # p => event'[q] = event[q]
    BY <1>1 DEF EInv, E!TypeOK
  <1>7. (p \in Threads => ~ E!IsFired(p)') /\ \A q \in Threads : q # p => ev_state'[q] = ev_state[q]
    BY <1>2 DEF EInv, E!TypeOK, E!IsFired
  <1>8. FiredRight'
    BY <1>2, <1>4, <1>5, <1>6, <1>7 DEF EInv, FiredRight, Suspended, E!IsFired, E!Waiters
  <1>9. ~ Waiting(p)' /\ \A f \in Events : ~ E!Live(p, f) /\ ~ E!Live(p, f)'
    BY <1>2, <1>4 DEF E!Live, Waiting
  <1> QED
    <2>1. PointersLive' /\ PointersOnce'
      BY <1>2, <1>3, <1>4, <1>5, <1>6, <1>7, <1>9, QuietStep
    <2> QED BY <1>3, <1>4, <1>8, <2>1 DEF EInv

\* A load of the stack, the first or after a failed CAS.
LEMMA LoadEInv == ASSUME E!EventConstants, EInv, NEW p \in E!Waiters, E!Load(p) PROVE EInv'
  <1>1. PICK x \in E!Pointers : x = queue_head_[event[p]]
    BY DEF EInv, E!TypeOK
  <1>2. /\ ev_pc[p] \in {"load", "cas"} /\ ev_pc' = [ev_pc EXCEPT ![p] = "link"]
        /\ expected_head' = [expected_head EXCEPT ![p] = x]
        /\ queue_head_' = queue_head_ /\ ev_next' = ev_next /\ event' = event
        /\ head' = head /\ follow' = follow /\ ev_asleep' = ev_asleep /\ ev_state' = ev_state
    BY <1>1 DEF E!Load, E!Goto, E!eventVars, E!fire
  <1>3. E!TypeOK'
    BY <1>2 DEF EInv, E!TypeOK
  <1>4. PcOK' /\ ev_pc'[p] = "link" /\ \A y \in E!Waiters \union Events : y # p => ev_pc'[y] = ev_pc[y]
    BY <1>2, PcStep DEF EInv, E!EventConstants, WaitLabels
  <1>5. \A f \in Events : ev_pc'[f] = ev_pc[f]
    BY <1>4 DEF E!EventConstants
  <1>6. expected_head'[p] = x /\ \A q \in E!Waiters : q # p => expected_head'[q] = expected_head[q]
    BY <1>2 DEF EInv, E!TypeOK
  <1>7. FiredRight'
    BY <1>1, <1>2, <1>4, <1>5, <1>6 DEF EInv, FiredRight, Suspended, E!IsFired, E!Waiters
  <1>8. ~ Waiting(p)' /\ \A f \in Events : ~ E!Live(p, f) /\ ~ E!Live(p, f)'
    BY <1>2, <1>4 DEF E!Live, Waiting
  <1> QED
    <2>1. PointersLive' /\ PointersOnce'
      BY <1>2, <1>3, <1>4, <1>5, <1>8, QuietStep
    <2> QED BY <1>3, <1>4, <1>7, <2>1 DEF EInv

\* The awaiter is not in the list while it is linked; kFired was the stack when it
\* was loaded, and an event stays fired.
LEMMA LinkEInv == ASSUME E!EventConstants, EInv, NEW p \in E!Waiters, E!Link(p) PROVE EInv'
  <1>1. PICK x \in E!Pointers : x = expected_head[p]
    BY DEF EInv, E!TypeOK
  <1>2. /\ ev_pc[p] = "link" /\ ev_pc' = [ev_pc EXCEPT ![p] = IF x = kFired THEN "return" ELSE "cas"]
        /\ ev_next' = IF x = kFired THEN ev_next ELSE [ev_next EXCEPT ![p] = x]
        /\ queue_head_' = queue_head_ /\ event' = event /\ expected_head' = expected_head
        /\ head' = head /\ follow' = follow /\ ev_asleep' = ev_asleep /\ ev_state' = ev_state
    BY <1>1 DEF E!Link, E!Goto, E!eventVars, E!fire
  <1>3. E!TypeOK'
    BY <1>2 DEF EInv, E!TypeOK
  <1>4. /\ PcOK' /\ ev_pc'[p] = IF x = kFired THEN "return" ELSE "cas"
        /\ \A y \in E!Waiters \union Events : y # p => ev_pc'[y] = ev_pc[y]
    BY <1>2, PcStep DEF EInv, E!EventConstants, WaitLabels
  <1>5. \A f \in Events : ev_pc'[f] = ev_pc[f]
    BY <1>4 DEF E!EventConstants
  <1>6. (x # kFired => ev_next'[p] = x) /\ \A q \in E!Waiters : q # p => ev_next'[q] = ev_next[q]
    BY <1>2 DEF EInv, E!TypeOK
  <1>7. FiredRight'
    BY <1>1, <1>2, <1>4, <1>5, <1>6 DEF EInv, FiredRight, Suspended, E!IsFired, E!Waiters
  <1>8. ~ Waiting(p)' /\ \A f \in Events : ~ E!Live(p, f) /\ ~ E!Live(p, f)'
    BY <1>2, <1>4 DEF E!Live, Waiting
  <1> QED
    <2>1. PointersLive' /\ PointersOnce'
      BY <1>2, <1>3, <1>4, <1>5, <1>6, <1>8, QuietStep
    <2> QED BY <1>3, <1>4, <1>7, <2>1 DEF EInv

\* The event of a thread that finds its own fired is fired.
LEMMA LookEInv == ASSUME E!EventConstants, EInv, NEW t \in Threads, E!Look(t) PROVE EInv'
  <1>1. /\ t \in E!Waiters /\ ev_pc[t] = "parked"
        /\ ev_pc' = [ev_pc EXCEPT ![t] = IF E!IsFired(t) THEN "return" ELSE "wait"]
        /\ queue_head_' = queue_head_ /\ event' = event /\ expected_head' = expected_head /\ ev_next' = ev_next
        /\ head' = head /\ follow' = follow /\ ev_asleep' = ev_asleep /\ ev_state' = ev_state
    BY DEF E!Look, E!Goto, E!eventVars, E!fire, E!own, E!Waiters
  <1>2. E!TypeOK'
    BY <1>1 DEF EInv, E!TypeOK
  <1>3. /\ PcOK' /\ ev_pc'[t] = IF E!IsFired(t) THEN "return" ELSE "wait"
        /\ \A y \in E!Waiters \union Events : y # t => ev_pc'[y] = ev_pc[y]
    BY <1>1, PcStep DEF EInv, E!EventConstants, WaitLabels
  <1>4. \A f \in Events : ev_pc'[f] = ev_pc[f]
    BY <1>1, <1>3 DEF E!EventConstants
  <1>5. FiredRight'
    BY <1>1, <1>3, <1>4 DEF EInv, FiredRight, Suspended, E!IsFired, E!Waiters
  <1>6. \A f \in Events : E!Live(t, f) <=> E!Live(t, f)'
    BY <1>1, <1>3 DEF E!Live, E!IsFired
  <1> QED
    <2>1. PointersLive' /\ PointersOnce'
      BY <1>1, <1>2, <1>3, <1>4, <1>6, QuietStep
    <2> QED BY <1>2, <1>3, <1>5, <2>1 DEF EInv

\* Whether the thread falls asleep makes no difference to the lists.
LEMMA SleepEInv == ASSUME E!EventConstants, EInv, NEW t \in Threads, E!Sleep(t) PROVE EInv'
  <1>1. PICK l \in {"parked", "asleep"} : ev_pc' = [ev_pc EXCEPT ![t] = l]
    BY DEF E!Sleep, E!Goto
  <1>2. /\ t \in E!Waiters /\ ev_pc[t] = "wait"
        /\ queue_head_' = queue_head_ /\ event' = event /\ expected_head' = expected_head /\ ev_next' = ev_next
        /\ head' = head /\ follow' = follow /\ ev_state' = ev_state
        /\ ev_asleep' \subseteq ev_asleep \union {t}
    BY DEF E!Sleep, E!FutexWait, E!eventVars, E!fire, E!own, E!Waiters
  <1>3. E!TypeOK'
    BY <1>2 DEF EInv, E!TypeOK
  <1>4. PcOK' /\ ev_pc'[t] = l /\ \A y \in E!Waiters \union Events : y # t => ev_pc'[y] = ev_pc[y]
    BY <1>1, <1>2, PcStep DEF EInv, E!EventConstants, WaitLabels
  <1>5. \A f \in Events : ev_pc'[f] = ev_pc[f]
    BY <1>2, <1>4 DEF E!EventConstants
  <1>6. FiredRight'
    BY <1>2, <1>4, <1>5 DEF EInv, FiredRight, Suspended, E!IsFired, E!Waiters
  <1>7. \A f \in Events : E!Live(t, f) <=> E!Live(t, f)'
    BY <1>2, <1>4 DEF E!Live, E!IsFired
  <1> QED
    <2>1. PointersLive' /\ PointersOnce'
      BY <1>2, <1>3, <1>4, <1>5, <1>7, QuietStep
    <2> QED BY <1>3, <1>4, <1>6, <2>1 DEF EInv

LEMMA AwakeEInv == ASSUME E!EventConstants, EInv, NEW t \in Threads, E!Awake(t) PROVE EInv'
  <1>1. /\ t \in E!Waiters /\ ev_pc[t] = "asleep" /\ ev_pc' = [ev_pc EXCEPT ![t] = "parked"]
        /\ queue_head_' = queue_head_ /\ event' = event /\ expected_head' = expected_head /\ ev_next' = ev_next
        /\ head' = head /\ follow' = follow /\ ev_asleep' = ev_asleep /\ ev_state' = ev_state
    BY DEF E!Awake, E!Goto, E!eventVars, E!fire, E!own, E!Waiters
  <1>2. E!TypeOK'
    BY <1>1 DEF EInv, E!TypeOK
  <1>3. PcOK' /\ ev_pc'[t] = "parked" /\ \A y \in E!Waiters \union Events : y # t => ev_pc'[y] = ev_pc[y]
    BY <1>1, PcStep DEF EInv, E!EventConstants, WaitLabels
  <1>4. \A f \in Events : ev_pc'[f] = ev_pc[f]
    BY <1>1, <1>3 DEF E!EventConstants
  <1>5. FiredRight'
    BY <1>1, <1>3, <1>4 DEF EInv, FiredRight, Suspended, E!IsFired, E!Waiters
  <1>6. \A f \in Events : E!Live(t, f) <=> E!Live(t, f)'
    BY <1>1, <1>3 DEF E!Live, E!IsFired
  <1> QED
    <2>1. PointersLive' /\ PointersOnce'
      BY <1>1, <1>2, <1>3, <1>4, <1>6, QuietStep
    <2> QED BY <1>2, <1>3, <1>5, <2>1 DEF EInv

\* The awaiter that goes is in no list.
LEMMA ReturnEInv == ASSUME E!EventConstants, EInv, NEW p \in E!Waiters, E!Return(p) PROVE EInv'
  <1>1. E!AnyEvent \in Events
    BY DEF E!EventConstants, E!AnyEvent
  <1>2. /\ ev_pc[p] = "return" /\ ev_pc' = [ev_pc EXCEPT ![p] = "idle"]
        /\ event' = [event EXCEPT ![p] = E!AnyEvent]
        /\ expected_head' = [expected_head EXCEPT ![p] = kNotFired]
        /\ ev_next' = [ev_next EXCEPT ![p] = kFired] /\ queue_head_' = queue_head_
        /\ head' = head /\ follow' = follow /\ ev_asleep' = ev_asleep /\ ev_state' = ev_state
    BY DEF E!Return, E!Goto, E!eventVars, E!fire
  <1>3. E!TypeOK'
    BY <1>1, <1>2 DEF EInv, E!TypeOK, E!Pointers
  <1>4. PcOK' /\ ev_pc'[p] = "idle" /\ \A y \in E!Waiters \union Events : y # p => ev_pc'[y] = ev_pc[y]
    BY <1>2, PcStep DEF EInv, E!EventConstants, WaitLabels
  <1>5. \A f \in Events : ev_pc'[f] = ev_pc[f]
    BY <1>4 DEF E!EventConstants
  <1>6. \A q \in E!Waiters : q # p => /\ event'[q] = event[q] /\ ev_next'[q] = ev_next[q]
                                    /\ expected_head'[q] = expected_head[q]
    BY <1>2 DEF EInv, E!TypeOK
  <1>7. FiredRight'
    BY <1>2, <1>4, <1>5, <1>6 DEF EInv, FiredRight, Suspended, E!IsFired, E!Waiters
  <1>8. ~ Waiting(p)' /\ \A f \in Events : ~ E!Live(p, f) /\ ~ E!Live(p, f)'
    BY <1>2, <1>4 DEF E!Live, Waiting
  <1> QED
    <2>1. PointersLive' /\ PointersOnce'
      BY <1>2, <1>3, <1>4, <1>5, <1>6, <1>8, QuietStep
    <2> QED BY <1>3, <1>4, <1>7, <2>1 DEF EInv

\* A sleeper that is woken for nothing has not been told that its event is fired.
LEMMA InterruptEInv == ASSUME EInv, NEW t \in Threads, E!Interrupt(t) PROVE EInv'
  <1>1. /\ queue_head_' = queue_head_ /\ event' = event /\ expected_head' = expected_head /\ ev_next' = ev_next
        /\ head' = head /\ follow' = follow /\ ev_pc' = ev_pc /\ ev_state' = ev_state /\ ev_asleep' = ev_asleep \ {t}
    BY DEF E!Interrupt, E!WakeForNothing, E!WakeAll, E!own, E!fire
  <1>2. E!TypeOK' /\ PcOK' /\ FiredRight'
    BY <1>1 DEF EInv, E!TypeOK, PcOK, FiredRight, E!IsFired
  <1>3. t \in E!Waiters /\ \A f \in Events : E!Live(t, f) <=> E!Live(t, f)'
    BY <1>1 DEF E!Live, E!IsFired, E!Waiters
  <1>4. PointersLive' /\ PointersOnce'
    BY <1>1, <1>2, <1>3, QuietStep
  <1> QED BY <1>2, <1>4 DEF EInv

-----------------------------------------------------------------------------
\* The steps that change the lists.

\* Fire goes on at an awaiter of its own event, and an awaiter waits for one event.
LEMMA AheadLeads ==
  ASSUME EInv
  PROVE  /\ \A e \in Events : ev_pc[e] # "idle" => Leads(Ahead(e), e)
         /\ \A q \in E!Waiters, e, g \in Events : E!Live(q, e) /\ E!Live(q, g) => e = g
         /\ \A q \in E!Waiters, e \in Events : E!Live(q, e) => Waiting(q) /\ event[q] = e
         /\ \A e \in Events : ev_pc[e] # "idle" => queue_head_[e] = kFired
  <1>1. \A e \in Events : ev_pc[e] # "idle" => Leads(Ahead(e), e)
    <2> SUFFICES ASSUME NEW e \in Events, ev_pc[e] # "idle" PROVE Leads(Ahead(e), e)
      OBVIOUS
    <2>1. ev_pc[e] \in {"walk", "wake", "notify"}
      BY DEF EInv, PcOK, FireLabels
    <2>2. CASE ev_pc[e] = "walk"
      BY <2>2 DEF EInv, PointersLive, Ahead
    <2>3. CASE ev_pc[e] = "wake"
      BY <2>3 DEF EInv, PointersLive, Ahead, Leads
    <2>4. CASE ev_pc[e] = "notify"
      BY <2>4 DEF EInv, PointersLive, Ahead
    <2> QED BY <2>1, <2>2, <2>3, <2>4
  <1>2. \A q \in E!Waiters, e, g \in Events : E!Live(q, e) /\ E!Live(q, g) => e = g
    BY DEF E!Live
  <1>3. \A q \in E!Waiters, e \in Events : E!Live(q, e) => Waiting(q) /\ event[q] = e
    BY DEF E!Live, Waiting
  <1> QED BY <1>1, <1>2, <1>3 DEF EInv, FiredRight

\* The new awaiter goes before those that wait; what it leads to, nothing else leads to.
LEMMA CasEInv == ASSUME E!EventConstants, EInv, NEW p \in E!Waiters, E!Cas(p) PROVE EInv'
  <1>1. PICK g \in Events, x \in E!Pointers : g = event[p] /\ x = queue_head_[g]
    BY DEF EInv, E!TypeOK
  <1>2. /\ ev_pc[p] = "cas" /\ ev_pc' = [ev_pc EXCEPT ![p] = "parked"]
        /\ queue_head_' = [queue_head_ EXCEPT ![g] = p]
        /\ expected_head' = [expected_head EXCEPT ![p] = kNotFired]
        /\ ev_next' = ev_next /\ event' = event
        /\ head' = head /\ follow' = follow /\ ev_asleep' = ev_asleep /\ ev_state' = ev_state
        /\ expected_head[p] = x
    BY <1>1 DEF E!Cas, E!Goto, E!eventVars, E!fire
  <1>3. E!TypeOK'
    BY <1>2 DEF EInv, E!TypeOK, E!Pointers
  <1>4. PcOK' /\ ev_pc'[p] = "parked" /\ \A y \in E!Waiters \union Events : y # p => ev_pc'[y] = ev_pc[y]
    BY <1>2, PcStep DEF EInv, E!EventConstants, WaitLabels
  <1>5. \A e \in Events : ev_pc'[e] = ev_pc[e]
    BY <1>4 DEF E!EventConstants
  <1>6. queue_head_'[g] = p /\ \A e \in Events : e # g => queue_head_'[e] = queue_head_[e]
    BY <1>2 DEF EInv, E!TypeOK
  <1>7. x # kFired /\ ev_next[p] = x /\ (p \in Threads => ~ E!IsFired(p)) /\ p # kFired /\ p # kNotFired
        /\ kNotFired \notin E!Waiters
    BY <1>2 DEF EInv, FiredRight, E!EventConstants
  <1>8. ev_pc[g] = "idle" /\ Leads(x, g)
    BY <1>1, <1>7 DEF EInv, FiredRight, PointersLive
  <1>9. FiredRight'
    <2>1. \A q \in E!Waiters : event[q] \in Events /\ (q # p => expected_head'[q] = expected_head[q])
      BY <1>2 DEF EInv, E!TypeOK
    <2>2. \A q \in E!Waiters : queue_head_[event[q]] = kFired => queue_head_'[event'[q]] = kFired
      BY <1>1, <1>2, <1>6, <1>7, <2>1
    <2>3. \A e \in Events : queue_head_'[e] = kFired <=> queue_head_[e] = kFired
      BY <1>1, <1>6, <1>7
    <2>4. \A t \in Threads : E!IsFired(t)' <=> E!IsFired(t)
      BY <1>2 DEF E!IsFired
    <2> QED BY <1>2, <1>4, <1>5, <1>7, <2>1, <2>2, <2>3, <2>4 DEF EInv, FiredRight, Suspended, E!Waiters
  <1>10. E!Live(p, g)' /\ \A e \in Events : ~ E!Live(p, e) /\ (e # g => ~ E!Live(p, e)')
    BY <1>1, <1>2, <1>4, <1>7 DEF E!Live, E!IsFired
  <1>11. \A q \in E!Waiters, e \in Events : q # p => (E!Live(q, e)' <=> E!Live(q, e))
    BY <1>2, <1>4 DEF E!Live, E!IsFired
  <1>12. \A y \in E!Pointers, e \in Events : Leads(y, e) => Leads(y, e)' /\ y # p
    BY <1>7, <1>10, <1>11 DEF Leads
  <1>13. \A q \in E!Waiters : q # p => (Waiting(q)' <=> Waiting(q))
    BY <1>2, <1>11 DEF Waiting, EInv, E!TypeOK
  <1>14. PointersLive'
    <2>1. \A e \in Events : queue_head_'[e] # kFired => Leads(queue_head_[e], e)'
      <3> SUFFICES ASSUME NEW e \in Events, queue_head_'[e] # kFired PROVE Leads(queue_head_[e], e)'
        OBVIOUS
      <3>1. CASE e = g
        BY <1>6, <1>10, <3>1 DEF Leads
      <3>2. CASE e # g
        <4>1. PICK y \in E!Pointers : y = queue_head_[e] /\ y = queue_head_'[e]
          BY <1>6, <3>2 DEF EInv, E!TypeOK
        <4>2. Leads(y, e)'
          BY <1>12, <4>1 DEF EInv, PointersLive
        <4> QED BY <4>1, <4>2 DEF Leads, E!Live, E!IsFired
      <3> QED BY <3>1, <3>2
    <2>2. \A q \in E!Waiters : Waiting(q)' => Leads(ev_next[q], event[q])'
      <3> SUFFICES ASSUME NEW q \in E!Waiters, Waiting(q)' PROVE Leads(ev_next[q], event[q])'
        OBVIOUS
      <3>1. PICK y \in E!Pointers, e \in Events : y = ev_next[q] /\ e = event[q]
        BY DEF EInv, E!TypeOK
      <3>2. Leads(y, e)
        BY <1>1, <1>7, <1>8, <1>13, <3>1 DEF EInv, PointersLive
      <3>3. Leads(y, e)'
        BY <1>12, <3>2
      <3> QED BY <1>2, <3>1, <3>3
    <2>3. \A e \in Events : ev_pc'[e] = "walk" => Leads(head[e], e)'
      <3> SUFFICES ASSUME NEW e \in Events, ev_pc'[e] = "walk" PROVE Leads(head[e], e)'
        OBVIOUS
      <3>1. PICK y \in E!Pointers : y = head[e]
        BY DEF EInv, E!TypeOK
      <3>2. Leads(y, e)'
        BY <1>5, <1>12, <3>1 DEF EInv, PointersLive
      <3> QED BY <1>2, <3>1, <3>2
    <2>4. \A e \in Events : ev_pc'[e] = "wake" =>
            head'[e] \in E!Waiters /\ E!Live(head[e], e)' /\ follow'[e] = ev_next'[head'[e]]
      <3> SUFFICES ASSUME NEW e \in Events, ev_pc'[e] = "wake"
                   PROVE  head'[e] \in E!Waiters /\ E!Live(head[e], e)' /\ follow'[e] = ev_next'[head'[e]]
        OBVIOUS
      <3>1. PICK h \in E!Waiters : h = head[e] /\ E!Live(h, e) /\ follow[e] = ev_next[h]
        BY <1>5 DEF EInv, PointersLive
      <3>2. E!Live(h, e)'
        BY <1>10, <1>11, <3>1
      <3> QED BY <1>2, <3>1, <3>2
    <2>5. \A e \in Events : ev_pc'[e] = "notify" => head'[e] \in Threads /\ Leads(follow[e], e)'
      <3> SUFFICES ASSUME NEW e \in Events, ev_pc'[e] = "notify"
                   PROVE  head'[e] \in Threads /\ Leads(follow[e], e)'
        OBVIOUS
      <3>1. PICK y \in E!Pointers : y = follow[e]
        BY DEF EInv, E!TypeOK
      <3>2. Leads(y, e)' /\ head[e] \in Threads
        BY <1>5, <1>12, <3>1 DEF EInv, PointersLive
      <3> QED BY <1>2, <3>1, <3>2
    <2> QED BY <2>1, <2>2, <2>3, <2>4, <2>5 DEF PointersLive
  <1>15. PointersOnce'
    <2>1. \A q \in E!Waiters : q # p /\ Waiting(q) => ev_next[q] # p /\ (x \in E!Waiters => ev_next[q] # x)
      <3> SUFFICES ASSUME NEW q \in E!Waiters, q # p, Waiting(q)
                   PROVE  ev_next[q] # p /\ (x \in E!Waiters => ev_next[q] # x)
        OBVIOUS
      <3>1. PICK y \in E!Pointers, e \in Events : y = ev_next[q] /\ e = event[q]
        BY DEF EInv, E!TypeOK
      <3>2. y # p
        BY <1>12, <3>1 DEF EInv, PointersLive
      <3>3. x \in E!Waiters => y # x
        BY <1>1, <3>1 DEF EInv, PointersOnce
      <3> QED BY <3>1, <3>2, <3>3
    <2>2. \A q, r \in E!Waiters :
            Waiting(q)' /\ Waiting(r)' /\ ev_next'[q] = ev_next'[r] /\ ev_next'[q] \in E!Waiters => q = r
      BY <1>2, <1>7, <1>13, <2>1 DEF EInv, PointersOnce
    <2>3. x \in E!Waiters => x # p /\ E!Live(x, g)
      BY <1>7, <1>8, <1>12 DEF Leads
    <2>4. \A q \in E!Waiters, e \in Events : Waiting(q)' /\ ev_next'[q] \in E!Waiters => ev_next'[q] # queue_head_'[e]
      <3> SUFFICES ASSUME NEW q \in E!Waiters, NEW e \in Events, Waiting(q)', ev_next'[q] \in E!Waiters
                   PROVE  ev_next'[q] # queue_head_'[e]
        OBVIOUS
      <3>1. CASE e = g
        BY <1>2, <1>6, <1>7, <1>13, <2>1, <2>3, <3>1
      <3>2. CASE e # g /\ q # p
        BY <1>2, <1>6, <1>13, <3>2 DEF EInv, PointersOnce
      <3>3. CASE e # g /\ q = p
        <4>1. ev_next'[q] = x /\ E!Live(x, g) /\ queue_head_'[e] = queue_head_[e]
          BY <1>2, <1>6, <1>7, <2>3, <3>3
        <4>2. x # queue_head_[e]
          <5> SUFFICES ASSUME x = queue_head_[e] PROVE FALSE
            OBVIOUS
          <5>1. Leads(x, e)
            BY <1>7 DEF EInv, PointersLive
          <5> QED BY <1>7, <3>3, <4>1, <5>1 DEF Leads, E!Live
        <4> QED BY <4>1, <4>2
      <3> QED BY <3>1, <3>2, <3>3
    <2>5. \A q \in E!Waiters, e \in Events :
            Waiting(q)' /\ ev_next'[q] \in E!Waiters /\ ev_pc'[e] # "idle" => ev_next'[q] # Ahead(e)'
      <3> SUFFICES ASSUME NEW q \in E!Waiters, NEW e \in Events, Waiting(q)', ev_next'[q] \in E!Waiters, ev_pc[e] # "idle"
                   PROVE  ev_next'[q] # Ahead(e)'
        BY <1>5
      <3>1. Ahead(e)' = Ahead(e)
        BY <1>2, <1>5 DEF Ahead
      <3>2. CASE q # p
        BY <1>2, <1>13, <3>1, <3>2 DEF EInv, PointersOnce
      <3>3. CASE q = p
        <4>1. ev_next'[q] = x /\ E!Live(x, g) /\ x # kNotFired
          BY <1>2, <1>7, <2>3, <3>3
        <4>2. Leads(Ahead(e), e) /\ e # g
          BY <1>8, AheadLeads
        <4>3. x # Ahead(e)
          BY <4>1, <4>2 DEF Leads, E!Live
        <4> QED BY <3>1, <4>1, <4>3
      <3> QED BY <3>2, <3>3
    <2> QED BY <2>2, <2>4, <2>5 DEF PointersOnce
  <1> QED BY <1>3, <1>4, <1>9, <1>14, <1>15 DEF EInv

\* Fire moves on without a wake: the awaiters and their pointers stay as they are.
LEMMA FireMoves ==
  ASSUME E!EventConstants, EInv, E!TypeOK', NEW g \in Events,
         ev_next' = ev_next, event' = event,
         \A q \in E!Waiters : ev_pc'[q] = ev_pc[q],
         \A t \in Threads : ev_state'[t] = ev_state[t],
         \A e \in Events : queue_head_'[e] \in {queue_head_[e], kFired},
         \A e \in Events : e # g => ev_pc'[e] = ev_pc[e] /\ head'[e] = head[e] /\ follow'[e] = follow[e],
         ev_pc'[g] \in {"walk", "wake"},
         Leads(head'[g], g),
         ev_pc'[g] = "wake" => head'[g] # kNotFired /\ follow'[g] = ev_next[head'[g]],
         head'[g] = queue_head_[g] \/ (ev_pc[g] # "idle" /\ head'[g] = Ahead(g))
  PROVE  PointersLive' /\ PointersOnce'
  <1>1. \A q \in E!Waiters, e \in Events : E!Live(q, e)' <=> E!Live(q, e)
    BY DEF E!Live, E!IsFired
  <1>2. \A y \in E!Pointers, e \in Events : Leads(y, e) => Leads(y, e)'
    BY <1>1 DEF Leads
  <1>3. \A q \in E!Waiters : Waiting(q)' <=> Waiting(q)
    BY <1>1 DEF Waiting, EInv, E!TypeOK
  <1>4. PointersLive'
    <2>1. \A e \in Events : queue_head_'[e] # kFired => Leads(queue_head_[e], e)'
      <3> SUFFICES ASSUME NEW e \in Events, queue_head_'[e] # kFired PROVE Leads(queue_head_[e], e)'
        OBVIOUS
      <3>1. PICK y \in E!Pointers : y = queue_head_[e] /\ y = queue_head_'[e]
        BY DEF EInv, E!TypeOK
      <3>2. Leads(y, e)'
        BY <1>2, <3>1 DEF EInv, PointersLive
      <3> QED BY <3>1, <3>2 DEF Leads, E!Live, E!IsFired
    <2>2. \A q \in E!Waiters : Waiting(q)' => Leads(ev_next[q], event[q])'
      <3> SUFFICES ASSUME NEW q \in E!Waiters, Waiting(q)' PROVE Leads(ev_next[q], event[q])'
        OBVIOUS
      <3>1. PICK y \in E!Pointers, e \in Events : y = ev_next[q] /\ e = event[q]
        BY DEF EInv, E!TypeOK
      <3>2. Leads(y, e)'
        BY <1>2, <1>3, <3>1 DEF EInv, PointersLive
      <3> QED BY <3>1, <3>2
    <2>3. PICK x \in E!Pointers : x = head'[g] /\ Leads(x, g)'
      BY <1>2 DEF E!TypeOK
    <2>4. \A e \in Events : ev_pc'[e] = "walk" => Leads(head[e], e)'
      <3> SUFFICES ASSUME NEW e \in Events, ev_pc'[e] = "walk" PROVE Leads(head[e], e)'
        OBVIOUS
      <3>1. CASE e = g
        BY <2>3, <3>1 DEF Leads, E!Live, E!IsFired
      <3>2. CASE e # g
        <4>1. PICK y \in E!Pointers : y = head[e] /\ y = head'[e]
          BY <3>2 DEF EInv, E!TypeOK
        <4>2. Leads(y, e)'
          BY <1>2, <3>2, <4>1 DEF EInv, PointersLive
        <4> QED BY <4>1, <4>2 DEF Leads, E!Live, E!IsFired
      <3> QED BY <3>1, <3>2
    <2>5. \A e \in Events : ev_pc'[e] = "wake" =>
            head'[e] \in E!Waiters /\ E!Live(head[e], e)' /\ follow'[e] = ev_next'[head'[e]]
      <3> SUFFICES ASSUME NEW e \in Events, ev_pc'[e] = "wake"
                   PROVE  head'[e] \in E!Waiters /\ E!Live(head[e], e)' /\ follow'[e] = ev_next'[head'[e]]
        OBVIOUS
      <3>1. CASE e = g
        <4>1. x \in E!Waiters /\ E!Live(x, g)'
          BY <2>3, <3>1 DEF Leads
        <4>2. follow'[g] = ev_next'[x]
          BY <2>3, <3>1
        <4> QED BY <2>3, <3>1, <4>1, <4>2 DEF E!Live, E!IsFired
      <3>2. CASE e # g
        <4>1. PICK h \in E!Waiters : h = head[e] /\ h = head'[e] /\ E!Live(h, e) /\ follow[e] = ev_next[h]
          BY <3>2 DEF EInv, PointersLive
        <4>2. E!Live(h, e)'
          BY <1>1, <4>1
        <4> QED BY <3>2, <4>1, <4>2 DEF E!Live, E!IsFired
      <3> QED BY <3>1, <3>2
    <2>6. \A e \in Events : ev_pc'[e] = "notify" => head'[e] \in Threads /\ Leads(follow[e], e)'
      <3> SUFFICES ASSUME NEW e \in Events, ev_pc'[e] = "notify"
                   PROVE  head'[e] \in Threads /\ Leads(follow[e], e)'
        OBVIOUS
      <3>1. PICK y \in E!Pointers : y = follow[e] /\ y = follow'[e]
        BY DEF EInv, E!TypeOK
      <3>2. Leads(y, e)' /\ head'[e] \in Threads
        BY <1>2, <3>1 DEF EInv, PointersLive
      <3> QED BY <3>1, <3>2 DEF Leads, E!Live, E!IsFired
    <2> QED BY <2>1, <2>2, <2>4, <2>5, <2>6 DEF PointersLive
  <1>5. PointersOnce'
    <2>1. \A q, r \in E!Waiters :
            Waiting(q)' /\ Waiting(r)' /\ ev_next'[q] = ev_next'[r] /\ ev_next'[q] \in E!Waiters => q = r
      BY <1>3 DEF EInv, PointersOnce
    <2>2. \A q \in E!Waiters, e \in Events : Waiting(q)' /\ ev_next'[q] \in E!Waiters => ev_next'[q] # queue_head_'[e]
      BY <1>3 DEF EInv, PointersOnce, E!EventConstants
    <2>3. \A q \in E!Waiters, e \in Events :
            Waiting(q)' /\ ev_next'[q] \in E!Waiters /\ ev_pc'[e] # "idle" => ev_next'[q] # Ahead(e)'
      <3> SUFFICES ASSUME NEW q \in E!Waiters, NEW e \in Events,
                          Waiting(q), ev_next[q] \in E!Waiters, ev_pc'[e] # "idle"
                   PROVE  ev_next[q] # Ahead(e)'
        BY <1>3
      <3>1. CASE e = g
        <4>1. Ahead(e)' = head'[g]
          BY <3>1 DEF Ahead
        <4> QED BY <4>1 DEF EInv, PointersOnce
      <3>2. CASE e # g
        <4>1. Ahead(e)' = Ahead(e) /\ ev_pc[e] # "idle"
          BY <3>2 DEF Ahead
        <4> QED BY <4>1 DEF EInv, PointersOnce
      <3> QED BY <3>1, <3>2
    <2> QED BY <2>1, <2>2, <2>3 DEF PointersOnce
  <1> QED BY <1>4, <1>5

\* The stack becomes the list that Fire walks, and the event is fired.
LEMMA FireEInv == ASSUME E!EventConstants, EInv, NEW g \in Events, E!Fire(g) PROVE EInv'
  <1>1. PICK x \in E!Pointers : x = queue_head_[g]
    BY DEF EInv, E!TypeOK
  <1>2. /\ ev_pc[g] = "idle" /\ ev_pc' = [ev_pc EXCEPT ![g] = "walk"]
        /\ head' = [head EXCEPT ![g] = x] /\ queue_head_' = [queue_head_ EXCEPT ![g] = kFired]
        /\ follow' = follow /\ ev_next' = ev_next /\ event' = event /\ expected_head' = expected_head
        /\ ev_asleep' = ev_asleep /\ ev_state' = ev_state
    BY <1>1 DEF E!Fire, E!Goto, E!eventVars, E!own
  <1>3. E!TypeOK'
    BY <1>2 DEF EInv, E!TypeOK, E!Pointers
  <1>4. PcOK' /\ ev_pc'[g] = "walk" /\ \A y \in E!Waiters \union Events : y # g => ev_pc'[y] = ev_pc[y]
    BY <1>2, PcStep DEF EInv, E!EventConstants, FireLabels
  <1>5. \A q \in E!Waiters : ev_pc'[q] = ev_pc[q]
    BY <1>4 DEF E!EventConstants
  <1>6. /\ queue_head_'[g] = kFired /\ head'[g] = x
        /\ \A e \in Events : e # g => queue_head_'[e] = queue_head_[e] /\ head'[e] = head[e]
    BY <1>2 DEF EInv, E!TypeOK
  <1>7. Leads(x, g)
    BY <1>1, <1>2 DEF EInv, FiredRight, PointersLive
  <1>8. FiredRight'
    <2>1. \A q \in E!Waiters : queue_head_[event[q]] = kFired => queue_head_'[event'[q]] = kFired
      BY <1>2, <1>6 DEF EInv, E!TypeOK
    <2>2. \A e \in Events : queue_head_'[e] = kFired <=> ev_pc'[e] # "idle"
      BY <1>4, <1>6 DEF EInv, FiredRight
    <2> QED BY <1>2, <1>5, <2>1, <2>2 DEF EInv, FiredRight, Suspended, E!IsFired, E!Waiters
  <1> QED
    <2>1. PointersLive' /\ PointersOnce'
      BY <1>1, <1>2, <1>3, <1>4, <1>5, <1>6, <1>7, FireMoves
    <2> QED BY <1>3, <1>4, <1>8, <2>1 DEF EInv

\* Next of the awaiter is read while it waits.
LEMMA WalkEInv == ASSUME E!EventConstants, EInv, NEW g \in Events, E!Walk(g) PROVE EInv'
  <1>1. PICK h \in E!Waiters, x \in E!Pointers : h = head[g] /\ x = ev_next[h]
    BY DEF E!Walk, EInv, PointersLive, Leads, E!TypeOK
  <1>2. /\ ev_pc[g] = "walk" /\ ev_pc' = [ev_pc EXCEPT ![g] = "wake"]
        /\ follow' = [follow EXCEPT ![g] = x] /\ h # kNotFired
        /\ queue_head_' = queue_head_ /\ head' = head /\ ev_next' = ev_next /\ event' = event
        /\ expected_head' = expected_head /\ ev_asleep' = ev_asleep /\ ev_state' = ev_state
    BY <1>1 DEF E!Walk, E!Goto, E!eventVars, E!own
  <1>3. E!TypeOK'
    BY <1>2 DEF EInv, E!TypeOK
  <1>4. PcOK' /\ ev_pc'[g] = "wake" /\ \A y \in E!Waiters \union Events : y # g => ev_pc'[y] = ev_pc[y]
    BY <1>2, PcStep DEF EInv, E!EventConstants, FireLabels
  <1>5. \A q \in E!Waiters : ev_pc'[q] = ev_pc[q]
    BY <1>4 DEF E!EventConstants
  <1>6. follow'[g] = x /\ \A e \in Events : e # g => follow'[e] = follow[e]
    BY <1>2 DEF EInv, E!TypeOK
  <1>7. Leads(h, g) /\ Ahead(g) = h
    BY <1>1, <1>2 DEF EInv, PointersLive, Ahead
  <1>8. FiredRight'
    BY <1>2, <1>4, <1>5 DEF EInv, FiredRight, Suspended, E!IsFired, E!Waiters
  <1> QED
    <2>1. PointersLive' /\ PointersOnce'
      BY <1>1, <1>2, <1>3, <1>4, <1>5, <1>6, <1>7, FireMoves
    <2> QED BY <1>3, <1>4, <1>8, <2>1 DEF EInv

\* The wake of a thread that has been told already, or of nobody: Fire moves on.
LEMMA NotifyEInv == ASSUME E!EventConstants, EInv, NEW g \in Events, E!Notify(g) PROVE EInv'
  <1>1. PICK x \in E!Pointers : x = follow[g]
    BY DEF EInv, E!TypeOK
  <1>2. /\ ev_pc[g] = "notify" /\ ev_pc' = [ev_pc EXCEPT ![g] = "walk"]
        /\ head' = [head EXCEPT ![g] = x] /\ follow' = [follow EXCEPT ![g] = kNotFired]
        /\ queue_head_' = queue_head_ /\ ev_next' = ev_next /\ event' = event
        /\ expected_head' = expected_head /\ ev_asleep' \subseteq ev_asleep /\ ev_state' = ev_state
    BY <1>1 DEF E!Notify, E!Advance, E!WakeAll, E!Goto, E!own
  <1>3. E!TypeOK'
    BY <1>2 DEF EInv, E!TypeOK, E!Pointers
  <1>4. PcOK' /\ ev_pc'[g] = "walk" /\ \A y \in E!Waiters \union Events : y # g => ev_pc'[y] = ev_pc[y]
    BY <1>2, PcStep DEF EInv, E!EventConstants, FireLabels
  <1>5. \A q \in E!Waiters : ev_pc'[q] = ev_pc[q]
    BY <1>4 DEF E!EventConstants
  <1>6. head'[g] = x /\ \A e \in Events : e # g => follow'[e] = follow[e] /\ head'[e] = head[e]
    BY <1>2 DEF EInv, E!TypeOK
  <1>7. Leads(x, g) /\ Ahead(g) = x
    BY <1>1, <1>2 DEF EInv, PointersLive, Ahead
  <1>8. FiredRight'
    BY <1>2, <1>4, <1>5 DEF EInv, FiredRight, Suspended, E!IsFired, E!Waiters
  <1> QED
    <2>1. PointersLive' /\ PointersOnce'
      BY <1>1, <1>2, <1>3, <1>4, <1>5, <1>6, <1>7, FireMoves
    <2> QED BY <1>3, <1>4, <1>8, <2>1 DEF EInv

\* A Wake makes one awaiter leave, the one that Fire is at: no other pointer leads to it.
LEMMA FireWakes ==
  ASSUME E!EventConstants, EInv, E!TypeOK', NEW g \in Events, NEW h \in E!Waiters,
         ev_pc[g] = "wake", h = head[g],
         queue_head_' = queue_head_, ev_next' = ev_next, event' = event,
         \A q \in E!Waiters, e \in Events : E!Live(q, e)' <=> (q # h /\ E!Live(q, e)),
         \A e \in Events : e # g => ev_pc'[e] = ev_pc[e] /\ head'[e] = head[e] /\ follow'[e] = follow[e],
         \/ ev_pc'[g] = "walk" /\ head'[g] = follow[g]
         \/ ev_pc'[g] = "notify" /\ head'[g] \in Threads /\ follow'[g] = follow[g]
  PROVE  PointersLive' /\ PointersOnce'
  <1>1. PICK x \in E!Pointers : x = follow[g] /\ x = ev_next[h]
    BY DEF EInv, E!TypeOK, PointersLive
  <1>2. E!Live(h, g) /\ Waiting(h) /\ event[h] = g /\ queue_head_[g] = kFired /\ Ahead(g) = h
    BY AheadLeads DEF EInv, PointersLive, Ahead
  <1>3. \A e \in Events : E!Live(h, e) => e = g
    BY <1>2 DEF E!Live
  <1>4. \A q \in E!Waiters : Waiting(q)' <=> (q # h /\ Waiting(q))
    BY DEF Waiting, EInv, E!TypeOK
  <1>5. kNotFired # h
    BY DEF E!EventConstants
  <1>6. \A y \in E!Pointers, e \in Events : Leads(y, e) /\ y # h => Leads(y, e)'
    BY DEF Leads
  <1>7. \A y \in E!Pointers, e \in Events : Leads(y, e) /\ e # g => Leads(y, e)'
    BY <1>3, <1>5, <1>6 DEF Leads
  <1>8. \A q \in E!Waiters : Waiting(q) => ev_next[q] # h
    BY <1>2 DEF EInv, PointersOnce
  <1>9. Leads(x, g) /\ x # h
    BY <1>1, <1>2, <1>8 DEF EInv, PointersLive
  <1>10. Leads(x, g)'
    BY <1>6, <1>9
  <1>11. PointersLive'
    <2>1. \A e \in Events : queue_head_'[e] # kFired => Leads(queue_head_[e], e)'
      <3> SUFFICES ASSUME NEW e \in Events, queue_head_'[e] # kFired PROVE Leads(queue_head_[e], e)'
        OBVIOUS
      <3>1. PICK y \in E!Pointers : y = queue_head_[e]
        BY DEF EInv, E!TypeOK
      <3>2. Leads(y, e)'
        BY <1>2, <1>7, <3>1 DEF EInv, PointersLive
      <3> QED BY <3>1, <3>2
    <2>2. \A q \in E!Waiters : Waiting(q)' => Leads(ev_next[q], event[q])'
      <3> SUFFICES ASSUME NEW q \in E!Waiters, Waiting(q)' PROVE Leads(ev_next[q], event[q])'
        OBVIOUS
      <3>1. PICK y \in E!Pointers, e \in Events : y = ev_next[q] /\ e = event[q]
        BY DEF EInv, E!TypeOK
      <3>2. Leads(y, e)'
        BY <1>4, <1>6, <1>8, <3>1 DEF EInv, PointersLive
      <3> QED BY <3>1, <3>2
    <2>3. \A e \in Events : ev_pc'[e] = "walk" => Leads(head[e], e)'
      <3> SUFFICES ASSUME NEW e \in Events, ev_pc'[e] = "walk" PROVE Leads(head[e], e)'
        OBVIOUS
      <3>1. PICK y \in E!Pointers : y = head'[e]
        BY DEF E!TypeOK
      <3>2. Leads(y, e)'
        BY <1>1, <1>7, <1>10, <3>1 DEF EInv, PointersLive
      <3> QED BY <3>1, <3>2 DEF Leads, E!Live, E!IsFired
    <2>4. \A e \in Events : ev_pc'[e] = "wake" =>
            head'[e] \in E!Waiters /\ E!Live(head[e], e)' /\ follow'[e] = ev_next'[head'[e]]
      <3> SUFFICES ASSUME NEW e \in Events, ev_pc'[e] = "wake"
                   PROVE  head'[e] \in E!Waiters /\ E!Live(head[e], e)' /\ follow'[e] = ev_next'[head'[e]]
        OBVIOUS
      <3>1. PICK y \in E!Waiters : y = head[e] /\ y = head'[e] /\ E!Live(y, e) /\ follow'[e] = ev_next[y]
        BY DEF EInv, PointersLive
      <3>2. E!Live(y, e)'
        BY <1>3, <3>1
      <3> QED BY <3>1, <3>2 DEF E!Live, E!IsFired
    <2>5. \A e \in Events : ev_pc'[e] = "notify" => head'[e] \in Threads /\ Leads(follow[e], e)'
      <3> SUFFICES ASSUME NEW e \in Events, ev_pc'[e] = "notify"
                   PROVE  head'[e] \in Threads /\ Leads(follow[e], e)'
        OBVIOUS
      <3>1. PICK y \in E!Pointers : y = follow'[e]
        BY DEF E!TypeOK
      <3>2. Leads(y, e)' /\ head'[e] \in Threads
        BY <1>1, <1>7, <1>10, <3>1 DEF EInv, PointersLive
      <3> QED BY <3>1, <3>2 DEF Leads, E!Live, E!IsFired
    <2> QED BY <2>1, <2>2, <2>3, <2>4, <2>5 DEF PointersLive
  <1>12. PointersOnce'
    <2>1. \A q, r \in E!Waiters :
            Waiting(q)' /\ Waiting(r)' /\ ev_next'[q] = ev_next'[r] /\ ev_next'[q] \in E!Waiters => q = r
      BY <1>4 DEF EInv, PointersOnce
    <2>2. \A q \in E!Waiters, e \in Events : Waiting(q)' /\ ev_next'[q] \in E!Waiters => ev_next'[q] # queue_head_'[e]
      BY <1>4 DEF EInv, PointersOnce
    <2>3. \A q \in E!Waiters, e \in Events :
            Waiting(q)' /\ ev_next'[q] \in E!Waiters /\ ev_pc'[e] # "idle" => ev_next'[q] # Ahead(e)'
      <3> SUFFICES ASSUME NEW q \in E!Waiters, NEW e \in Events, q # h,
                          Waiting(q), ev_next[q] \in E!Waiters, ev_pc'[e] # "idle"
                   PROVE  ev_next[q] # Ahead(e)'
        BY <1>4
      <3>1. CASE e = g
        <4>1. Ahead(e)' = x
          BY <1>1, <3>1 DEF Ahead
        <4>2. ev_next[q] # ev_next[h]
          BY <1>2 DEF EInv, PointersOnce
        <4> QED BY <1>1, <4>1, <4>2
      <3>2. CASE e # g
        <4>1. Ahead(e)' = Ahead(e) /\ ev_pc[e] # "idle"
          BY <3>2 DEF Ahead
        <4> QED BY <4>1 DEF EInv, PointersOnce
      <3> QED BY <3>1, <3>2
    <2> QED BY <2>1, <2>2, <2>3 DEF PointersOnce
  <1> QED BY <1>11, <1>12

\* The fiber goes on; Fire has read where its awaiter led to.
LEMMA WakeFiberEInv == ASSUME E!EventConstants, EInv, NEW g \in Events, E!WakeFiber(g) PROVE EInv'
  <1>1. PICK h \in E!Waiters, x \in E!Pointers : h = head[g] /\ x = follow[g]
    BY DEF E!WakeFiber, EInv, PointersLive, E!TypeOK
  <1>2. /\ ev_pc[g] = "wake" /\ ev_pc' = [ev_pc EXCEPT ![g] = "walk", ![h] = "return"]
        /\ head' = [head EXCEPT ![g] = x] /\ follow' = [follow EXCEPT ![g] = kNotFired]
        /\ queue_head_' = queue_head_ /\ ev_next' = ev_next /\ event' = event
        /\ expected_head' = expected_head /\ ev_asleep' = ev_asleep /\ ev_state' = ev_state
    BY <1>1 DEF E!WakeFiber, E!Advance, E!eventVars, E!own
  <1>3. E!TypeOK'
    BY <1>2 DEF EInv, E!TypeOK, E!Pointers
  <1>4. h # g
    BY DEF E!EventConstants
  <1>5. /\ PcOK' /\ ev_pc'[g] = "walk" /\ ev_pc'[h] = "return"
        /\ \A y \in E!Waiters \union Events : y # g /\ y # h => ev_pc'[y] = ev_pc[y]
    <2>1. \A y \in E!Waiters \union Events :
            ev_pc'[y] = IF y = h THEN "return" ELSE IF y = g THEN "walk" ELSE ev_pc[y]
      BY <1>2, <1>4 DEF EInv, PcOK
    <2>2. DOMAIN ev_pc' = E!Waiters \union Events /\ ev_pc' = [y \in E!Waiters \union Events |-> ev_pc'[y]]
      BY <1>2 DEF EInv, PcOK
    <2> QED BY <1>4, <2>1, <2>2 DEF EInv, PcOK, WaitLabels, FireLabels, E!EventConstants
  <1>6. \A e \in Events : e # g => ev_pc'[e] = ev_pc[e] /\ head'[e] = head[e] /\ follow'[e] = follow[e]
    BY <1>2, <1>5 DEF E!EventConstants, EInv, E!TypeOK
  <1>7. \A q \in E!Waiters : q # h => ev_pc'[q] = ev_pc[q]
    BY <1>5 DEF E!EventConstants
  <1>8. \A q \in E!Waiters, e \in Events : E!Live(q, e)' <=> (q # h /\ E!Live(q, e))
    BY <1>2, <1>5, <1>7 DEF E!Live, E!IsFired
  <1>9. event[h] = g /\ queue_head_[g] = kFired
    BY <1>1, <1>2, AheadLeads DEF EInv, PointersLive
  <1>10. FiredRight'
    <2>1. \A e \in Events : queue_head_'[e] = kFired <=> ev_pc'[e] # "idle"
      BY <1>2, <1>5, <1>6 DEF EInv, FiredRight
    <2>2. \A q \in E!Waiters : ev_pc'[q] = "return" => queue_head_'[event'[q]] = kFired
      BY <1>2, <1>5, <1>7, <1>9 DEF EInv, FiredRight
    <2>3. \A q \in E!Waiters : q # h => ev_pc'[q] = ev_pc[q]
      BY <1>7
    <2>4. \A t \in Threads : t \in E!Waiters /\ (E!IsFired(t)' <=> E!IsFired(t))
      BY <1>2 DEF E!IsFired, E!Waiters
    <2>5. ev_pc'[h] = "return"
      BY <1>5
    <2>6. /\ \A p \in E!Waiters : ev_pc'[p] = "link" /\ expected_head'[p] = kFired => queue_head_'[event'[p]] = kFired
          /\ \A p \in E!Waiters : ev_pc'[p] = "cas" => ev_next'[p] = expected_head'[p] /\ expected_head'[p] # kFired
      BY <1>2, <2>3, <2>5 DEF EInv, FiredRight
    <2>7. /\ \A t \in Threads : ev_pc'[t] \in {"load", "link", "cas"} => ~ E!IsFired(t)'
          /\ \A t \in Threads : ev_pc'[t] \in Suspended /\ E!IsFired(t)' => queue_head_'[event'[t]] = kFired
      BY <1>2, <2>3, <2>4, <2>5 DEF EInv, FiredRight, Suspended
    <2> QED BY <2>1, <2>2, <2>6, <2>7 DEF FiredRight
  <1>11. head'[g] = follow[g]
    BY <1>1, <1>2 DEF EInv, E!TypeOK
  <1>12. PointersLive' /\ PointersOnce'
    BY <1>1, <1>2, <1>3, <1>5, <1>6, <1>8, <1>11, FireWakes
  <1> QED BY <1>3, <1>5, <1>10, <1>12 DEF EInv

\* The thread may go from the store on, before it is notified; only a thread that waits
\* for the event is told so.
LEMMA WakeThreadEInv == ASSUME E!EventConstants, EInv, NEW g \in Events, E!WakeThread(g) PROVE EInv'
  <1>1. PICK h \in E!Waiters : h = head[g] /\ h \in Threads
    BY DEF E!WakeThread, E!Waiters
  <1>2. /\ ev_pc[g] = "wake" /\ ev_pc' = [ev_pc EXCEPT ![g] = "notify"] /\ ev_state' = [ev_state EXCEPT ![h] = 1]
        /\ queue_head_' = queue_head_ /\ ev_next' = ev_next /\ event' = event /\ head' = head /\ follow' = follow
        /\ expected_head' = expected_head /\ ev_asleep' = ev_asleep
    BY <1>1 DEF E!WakeThread, E!Store, E!Goto, E!own, E!fire
  <1>3. E!TypeOK'
    <2>1. 1 \in 0 .. 1 /\ ev_state \in [Threads -> 0 .. 1]
      BY DEF EInv, E!TypeOK
    <2>2. ev_state' \in [Threads -> 0 .. 1]
      BY <1>2, <2>1
    <2> QED BY <1>2, <2>2 DEF EInv, E!TypeOK
  <1>4. PcOK' /\ ev_pc'[g] = "notify" /\ \A y \in E!Waiters \union Events : y # g => ev_pc'[y] = ev_pc[y]
    BY <1>2, PcStep DEF EInv, E!EventConstants, FireLabels
  <1>5. \A q \in E!Waiters : ev_pc'[q] = ev_pc[q]
    BY <1>4 DEF E!EventConstants
  <1>6. E!IsFired(h)' /\ \A t \in Threads : t # h => ev_state'[t] = ev_state[t]
    BY <1>1, <1>2 DEF EInv, E!TypeOK, E!IsFired
  <1>7. \A q \in E!Waiters, e \in Events : E!Live(q, e)' <=> (q # h /\ E!Live(q, e))
    BY <1>1, <1>2, <1>5, <1>6 DEF E!Live, E!IsFired
  <1>8. event[h] = g /\ queue_head_[g] = kFired /\ ev_pc[h] \in Suspended
    BY <1>1, <1>2, AheadLeads DEF EInv, PointersLive, E!Live, Suspended
  <1>9. FiredRight'
    <2>1. \A e \in Events : queue_head_'[e] = kFired <=> ev_pc'[e] # "idle"
      BY <1>2, <1>4 DEF EInv, FiredRight
    <2>2. \A t \in Threads : ev_pc'[t] \in {"load", "link", "cas"} => ~ E!IsFired(t)'
      BY <1>5, <1>6, <1>8 DEF EInv, FiredRight, Suspended, E!IsFired, E!Waiters
    <2>3. \A t \in Threads : ev_pc'[t] \in Suspended /\ E!IsFired(t)' => queue_head_'[event'[t]] = kFired
      BY <1>2, <1>5, <1>6, <1>8 DEF EInv, FiredRight, E!IsFired, E!Waiters
    <2> QED BY <1>2, <1>5, <2>1, <2>2, <2>3 DEF EInv, FiredRight
  <1>10. PointersLive' /\ PointersOnce'
    BY <1>1, <1>2, <1>3, <1>4, <1>7, FireWakes
  <1> QED BY <1>3, <1>4, <1>9, <1>10 DEF EInv

-----------------------------------------------------------------------------
LEMMA NextEInv == ASSUME E!EventConstants, EInv, [E!Next]_E!vars PROVE EInv'
  <1>1. ASSUME NEW p \in E!Waiters, E!Wait(p) \/ E!Load(p) \/ E!Link(p) \/ E!Cas(p) \/ E!Return(p) PROVE EInv'
    BY <1>1, WaitEInv, LoadEInv, LinkEInv, CasEInv, ReturnEInv
  <1>2. ASSUME NEW t \in Threads, E!Look(t) \/ E!Sleep(t) \/ E!Awake(t) \/ E!Interrupt(t) PROVE EInv'
    BY <1>2, LookEInv, SleepEInv, AwakeEInv, InterruptEInv
  <1>3. ASSUME NEW e \in Events, E!Fire(e) \/ E!Walk(e) \/ E!WakeFiber(e) \/ E!WakeThread(e) \/ E!Notify(e) PROVE EInv'
    BY <1>3, FireEInv, WalkEInv, WakeFiberEInv, WakeThreadEInv, NotifyEInv
  <1>4. CASE UNCHANGED E!vars
    <2>1. E!TypeOK' /\ PcOK' /\ FiredRight'
      BY <1>4 DEF EInv, E!TypeOK, PcOK, FiredRight, E!IsFired, E!vars
    <2>2. PointersLive' /\ PointersOnce'
      BY <1>4 DEF EInv, PointersLive, PointersOnce, Leads, Waiting, Ahead, E!Live, E!IsFired, E!vars
    <2> QED BY <2>1, <2>2 DEF EInv
  <1> QED BY <1>1, <1>2, <1>3, <1>4 DEF E!Next, E!WaitStep, E!FireStep

\* The invariant says what the property does of every pointer, not only of those in use.
LEMMA EInvIsEnough == ASSUME EInv PROVE E!WaitersAreRight
  <1>1. E!TypeOK /\ \A p \in E!Waiters : ev_pc[p] = "return" => queue_head_[event[p]] = kFired
    BY DEF EInv, FiredRight
  <1>2. ASSUME NEW e \in Events
        PROVE  /\ ev_pc[e] = "walk" => head[e] \in {kNotFired} \union {p \in E!Waiters : E!Live(p, e)}
               /\ ev_pc[e] = "wake" => head[e] \in E!Waiters /\ E!Live(head[e], e)
               /\ ev_pc[e] \in {"wake", "notify"} =>
                     follow[e] \in {kNotFired} \union {p \in E!Waiters : E!Live(p, e)}
    <2>1. ev_pc[e] = "walk" => Leads(head[e], e)
      BY DEF EInv, PointersLive
    <2>2. ev_pc[e] = "wake" => head[e] \in E!Waiters /\ E!Live(head[e], e) /\ Leads(follow[e], e)
      <3> SUFFICES ASSUME ev_pc[e] = "wake" PROVE head[e] \in E!Waiters /\ E!Live(head[e], e) /\ Leads(follow[e], e)
        OBVIOUS
      <3>1. head[e] \in E!Waiters /\ E!Live(head[e], e) /\ follow[e] = ev_next[head[e]]
        BY DEF EInv, PointersLive
      <3>2. Waiting(head[e]) /\ event[head[e]] = e
        BY <3>1, AheadLeads
      <3>3. Leads(ev_next[head[e]], e)
        BY <3>1, <3>2 DEF EInv, PointersLive
      <3> QED BY <3>1, <3>3
    <2>3. ev_pc[e] = "notify" => Leads(follow[e], e)
      BY DEF EInv, PointersLive
    <2> QED BY <2>1, <2>2, <2>3 DEF Leads
  <1> QED BY <1>1, <1>2 DEF E!WaitersAreRight

\* A waiter returns only when its own event is fired, whatever it waited for before, and
\* Fire reads and wakes only awaiters that still wait for its event: no signal of one
\* call reaches the next at the same address, and no Next is read of a frame that is gone.
THEOREM EventWaitersAreRight == ASSUME E!EventConstants PROVE E!Spec => []E!WaitersAreRight
  <1>1. E!Init => EInv
    BY InitEInv
  <1>2. EInv /\ [E!Next]_E!vars => EInv'
    BY NextEInv
  <1>3. EInv => E!WaitersAreRight
    BY EInvIsEnough
  <1> QED BY <1>1, <1>2, <1>3, PTL DEF E!Spec

-----------------------------------------------------------------------------
\* The wait group with the spinlock.

WorkerLabels == {"idle", "lock", "spin", "add", "unlock", "done", "drain", "put", "pop", "wake", "notify"}
WaiterLabels == {"idle", "lock", "spin", "wait", "leave", "push", "publish", "parked", "sleep", "asleep", "return"}

GroupTypes ==
    /\ DOMAIN pc = Procs /\ DOMAIN op = Procs
    /\ head_ \in [Lists -> Waiters \union {nullptr}] /\ tail_ \in [Lists -> Waiters \union {nullptr}]
    /\ state_ \in [Threads -> 0 .. 1]

LabelsRight ==
    /\ \A w \in Workers : /\ pc[w] \in WorkerLabels
                          /\ IF pc[w] \in {"lock", "spin"} THEN op[w] \in {"add", "done"} ELSE op[w] = "none"
    /\ \A p \in Waiters : /\ pc[p] \in WaiterLabels
                          /\ IF pc[p] \in {"lock", "spin"} THEN op[p] = "wait" ELSE op[p] = "none"

\* From the exchange that finds 0 to the store of 0, which may be of another context.
HasLock(p) == pc[p] \in {"add", "done", "unlock", "drain", "put", "wait", "leave", "push", "publish"}

LockRight == \A p \in Procs : HasLock(p) => lock_ = 1 /\ \A q \in Procs : HasLock(q) => q = p

\* The workers that have begun an Add, or a Done, and not changed the counter yet.
Busy(what) == {w \in Workers : pc[w] = what \/ op[w] = what}

CountRight ==
    /\ owed \in Nat /\ room \in Nat
    /\ counter_ = owed + Cardinality(Busy("done"))
    /\ MaxCount = counter_ + room + Cardinality(Busy("add"))

\* at[p] is the list that the awaiter of p is in: head, tail and Next agree with it,
\* and no two pointers of a list lead to the same awaiter.
Shape(at) ==
    /\ \A l \in Lists : head_[l] # nullptr =>
          /\ at[head_[l]] = l
          /\ tail_[l] # nullptr /\ at[tail_[l]] = l /\ next[tail_[l]] = nullptr
    /\ \A l \in Lists : head_[l] = nullptr => tail_[l] = nullptr
    /\ \A p \in Waiters : at[p] # nullptr =>
          \/ next[p] # nullptr /\ at[next[p]] = at[p] /\ next[p] # head_[at[p]]
          \/ next[p] = nullptr /\ tail_[at[p]] = p
    /\ \A p, q \in Waiters :
          at[p] # nullptr /\ at[q] # nullptr /\ next[p] = next[q] /\ next[p] # nullptr => p = q

Unfired(p) == p \in Threads => ~ IsFired(p)
InHand(w)  == pc[w] \in {"put", "wake"}

\* Who is in a list is suspended, or about to be with the lock in its hands; who is in
\* the hands of a Done is suspended and in no list, and in no other hands.
Holders(at) ==
    /\ \A p \in Waiters : at[p] # nullptr =>
          (Parked(p) \/ (pc[p] = "publish" /\ at[p] = wait_queue_)) /\ Unfired(p)
    /\ \A w \in Workers : InHand(w) =>
          moved[w] # nullptr /\ at[moved[w]] = nullptr /\ Parked(moved[w]) /\ Unfired(moved[w])
    /\ \A v, w \in Workers : InHand(v) /\ InHand(w) /\ moved[v] = moved[w] => v = w
    /\ \A p \in Waiters : pc[p] = "push" => Unfired(p)

ListsRight == \E at \in [Waiters -> Lists \union {nullptr}] : Shape(at) /\ Holders(at)

GInv == TypeOK /\ GroupTypes /\ LabelsRight /\ LockRight /\ CountRight /\ ListsRight

-----------------------------------------------------------------------------
\* One process moves on.
LEMMA GroupPcStep ==
  ASSUME GroupTypes, NEW x \in Procs, NEW l, pc' = [pc EXCEPT ![x] = l]
  PROVE  DOMAIN pc' = Procs /\ pc'[x] = l /\ \A y \in Procs : y # x => pc'[y] = pc[y]
  BY DEF GroupTypes

\* The lock stays with who has it, or is given up.
LEMMA LockStays ==
  ASSUME LockRight, \A q \in Procs : HasLock(q)' => HasLock(q),
         lock_' = lock_ \/ \A q \in Procs : ~ HasLock(q)'
  PROVE  LockRight'
  BY DEF LockRight

\* Nobody begins or ends an Add or a Done.
LEMMA CountStays ==
  ASSUME CountRight, owed' = owed, room' = room, counter_' = counter_,
         \A w \in Workers : /\ (pc'[w] = "add" \/ op'[w] = "add") <=> (pc[w] = "add" \/ op[w] = "add")
                            /\ (pc'[w] = "done" \/ op'[w] = "done") <=> (pc[w] = "done" \/ op[w] = "done")
  PROVE  CountRight'
  <1>1. Busy("add")' = Busy("add") /\ Busy("done")' = Busy("done")
    BY DEF Busy
  <1> QED BY <1>1 DEF CountRight

\* The numbers of the calls are numbers; a call begun is one more, a call ended one less.
LEMMA BusyCounts ==
  ASSUME NEW what
  PROVE  /\ Cardinality(Busy(what)) \in Nat
         /\ \A w \in Workers : Cardinality(Busy(what) \ {w}) \in Nat
         /\ \A w \in Workers : w \in Busy(what) => Cardinality(Busy(what) \ {w}) = Cardinality(Busy(what)) - 1
         /\ \A w \in Workers : w \notin Busy(what) => Cardinality(Busy(what) \union {w}) = Cardinality(Busy(what)) + 1
  <1>1. IsFiniteSet(Busy(what))
    BY FS_Subset, SpinlockWaitGroupAssumption DEF Busy
  <1>2. \A w \in Workers : IsFiniteSet(Busy(what) \ {w})
    BY <1>1, FS_RemoveElement
  <1> QED BY <1>1, <1>2, FS_CardinalityType, FS_AddElement, FS_RemoveElement

\* No list changes.  The awaiters stay as they are, but for one, h, that a Done has in its
\* hands and gives up.
LEMMA ListsStay ==
  ASSUME ListsRight, TypeOK, NEW h,
         head_' = head_, tail_' = tail_, next' = next,
         h = nullptr \/ \E w \in Workers : InHand(w) /\ moved[w] = h /\ ~ InHand(w)',
         \A p \in Waiters : p # h /\ Unfired(p) /\ Parked(p) => Unfired(p)' /\ Parked(p)',
         \A p \in Waiters : pc[p] = "publish" /\ Unfired(p) =>
                              Unfired(p)' /\ (pc'[p] = "publish" \/ Parked(p)'),
         \A w \in Workers : InHand(w)' => InHand(w) /\ moved'[w] = moved[w],
         \A p \in Waiters : pc'[p] = "push" => Unfired(p)'
  PROVE  ListsRight'
  <1>1. PICK at \in [Waiters -> Lists \union {nullptr}] : Shape(at) /\ Holders(at)
    BY DEF ListsRight
  <1>2. Shape(at)'
    BY <1>1 DEF Shape
  <1>3. h = nullptr \/ (h \in Waiters /\ at[h] = nullptr)
    BY <1>1 DEF Holders, TypeOK
  <1>4. nullptr \notin Waiters
    BY SpinlockWaitGroupAssumption
  <1>5. \A p \in Waiters : at[p] # nullptr =>
          (Parked(p)' \/ (pc'[p] = "publish" /\ at[p] = wait_queue_)) /\ Unfired(p)'
    <2> SUFFICES ASSUME NEW p \in Waiters, at[p] # nullptr
                 PROVE  (Parked(p)' \/ (pc'[p] = "publish" /\ at[p] = wait_queue_)) /\ Unfired(p)'
      OBVIOUS
    <2>1. p # h /\ Unfired(p) /\ (Parked(p) \/ (pc[p] = "publish" /\ at[p] = wait_queue_))
      BY <1>1, <1>3, <1>4 DEF Holders
    <2> QED BY <2>1
  <1>6. ASSUME NEW w \in Workers, InHand(w)'
        PROVE  /\ moved'[w] # nullptr /\ at[moved'[w]] = nullptr
               /\ Parked(moved[w])' /\ Unfired(moved[w])' /\ InHand(w) /\ moved'[w] = moved[w]
    <2>1. InHand(w) /\ moved'[w] = moved[w]
      BY <1>6
    <2>2. PICK p \in Waiters : p = moved[w] /\ p # nullptr /\ at[p] = nullptr /\ Parked(p) /\ Unfired(p)
      BY <1>1, <1>4, <2>1 DEF Holders, TypeOK
    <2>3. p # h
      BY <1>1, <1>6, <2>1, <2>2 DEF Holders
    <2>4. Parked(p)' /\ Unfired(p)'
      BY <2>2, <2>3
    <2> QED BY <2>1, <2>2, <2>4
  <1>7. \A v, w \in Workers : InHand(v)' /\ InHand(w)' /\ moved'[v] = moved'[w] => v = w
    BY <1>1, <1>6 DEF Holders
  <1>8. Holders(at)'
    BY <1>5, <1>6, <1>7 DEF Holders
  <1> QED BY <1>2, <1>8 DEF ListsRight

\* PopFront leaves a list behind, and its head is in no list.
LEMMA PopKeepsShape ==
  ASSUME TypeOK, GroupTypes, NEW at \in [Waiters -> Lists \union {nullptr}], Shape(at),
         NEW l \in Lists, PopFront(l), NEW h \in Waiters \union {nullptr}, h = head_[l],
         NEW at2 \in [Waiters -> Lists \union {nullptr}],
         h \in Waiters => at2[h] = nullptr, \A p \in Waiters : p # h => at2[p] = at[p]
  PROVE  /\ h \in Waiters /\ at[h] = l
         /\ head_' \in [Lists -> Waiters \union {nullptr}] /\ tail_' \in [Lists -> Waiters \union {nullptr}]
         /\ next' \in [Waiters -> Waiters \union {nullptr}]
         /\ Shape(at2)'
  <1>1. nullptr \notin Waiters /\ nullptr \notin Lists /\ Nodes = Waiters
    BY SpinlockWaitGroupAssumption
  <1>2. h \in Waiters /\ h # nullptr /\ at[h] = l /\ tail_[l] \in Waiters
    BY <1>1 DEF PopFront, IsEmpty, GroupTypes, Shape
  <1>3. at2[h] = nullptr /\ \A p \in Waiters : p # h => at2[p] = at[p]
    BY <1>2
  <1>4. /\ head_'[l] = IF h = tail_[l] THEN nullptr ELSE next[h]
        /\ tail_'[l] = IF h = tail_[l] THEN nullptr ELSE tail_[l]
        /\ \A m \in Lists : m # l => head_'[m] = head_[m] /\ tail_'[m] = tail_[m]
        /\ next'[h] = nullptr /\ \A p \in Waiters : p # h => next'[p] = next[p]
    BY <1>2 DEF PopFront, ResetNext, GroupTypes, TypeOK
  <1>5. /\ head_' \in [Lists -> Waiters \union {nullptr}] /\ tail_' \in [Lists -> Waiters \union {nullptr}]
        /\ next' \in [Waiters -> Waiters \union {nullptr}]
    BY <1>2 DEF PopFront, ResetNext, GroupTypes, TypeOK
  <1>6. h # tail_[l] => next[h] \in Waiters /\ at[next[h]] = l /\ next[h] # h
    BY <1>1, <1>2 DEF Shape, TypeOK
  <1>7. \A p \in Waiters : at[p] # nullptr => next[p] # h
    <2> SUFFICES ASSUME NEW p \in Waiters, at[p] # nullptr, next[p] = h PROVE FALSE
      OBVIOUS
    <2>1. at[h] = at[p] /\ h # head_[at[p]]
      BY <1>2 DEF Shape
    <2> QED BY <1>2, <2>1
  <1>8. \A m \in Lists : head_'[m] # nullptr =>
          /\ at2[head_'[m]] = m
          /\ tail_'[m] # nullptr /\ at2[tail_'[m]] = m /\ next'[tail_'[m]] = nullptr
    <2> SUFFICES ASSUME NEW m \in Lists, head_'[m] # nullptr
                 PROVE  /\ at2[head_'[m]] = m
                        /\ tail_'[m] # nullptr /\ at2[tail_'[m]] = m /\ next'[tail_'[m]] = nullptr
      OBVIOUS
    <2>1. CASE m = l
      BY <1>2, <1>3, <1>4, <1>6, <2>1 DEF Shape, IsEmpty, PopFront
    <2>2. CASE m # l
      <3>1. head_[m] # nullptr /\ head_[m] \in Waiters /\ tail_[m] \in Waiters
        BY <1>4, <2>2 DEF GroupTypes, Shape
      <3>2. at[head_[m]] = m /\ at[tail_[m]] = m /\ next[tail_[m]] = nullptr
        BY <3>1 DEF Shape
      <3> QED BY <1>1, <1>2, <1>3, <1>4, <2>2, <3>1, <3>2
    <2> QED BY <2>1, <2>2
  <1>9. \A m \in Lists : head_'[m] = nullptr => tail_'[m] = nullptr
    BY <1>1, <1>4, <1>6 DEF Shape
  <1>10. \A p \in Waiters : at2[p] # nullptr =>
           \/ next'[p] # nullptr /\ at2[next'[p]] = at2[p] /\ next'[p] # head_'[at2[p]]
           \/ next'[p] = nullptr /\ tail_'[at2[p]] = p
    <2> SUFFICES ASSUME NEW p \in Waiters, at2[p] # nullptr
                 PROVE  \/ next'[p] # nullptr /\ at2[next'[p]] = at2[p] /\ next'[p] # head_'[at2[p]]
                        \/ next'[p] = nullptr /\ tail_'[at2[p]] = p
      OBVIOUS
    <2>1. p # h /\ at2[p] = at[p] /\ next'[p] = next[p] /\ at[p] \in Lists
      BY <1>3, <1>4
    <2>2. CASE next[p] # nullptr
      <3>1. next[p] \in Waiters /\ at[next[p]] = at[p] /\ next[p] # head_[at[p]] /\ next[p] # h
        BY <1>7, <2>1, <2>2 DEF Shape, TypeOK
      <3>2. next[p] # next[h]
        BY <1>1, <1>2, <2>1, <2>2 DEF Shape
      <3>3. next[p] # head_'[at[p]]
        BY <1>4, <2>1, <2>2, <3>1, <3>2
      <3> QED BY <1>3, <2>1, <2>2, <3>1, <3>3
    <2>3. CASE next[p] = nullptr
      <3>1. tail_[at[p]] = p
        BY <2>1, <2>3 DEF Shape
      <3>2. tail_'[at[p]] = p
        BY <1>4, <2>1, <3>1
      <3> QED BY <2>1, <2>3, <3>2
    <2> QED BY <2>2, <2>3
  <1>11. \A p, q \in Waiters :
          at2[p] # nullptr /\ at2[q] # nullptr /\ next'[p] = next'[q] /\ next'[p] # nullptr => p = q
    BY <1>3, <1>4 DEF Shape
  <1> QED BY <1>2, <1>3, <1>5, <1>8, <1>9, <1>10, <1>11 DEF Shape

\* PushBack puts an awaiter that is in no list into one.
LEMMA PushKeepsShape ==
  ASSUME TypeOK, GroupTypes, NEW at \in [Waiters -> Lists \union {nullptr}], Shape(at),
         NEW l \in Lists, NEW n \in Waiters, at[n] = nullptr, PushBack(l, n),
         NEW at2 \in [Waiters -> Lists \union {nullptr}],
         at2[n] = l, \A p \in Waiters : p # n => at2[p] = at[p]
  PROVE  /\ head_' \in [Lists -> Waiters \union {nullptr}] /\ tail_' \in [Lists -> Waiters \union {nullptr}]
         /\ next' \in [Waiters -> Waiters \union {nullptr}]
         /\ Shape(at2)'
  <1>1. nullptr \notin Waiters /\ nullptr \notin Lists /\ Nodes = Waiters
    BY SpinlockWaitGroupAssumption
  <1>2. at2[n] = l /\ \A p \in Waiters : p # n => at2[p] = at[p]
    OBVIOUS
  <1>3. /\ head_'[l] = IF head_[l] = nullptr THEN n ELSE head_[l]
        /\ tail_'[l] = n
        /\ \A m \in Lists : m # l => head_'[m] = head_[m] /\ tail_'[m] = tail_[m]
    BY DEF PushBack, IsEmpty, GroupTypes
  <1>4. \A p \in Waiters : next'[p] = IF p = n THEN nullptr
                                      ELSE IF p = tail_[l] /\ head_[l] # nullptr THEN n ELSE next[p]
    BY <1>1 DEF PushBack, IsEmpty
  <1>5. /\ head_' \in [Lists -> Waiters \union {nullptr}] /\ tail_' \in [Lists -> Waiters \union {nullptr}]
        /\ next' \in [Waiters -> Waiters \union {nullptr}]
    <2>1. head_' \in [Lists -> Waiters \union {nullptr}] /\ tail_' \in [Lists -> Waiters \union {nullptr}]
      BY DEF PushBack, GroupTypes
    <2>2. next' \in [Waiters -> Waiters \union {nullptr}]
      BY <1>1 DEF PushBack, TypeOK
    <2> QED BY <2>1, <2>2
  <1>6. \A p \in Waiters : at[p] # nullptr => p # n /\ next[p] # n
    BY <1>1 DEF Shape, TypeOK
  <1>7. \A m \in Lists : head_'[m] # nullptr =>
          /\ at2[head_'[m]] = m
          /\ tail_'[m] # nullptr /\ at2[tail_'[m]] = m /\ next'[tail_'[m]] = nullptr
    <2> SUFFICES ASSUME NEW m \in Lists, head_'[m] # nullptr
                 PROVE  /\ at2[head_'[m]] = m
                        /\ tail_'[m] # nullptr /\ at2[tail_'[m]] = m /\ next'[tail_'[m]] = nullptr
      OBVIOUS
    <2>1. CASE m = l
      <3>1. head_[l] # nullptr => head_[l] \in Waiters /\ at[head_[l]] = l
        BY DEF Shape, GroupTypes
      <3>2. head_[l] # n
        BY <1>1, <3>1
      <3> QED BY <1>1, <1>2, <1>3, <1>4, <2>1, <3>1, <3>2
    <2>2. CASE m # l
      <3>1. head_[m] # nullptr /\ head_[m] \in Waiters /\ tail_[m] \in Waiters
        BY <1>3, <2>2 DEF GroupTypes, Shape
      <3>2. at[head_[m]] = m /\ at[tail_[m]] = m /\ next[tail_[m]] = nullptr
        BY <3>1 DEF Shape
      <3>3. head_[l] # nullptr => at[tail_[l]] = l
        BY DEF Shape
      <3>4. head_[m] # n /\ tail_[m] # n /\ (head_[l] # nullptr => tail_[m] # tail_[l])
        BY <1>1, <2>2, <3>2, <3>3
      <3>5. next'[tail_[m]] = nullptr
        BY <1>4, <3>1, <3>2, <3>4
      <3> QED BY <1>1, <1>2, <1>3, <2>2, <3>1, <3>2, <3>4, <3>5
    <2> QED BY <2>1, <2>2
  <1>8. \A m \in Lists : head_'[m] = nullptr => tail_'[m] = nullptr
    BY <1>1, <1>3 DEF Shape
  <1>9. \A p \in Waiters : at2[p] # nullptr =>
          \/ next'[p] # nullptr /\ at2[next'[p]] = at2[p] /\ next'[p] # head_'[at2[p]]
          \/ next'[p] = nullptr /\ tail_'[at2[p]] = p
    <2> SUFFICES ASSUME NEW p \in Waiters, at2[p] # nullptr
                 PROVE  \/ next'[p] # nullptr /\ at2[next'[p]] = at2[p] /\ next'[p] # head_'[at2[p]]
                        \/ next'[p] = nullptr /\ tail_'[at2[p]] = p
      OBVIOUS
    <2>1. CASE p = n
      BY <1>2, <1>3, <1>4, <2>1
    <2>2. CASE p # n /\ p = tail_[l] /\ head_[l] # nullptr
      <3>1. at[p] = l /\ head_[l] # n
        BY <1>1, <2>2 DEF Shape
      <3> QED BY <1>1, <1>2, <1>3, <1>4, <2>2, <3>1
    <2>3. CASE p # n /\ ~ (p = tail_[l] /\ head_[l] # nullptr)
      <3>1. at2[p] = at[p] /\ at[p] \in Lists /\ next'[p] = next[p]
        BY <1>2, <1>4, <2>3
      <3>2. CASE next[p] # nullptr
        <4>1. next[p] \in Waiters /\ at[next[p]] = at[p] /\ next[p] # head_[at[p]] /\ next[p] # n
          BY <1>6, <3>1, <3>2 DEF Shape, TypeOK
        <4>2. next[p] # head_'[at[p]]
          BY <1>3, <3>1, <4>1
        <4> QED BY <1>2, <3>1, <3>2, <4>1, <4>2
      <3>3. CASE next[p] = nullptr
        <4>1. tail_[at[p]] = p
          BY <3>1, <3>3 DEF Shape
        <4>2. at[p] # l
          BY <1>1, <2>3, <4>1 DEF Shape
        <4> QED BY <1>3, <3>1, <3>3, <4>1, <4>2
      <3> QED BY <3>2, <3>3
    <2> QED BY <2>1, <2>2, <2>3
  <1>10. \A p, q \in Waiters :
          at2[p] # nullptr /\ at2[q] # nullptr /\ next'[p] = next'[q] /\ next'[p] # nullptr => p = q
    <2> SUFFICES ASSUME NEW p \in Waiters, NEW q \in Waiters, at2[p] # nullptr, at2[q] # nullptr,
                        next'[p] = next'[q], next'[p] # nullptr
                 PROVE  p = q
      OBVIOUS
    <2>1. p # n /\ q # n /\ at[p] # nullptr /\ at[q] # nullptr
      BY <1>2, <1>4
    <2>2. next[p] # n /\ next[q] # n
      BY <1>6, <2>1
    <2> QED BY <1>4, <2>1, <2>2 DEF Shape
  <1> QED BY <1>2, <1>5, <1>7, <1>8, <1>9, <1>10 DEF Shape

-----------------------------------------------------------------------------
\* One lemma per action of the wait group.

LEMMA GroupInit == Init => GInv
  <1> SUFFICES ASSUME Init PROVE GInv
    OBVIOUS
  <1>1. nullptr \notin Waiters /\ nullptr \notin Lists /\ Nodes = Waiters /\ MaxCount \in Nat
    BY SpinlockWaitGroupAssumption
  <1>2. TypeOK /\ GroupTypes /\ LabelsRight /\ LockRight
    BY <1>1 DEF Init, ListsInit, EventsInit, TypeOK, GroupTypes, LabelsRight, WorkerLabels, WaiterLabels,
                LockRight, HasLock, Procs
  <1>3. CountRight
    <2>1. Busy("add") = {} /\ Busy("done") = {}
      BY DEF Busy, Init, Procs
    <2> QED BY <1>1, <2>1, FS_EmptySet DEF CountRight, Init
  <1>4. ListsRight
    <2> DEFINE at == [p \in Waiters |-> nullptr]
    <2>1. Shape(at)
      BY DEF Shape, Init, ListsInit
    <2>2. Holders(at)
      BY DEF Holders, Init, InHand, Procs
    <2> QED BY <2>1, <2>2 DEF ListsRight
  <1> QED BY <1>2, <1>3, <1>4 DEF GInv

\* CallAdd, CallDone and Wait.
LEMMA CallKeeps ==
  ASSUME GInv, NEW x \in Procs, NEW what, Call(x, what),
         x \in Workers => what \in {"add", "done"}, x \in Waiters => what = "wait",
         lock_' = lock_, counter_' = counter_, moved' = moved, listVars' = listVars, eventVars' = eventVars,
         room \in Nat /\ room' \in Nat /\ room' <= room, owed' \in Nat /\ owed' <= owed
  PROVE  /\ TypeOK' /\ GroupTypes' /\ LabelsRight' /\ LockRight' /\ ListsRight'
         /\ pc[x] = "idle" /\ op[x] = "none" /\ pc'[x] = "lock" /\ op'[x] = what
         /\ \A y \in Procs : y # x => pc'[y] = pc[y] /\ op'[y] = op[y]
  <1>1. pc[x] = "idle" /\ pc' = [pc EXCEPT ![x] = "lock"] /\ op' = [op EXCEPT ![x] = what]
    BY DEF Call, Goto
  <1>2. /\ DOMAIN pc' = Procs /\ pc'[x] = "lock" /\ \A y \in Procs : y # x => pc'[y] = pc[y]
        /\ DOMAIN op' = Procs /\ op'[x] = what /\ \A y \in Procs : y # x => op'[y] = op[y]
    BY <1>1 DEF GInv, GroupTypes
  <1>3. op[x] = "none"
    BY <1>1 DEF GInv, LabelsRight, Procs
  <1> /\ head_' = head_ /\ tail_' = tail_ /\ next' = next /\ state_' = state_
    BY DEF listVars, eventVars
  <1>4. TypeOK'
    <2>1. counter_ \in Nat /\ owed \in Nat /\ MaxCount \in Nat /\ counter_ + room <= MaxCount /\ owed <= counter_
      BY SpinlockWaitGroupAssumption DEF GInv, TypeOK
    <2>2. \A c, r, s, m, o, q \in Nat : r <= s /\ c + s <= m /\ o <= q /\ q <= c => c + r <= m /\ o <= c
      OBVIOUS
    <2>3. counter_ + room' <= MaxCount /\ owed' <= counter_
      BY <2>1, <2>2
    <2> QED BY <2>3 DEF GInv, TypeOK
  <1>5. GroupTypes'
    BY <1>2 DEF GInv, GroupTypes, listVars, eventVars
  <1>6. LabelsRight'
    BY <1>2 DEF GInv, LabelsRight, WorkerLabels, WaiterLabels, Procs
  <1>7. LockRight'
    BY <1>2, LockStays DEF GInv, HasLock
  <1>8. ListsRight'
    <2>1. \A p \in Waiters : /\ Unfired(p)' <=> Unfired(p)
                             /\ Parked(p) => Parked(p)'
                             /\ pc[p] = "publish" => pc'[p] = "publish"
                             /\ pc'[p] = "push" => pc[p] = "push"
      BY <1>1, <1>2 DEF Unfired, IsFired, Parked, Procs
    <2>2. \A w \in Workers : InHand(w)' => InHand(w)
      BY <1>1, <1>2 DEF InHand, Procs
    <2>3. \A p \in Waiters : pc[p] = "push" => Unfired(p)
      BY DEF GInv, ListsRight, Holders
    <2> QED BY <2>1, <2>2, <2>3, ListsStay DEF GInv
  <1> QED BY <1>1, <1>2, <1>3, <1>4, <1>5, <1>6, <1>7, <1>8

LEMMA CallAddKeeps == ASSUME GInv, NEW w \in Workers, CallAdd(w) PROVE GInv'
  <1>1. /\ room > 0 /\ room' = room - 1 /\ Call(w, "add")
        /\ lock_' = lock_ /\ counter_' = counter_ /\ moved' = moved /\ owed' = owed
        /\ listVars' = listVars /\ eventVars' = eventVars
    BY DEF CallAdd, listVars, eventVars
  <1>2. w \in Procs /\ w \notin Waiters /\ room \in Nat /\ room' \in Nat /\ room' <= room /\ owed \in Nat
    BY <1>1, SpinlockWaitGroupAssumption DEF Procs, GInv, TypeOK
  <1>3. /\ TypeOK' /\ GroupTypes' /\ LabelsRight' /\ LockRight' /\ ListsRight'
        /\ pc[w] = "idle" /\ op[w] = "none" /\ pc'[w] = "lock" /\ op'[w] = "add"
        /\ \A y \in Procs : y # w => pc'[y] = pc[y] /\ op'[y] = op[y]
    BY <1>1, <1>2, CallKeeps
  <1>4. CountRight'
    <2>1. w \notin Busy("add") /\ Busy("add")' = Busy("add") \union {w} /\ Busy("done")' = Busy("done")
      BY <1>3 DEF Busy, Procs
    <2>2. Cardinality(Busy("add"))' = Cardinality(Busy("add")) + 1 /\ Cardinality(Busy("add")) \in Nat
      BY <2>1, BusyCounts
    <2>3. counter_ \in Nat
      BY DEF GInv, TypeOK
    <2> QED BY <1>1, <1>2, <2>1, <2>2, <2>3 DEF GInv, CountRight
  <1> QED BY <1>3, <1>4 DEF GInv

LEMMA CallDoneKeeps == ASSUME GInv, NEW w \in Workers, CallDone(w) PROVE GInv'
  <1>1. /\ owed > 0 /\ owed' = owed - 1 /\ Call(w, "done")
        /\ lock_' = lock_ /\ counter_' = counter_ /\ moved' = moved /\ room' = room
        /\ listVars' = listVars /\ eventVars' = eventVars
    BY DEF CallDone, listVars, eventVars
  <1>2. w \in Procs /\ w \notin Waiters /\ room \in Nat /\ owed \in Nat /\ owed' \in Nat /\ owed' <= owed
    BY <1>1, SpinlockWaitGroupAssumption DEF Procs, GInv, TypeOK
  <1>3. /\ TypeOK' /\ GroupTypes' /\ LabelsRight' /\ LockRight' /\ ListsRight'
        /\ pc[w] = "idle" /\ op[w] = "none" /\ pc'[w] = "lock" /\ op'[w] = "done"
        /\ \A y \in Procs : y # w => pc'[y] = pc[y] /\ op'[y] = op[y]
    BY <1>1, <1>2, CallKeeps
  <1>4. CountRight'
    <2>1. w \notin Busy("done") /\ Busy("done")' = Busy("done") \union {w} /\ Busy("add")' = Busy("add")
      BY <1>3 DEF Busy, Procs
    <2>2. Cardinality(Busy("done"))' = Cardinality(Busy("done")) + 1 /\ Cardinality(Busy("done")) \in Nat
      BY <2>1, BusyCounts
    <2> QED BY <1>1, <1>2, <2>1, <2>2 DEF GInv, CountRight
  <1> QED BY <1>3, <1>4 DEF GInv

LEMMA WaitKeeps == ASSUME GInv, NEW p \in Waiters, Wait(p) PROVE GInv'
  <1>1. /\ Call(p, "wait") /\ lock_' = lock_ /\ counter_' = counter_ /\ moved' = moved
        /\ room' = room /\ owed' = owed /\ listVars' = listVars /\ eventVars' = eventVars
    BY DEF Wait, callers, listVars, eventVars
  <1>2. p \in Procs /\ p \notin Workers /\ room \in Nat /\ owed \in Nat
    BY SpinlockWaitGroupAssumption DEF Procs, GInv, TypeOK
  <1>3. /\ TypeOK' /\ GroupTypes' /\ LabelsRight' /\ LockRight' /\ ListsRight'
        /\ \A y \in Procs : y # p => pc'[y] = pc[y] /\ op'[y] = op[y]
    BY <1>1, <1>2, CallKeeps
  <1>4. CountRight'
    BY <1>1, <1>2, <1>3, CountStays DEF GInv, Procs
  <1> QED BY <1>3, <1>4 DEF GInv

\* The exchange takes the lock only from nobody.
LEMMA LockKeeps == ASSUME GInv, NEW x \in Procs, Lock(x) PROVE GInv'
  <1>1. /\ pc[x] = "lock" /\ lock_' = 1
        /\ pc' = [pc EXCEPT ![x] = IF lock_ = 0 THEN op[x] ELSE "spin"]
        /\ op' = IF lock_ = 0 THEN [op EXCEPT ![x] = "none"] ELSE op
        /\ counter_' = counter_ /\ moved' = moved /\ room' = room /\ owed' = owed
        /\ head_' = head_ /\ tail_' = tail_ /\ next' = next /\ state_' = state_
    BY DEF Lock, Goto, callers, listVars, eventVars
  <1>2. /\ DOMAIN pc' = Procs /\ pc'[x] = IF lock_ = 0 THEN op[x] ELSE "spin"
        /\ DOMAIN op' = Procs /\ op'[x] = IF lock_ = 0 THEN "none" ELSE op[x]
        /\ \A y \in Procs : y # x => pc'[y] = pc[y] /\ op'[y] = op[y]
    BY <1>1 DEF GInv, GroupTypes
  <1>3. /\ x \in Workers => op[x] \in {"add", "done"}
        /\ x \in Waiters => op[x] = "wait"
    BY <1>1 DEF GInv, LabelsRight
  <1>4. TypeOK'
    BY <1>1 DEF GInv, TypeOK
  <1>5. GroupTypes'
    BY <1>1, <1>2 DEF GInv, GroupTypes
  <1>6. LabelsRight'
    BY <1>2, <1>3 DEF GInv, LabelsRight, WorkerLabels, WaiterLabels, Procs
  <1>7. LockRight'
    <2>1. CASE lock_ = 0
      <3>1. \A y \in Procs : y # x => ~ HasLock(y) /\ ~ HasLock(y)'
        BY <1>2, <2>1 DEF GInv, LockRight, HasLock
      <3> QED BY <1>1, <3>1 DEF LockRight
    <2>2. CASE lock_ # 0
      <3>1. lock_' = lock_
        BY <1>1, <2>2 DEF GInv, TypeOK
      <3> QED BY <1>2, <2>2, <3>1, LockStays DEF GInv, HasLock
    <2> QED BY <2>1, <2>2
  <1>8. CountRight'
    <2>1. \A w \in Workers : /\ (pc'[w] = "add" \/ op'[w] = "add") <=> (pc[w] = "add" \/ op[w] = "add")
                             /\ (pc'[w] = "done" \/ op'[w] = "done") <=> (pc[w] = "done" \/ op[w] = "done")
      BY <1>1, <1>2, <1>3 DEF Procs
    <2> QED BY <1>1, <2>1, CountStays DEF GInv
  <1>9. ListsRight'
    <2>1. \A p \in Waiters : /\ Parked(p) => p # x
                             /\ pc[p] = "publish" => p # x
                             /\ pc'[p] = "push" => p # x
      BY <1>1, <1>2, <1>3 DEF Parked
    <2>2. \A w \in Workers : InHand(w)' => InHand(w) /\ w # x
      BY <1>1, <1>2, <1>3 DEF InHand, Procs
    <2>3. \A p \in Waiters : (Unfired(p)' <=> Unfired(p)) /\ (pc[p] = "push" => Unfired(p))
      BY <1>1 DEF Unfired, IsFired, GInv, ListsRight, Holders
    <2> QED BY <1>1, <1>2, <2>1, <2>2, <2>3, ListsStay DEF GInv, Parked, Procs
  <1> QED BY <1>4, <1>5, <1>6, <1>7, <1>8, <1>9 DEF GInv

\* One process moves on, with the lock as it was or given up.
LEMMA StepKeeps ==
  ASSUME GInv, NEW x \in Procs, NEW l, pc' = [pc EXCEPT ![x] = l], op' = op,
         head_' = head_, tail_' = tail_, state_' \in [Threads -> 0 .. 1],
         x \in Workers => l \in WorkerLabels, x \in Waiters => l \in WaiterLabels,
         l \in {"lock", "spin"} <=> pc[x] \in {"lock", "spin"},
         HasLock(x)' => HasLock(x),
         lock_' = lock_ \/ (HasLock(x) /\ ~ HasLock(x)')
  PROVE  /\ GroupTypes' /\ LabelsRight' /\ LockRight'
         /\ pc'[x] = l /\ \A y \in Procs : y # x => pc'[y] = pc[y]
  <1>1. DOMAIN pc' = Procs /\ pc'[x] = l /\ \A y \in Procs : y # x => pc'[y] = pc[y]
    BY DEF GInv, GroupTypes
  <1>2. GroupTypes'
    BY <1>1 DEF GInv, GroupTypes
  <1>3. LabelsRight'
    BY <1>1 DEF GInv, LabelsRight, Procs
  <1>4. LockRight'
    <2>1. \A y \in Procs : HasLock(y)' => HasLock(y)
      BY <1>1 DEF HasLock
    <2>2. lock_' = lock_ \/ \A y \in Procs : ~ HasLock(y)'
      BY <2>1 DEF GInv, LockRight
    <2> QED BY <2>1, <2>2, LockStays DEF GInv
  <1> QED BY <1>1, <1>2, <1>3, <1>4

LEMMA SpinKeeps == ASSUME GInv, NEW x \in Procs, Spin(x) PROVE GInv'
  <1>1. /\ pc[x] = "spin" /\ pc' = [pc EXCEPT ![x] = "lock"] /\ op' = op /\ lock_' = lock_
        /\ counter_' = counter_ /\ moved' = moved /\ room' = room /\ owed' = owed
        /\ head_' = head_ /\ tail_' = tail_ /\ next' = next /\ state_' = state_
    BY DEF Spin, Goto, callers, listVars, eventVars
  <1>2. /\ GroupTypes' /\ LabelsRight' /\ LockRight'
        /\ pc'[x] = "lock" /\ \A y \in Procs : y # x => pc'[y] = pc[y]
    <2>1. state_' \in [Threads -> 0 .. 1]
      BY <1>1 DEF GInv, GroupTypes
    <2>2. ~ HasLock(x)'
      BY <1>1 DEF GInv, GroupTypes, HasLock
    <2> QED BY <1>1, <2>1, <2>2, StepKeeps DEF WorkerLabels, WaiterLabels
  <1>3. TypeOK'
    BY <1>1 DEF GInv, TypeOK
  <1>4. CountRight'
    BY <1>1, <1>2, CountStays DEF GInv, Procs
  <1>5. ListsRight'
    <2>1. \A p \in Waiters : /\ Parked(p) => Parked(p)'
                             /\ pc[p] = "publish" => pc'[p] = "publish"
                             /\ pc'[p] = "push" => pc[p] = "push"
                             /\ Unfired(p)' <=> Unfired(p)
      BY <1>1, <1>2 DEF Parked, Unfired, IsFired, Procs
    <2>2. \A w \in Workers : InHand(w)' => InHand(w)
      BY <1>1, <1>2 DEF InHand, Procs
    <2>3. \A p \in Waiters : pc[p] = "push" => Unfired(p)
      BY DEF GInv, ListsRight, Holders
    <2> QED BY <1>1, <2>1, <2>2, <2>3, ListsStay DEF GInv
  <1> QED BY <1>2, <1>3, <1>4, <1>5 DEF GInv

\* Unlock, Drained, Leave and Publish.
LEMMA ReleaseKeeps ==
  ASSUME GInv, NEW x \in Procs, NEW l \in {"idle", "pop", "return", "parked"}, Release(x, l),
         pc[x] \in {"unlock", "drain", "leave", "publish"},
         x \in Workers => l \in {"idle", "pop"}, x \in Waiters => l \in {"return", "parked"},
         pc[x] = "publish" => l = "parked"
  PROVE  GInv'
  <1>1. /\ pc' = [pc EXCEPT ![x] = l] /\ op' = op /\ lock_' = 0
        /\ counter_' = counter_ /\ moved' = moved /\ room' = room /\ owed' = owed
        /\ head_' = head_ /\ tail_' = tail_ /\ next' = next /\ state_' = state_
    BY DEF Release, Goto, callers, listVars, eventVars
  <1>2. /\ GroupTypes' /\ LabelsRight' /\ LockRight'
        /\ pc'[x] = l /\ \A y \in Procs : y # x => pc'[y] = pc[y]
    <2>1. state_' \in [Threads -> 0 .. 1]
      BY <1>1 DEF GInv, GroupTypes
    <2>2. HasLock(x) /\ ~ HasLock(x)'
      BY <1>1 DEF GInv, GroupTypes, HasLock
    <2> QED BY <1>1, <2>1, <2>2, StepKeeps DEF WorkerLabels, WaiterLabels
  <1>3. TypeOK'
    BY <1>1 DEF GInv, TypeOK
  <1>4. CountRight'
    BY <1>1, <1>2, CountStays DEF GInv, Procs
  <1>5. ListsRight'
    <2>1. \A p \in Waiters : /\ Parked(p) => Parked(p)'
                             /\ pc[p] = "publish" => pc'[p] = "publish" \/ Parked(p)'
                             /\ pc'[p] = "push" => pc[p] = "push"
                             /\ Unfired(p)' <=> Unfired(p)
      BY <1>1, <1>2 DEF Parked, Unfired, IsFired, Procs
    <2>2. \A w \in Workers : InHand(w)' => InHand(w)
      BY <1>1, <1>2 DEF InHand, Procs
    <2>3. \A p \in Waiters : pc[p] = "push" => Unfired(p)
      BY DEF GInv, ListsRight, Holders
    <2> QED BY <1>1, <2>1, <2>2, <2>3, ListsStay DEF GInv
  <1> QED BY <1>2, <1>3, <1>4, <1>5 DEF GInv

\* A unit counted is a unit owed.
LEMMA AddKeeps == ASSUME GInv, NEW w \in Workers, Add(w) PROVE GInv'
  <1>1. /\ pc[w] = "add" /\ pc' = [pc EXCEPT ![w] = "unlock"] /\ op' = op /\ lock_' = lock_
        /\ counter_' = counter_ + 1 /\ owed' = owed + 1 /\ moved' = moved /\ room' = room
        /\ head_' = head_ /\ tail_' = tail_ /\ next' = next /\ state_' = state_
    BY DEF Add, Goto, listVars, eventVars
  <1>2. w \in Procs /\ w \notin Waiters
    BY SpinlockWaitGroupAssumption DEF Procs
  <1>3. /\ GroupTypes' /\ LabelsRight' /\ LockRight'
        /\ pc'[w] = "unlock" /\ \A y \in Procs : y # w => pc'[y] = pc[y]
    <2>1. state_' \in [Threads -> 0 .. 1]
      BY <1>1 DEF GInv, GroupTypes
    <2>2. HasLock(w)
      BY <1>1 DEF HasLock
    <2> QED BY <1>1, <1>2, <2>1, <2>2, StepKeeps DEF WorkerLabels
  <1>4. CountRight' /\ counter_' + room <= MaxCount
    <2>1. w \in Busy("add") /\ Busy("add")' = Busy("add") \ {w} /\ Busy("done")' = Busy("done")
      BY <1>1, <1>2, <1>3 DEF Busy, Procs, GInv, LabelsRight
    <2>2. /\ Cardinality(Busy("add"))' = Cardinality(Busy("add")) - 1
          /\ Cardinality(Busy("add")) \in Nat /\ Cardinality(Busy("add"))' \in Nat
      BY <2>1, BusyCounts
    <2>3. Cardinality(Busy("done")) \in Nat /\ counter_ \in Nat /\ room \in Nat /\ owed \in Nat
      BY BusyCounts DEF GInv, TypeOK
    <2> QED BY <1>1, <2>1, <2>2, <2>3 DEF GInv, CountRight
  <1>5. TypeOK'
    <2>1. counter_ \in Nat /\ owed \in Nat /\ room \in Nat /\ MaxCount \in Nat /\ owed <= counter_
      BY SpinlockWaitGroupAssumption DEF GInv, TypeOK
    <2>2. counter_' \in 0 .. MaxCount /\ owed' <= counter_' /\ owed' \in Nat /\ counter_' + room' <= MaxCount
      BY <1>1, <1>4, <2>1
    <2> QED BY <1>1, <2>2 DEF GInv, TypeOK
  <1>6. ListsRight'
    <2>1. \A p \in Waiters : pc'[p] = pc[p] /\ (Unfired(p)' <=> Unfired(p))
      BY <1>1, <1>2, <1>3 DEF Unfired, IsFired, Procs
    <2>2. \A v \in Workers : InHand(v)' => InHand(v)
      BY <1>2, <1>3 DEF InHand, Procs
    <2>3. \A p \in Waiters : pc[p] = "push" => Unfired(p)
      BY DEF GInv, ListsRight, Holders
    <2> QED BY <1>1, <2>1, <2>2, <2>3, ListsStay DEF GInv, Parked
  <1> QED BY <1>3, <1>4, <1>5, <1>6 DEF GInv

\* The unit that is taken back is one that a call on its way had.
LEMMA DoneKeeps == ASSUME GInv, NEW w \in Workers, Done(w) PROVE GInv'
  <1>1. PICK l \in {"drain", "unlock"} : pc' = [pc EXCEPT ![w] = l]
    BY DEF Done, Goto
  <1>2. /\ pc[w] = "done" /\ op' = op /\ lock_' = lock_
        /\ counter_' = counter_ - 1 /\ room' = room + 1 /\ moved' = moved /\ owed' = owed
        /\ head_' = head_ /\ tail_' = tail_ /\ next' = next /\ state_' = state_
    BY DEF Done, listVars, eventVars
  <1>3. w \in Procs /\ w \notin Waiters
    BY SpinlockWaitGroupAssumption DEF Procs
  <1>4. /\ GroupTypes' /\ LabelsRight' /\ LockRight'
        /\ pc'[w] = l /\ \A y \in Procs : y # w => pc'[y] = pc[y]
    <2>1. state_' \in [Threads -> 0 .. 1]
      BY <1>2 DEF GInv, GroupTypes
    <2>2. HasLock(w)
      BY <1>2 DEF HasLock
    <2> QED BY <1>1, <1>2, <1>3, <2>1, <2>2, StepKeeps DEF WorkerLabels
  <1>5. CountRight' /\ counter_' \in Nat /\ owed' <= counter_'
    <2>1. w \in Busy("done") /\ Busy("done")' = Busy("done") \ {w} /\ Busy("add")' = Busy("add")
      BY <1>2, <1>3, <1>4 DEF Busy, Procs, GInv, LabelsRight
    <2>2. /\ Cardinality(Busy("done"))' = Cardinality(Busy("done")) - 1
          /\ Cardinality(Busy("done")) \in Nat /\ Cardinality(Busy("done"))' \in Nat
      BY <2>1, BusyCounts
    <2>3. Cardinality(Busy("add")) \in Nat /\ counter_ \in Nat /\ room \in Nat /\ owed \in Nat
      BY BusyCounts DEF GInv, TypeOK
    <2> QED BY <1>2, <2>1, <2>2, <2>3 DEF GInv, CountRight
  <1>6. TypeOK'
    <2>1. counter_ \in Nat /\ owed \in Nat /\ room \in Nat /\ MaxCount \in Nat /\ counter_ + room <= MaxCount
      BY SpinlockWaitGroupAssumption DEF GInv, TypeOK
    <2>2. counter_' \in 0 .. MaxCount /\ room' \in Nat /\ counter_' + room' <= MaxCount
      BY <1>2, <1>5, <2>1
    <2> QED BY <1>2, <1>5, <2>2 DEF GInv, TypeOK
  <1>7. ListsRight'
    <2>1. \A p \in Waiters : pc'[p] = pc[p] /\ (Unfired(p)' <=> Unfired(p))
      BY <1>2, <1>3, <1>4 DEF Unfired, IsFired, Procs
    <2>2. \A v \in Workers : InHand(v)' => InHand(v)
      BY <1>3, <1>4 DEF InHand, Procs
    <2>3. \A p \in Waiters : pc[p] = "push" => Unfired(p)
      BY DEF GInv, ListsRight, Holders
    <2> QED BY <1>2, <2>1, <2>2, <2>3, ListsStay DEF GInv, Parked
  <1> QED BY <1>4, <1>5, <1>6, <1>7 DEF GInv

\* The event of a new awaiter is not fired, whatever was at its address.
LEMMA TestKeeps == ASSUME GInv, NEW p \in Waiters, Test(p) PROVE GInv'
  <1>1. PICK l \in {"leave", "push"} : pc' = [pc EXCEPT ![p] = l]
    BY DEF Test, Goto
  <1>2. /\ pc[p] = "wait" /\ op' = op /\ lock_' = lock_
        /\ counter_' = counter_ /\ room' = room /\ moved' = moved /\ owed' = owed
        /\ head_' = head_ /\ tail_' = tail_ /\ next' = next
        /\ state_' = IF p \in Threads THEN [state_ EXCEPT ![p] = 0] ELSE state_
    BY DEF Test, NewAwaiter, callers, listVars, eventVars
  <1>3. p \in Procs /\ p \notin Workers
    BY SpinlockWaitGroupAssumption DEF Procs
  <1>4. state_' \in [Threads -> 0 .. 1] /\ Unfired(p)' /\ \A t \in Threads : t # p => state_'[t] = state_[t]
    <2>1. 0 \in 0 .. 1 /\ state_ \in [Threads -> 0 .. 1]
      BY DEF GInv, GroupTypes
    <2> QED BY <1>2, <2>1 DEF Unfired, IsFired
  <1>5. /\ GroupTypes' /\ LabelsRight' /\ LockRight'
        /\ pc'[p] = l /\ \A y \in Procs : y # p => pc'[y] = pc[y]
    <2>1. HasLock(p)
      BY <1>2 DEF HasLock
    <2> QED BY <1>1, <1>2, <1>3, <1>4, <2>1, StepKeeps DEF WaiterLabels
  <1>6. TypeOK'
    BY <1>2 DEF GInv, TypeOK
  <1>7. CountRight'
    BY <1>2, <1>3, <1>5, CountStays DEF GInv, Procs
  <1>8. ListsRight'
    <2>1. \A q \in Waiters : q # p => pc'[q] = pc[q] /\ (Unfired(q)' <=> Unfired(q))
      BY <1>4, <1>5 DEF Unfired, IsFired, Procs
    <2>2. \A v \in Workers : InHand(v)' => InHand(v)
      BY <1>3, <1>5 DEF InHand, Procs
    <2>3. \A q \in Waiters : pc[q] = "push" => Unfired(q)
      BY DEF GInv, ListsRight, Holders
    <2>4. ~ Parked(p) /\ pc[p] # "publish"
      BY <1>2 DEF Parked
    <2>5. \A q \in Waiters : /\ Parked(q) /\ Unfired(q) => Parked(q)' /\ Unfired(q)'
                             /\ pc[q] = "publish" /\ Unfired(q) => pc'[q] = "publish" /\ Unfired(q)'
                             /\ pc'[q] = "push" => Unfired(q)'
      BY <1>4, <2>1, <2>3, <2>4 DEF Parked
    <2> QED BY <1>2, <2>2, <2>5, ListsStay DEF GInv
  <1> QED BY <1>5, <1>6, <1>7, <1>8 DEF GInv

\* A thread that finds its event fired is in no list and in nobody's hands.
LEMMA LookKeeps == ASSUME GInv, NEW t \in Threads, Look(t) PROVE GInv'
  <1>1. /\ pc[t] = "parked" /\ pc' = [pc EXCEPT ![t] = IF IsFired(t) THEN "return" ELSE "sleep"]
        /\ op' = op /\ lock_' = lock_
        /\ counter_' = counter_ /\ room' = room /\ moved' = moved /\ owed' = owed
        /\ head_' = head_ /\ tail_' = tail_ /\ next' = next /\ state_' = state_
    BY DEF Look, Goto, callers, listVars, eventVars
  <1>2. t \in Procs /\ t \notin Workers /\ t \in Waiters
    BY SpinlockWaitGroupAssumption DEF Procs, Waiters
  <1>3. /\ GroupTypes' /\ LabelsRight' /\ LockRight'
        /\ pc'[t] = IF IsFired(t) THEN "return" ELSE "sleep"
        /\ \A y \in Procs : y # t => pc'[y] = pc[y]
    <2>1. state_' \in [Threads -> 0 .. 1]
      BY <1>1 DEF GInv, GroupTypes
    <2>2. ~ HasLock(t)'
      BY <1>1, <1>2 DEF GInv, GroupTypes, HasLock
    <2> QED BY <1>1, <1>2, <2>1, <2>2, StepKeeps DEF WaiterLabels
  <1>4. TypeOK'
    BY <1>1 DEF GInv, TypeOK
  <1>5. CountRight'
    BY <1>1, <1>2, <1>3, CountStays DEF GInv, Procs
  <1>6. ListsRight'
    <2>1. \A q \in Waiters : Unfired(q)' <=> Unfired(q)
      BY <1>1 DEF Unfired, IsFired
    <2>2. \A v \in Workers : InHand(v)' => InHand(v)
      BY <1>2, <1>3 DEF InHand, Procs
    <2>3. \A q \in Waiters : /\ Parked(q) /\ Unfired(q) => Parked(q)'
                             /\ pc[q] = "publish" => pc'[q] = "publish"
                             /\ pc'[q] = "push" => pc[q] = "push"
      BY <1>1, <1>2, <1>3 DEF Parked, Unfired, Procs
    <2>4. \A q \in Waiters : pc[q] = "push" => Unfired(q)
      BY DEF GInv, ListsRight, Holders
    <2> QED BY <1>1, <2>1, <2>2, <2>3, <2>4, ListsStay DEF GInv
  <1> QED BY <1>3, <1>4, <1>5, <1>6 DEF GInv

\* Sleep, Awake and Interrupt: a suspended thread stays so.
LEMMA SleepingKeeps ==
  ASSUME GInv, NEW t \in Threads, NEW l \in {"parked", "asleep"},
         Parked(t), pc' = [pc EXCEPT ![t] = l] \/ pc' = pc,
         op' = op, lock_' = lock_, counter_' = counter_, callers' = callers, moved' = moved,
         listVars' = listVars, state_' = state_
  PROVE  GInv'
  <1>1. /\ room' = room /\ owed' = owed /\ head_' = head_ /\ tail_' = tail_ /\ next' = next
        /\ t \in Procs /\ t \notin Workers /\ t \in Waiters
    BY SpinlockWaitGroupAssumption DEF Procs, Waiters, callers, listVars
  <1>2. /\ DOMAIN pc' = Procs /\ pc'[t] \in {"parked", "sleep", "asleep"}
        /\ \A y \in Procs : y # t => pc'[y] = pc[y]
    BY <1>1 DEF GInv, GroupTypes, Parked
  <1>3. GroupTypes'
    BY <1>1, <1>2 DEF GInv, GroupTypes
  <1>4. LabelsRight'
    BY <1>1, <1>2 DEF GInv, LabelsRight, WaiterLabels, Parked, Procs
  <1>5. LockRight'
    <2>1. \A y \in Procs : HasLock(y)' => HasLock(y)
      BY <1>2 DEF HasLock
    <2> QED BY <2>1, LockStays DEF GInv
  <1>6. TypeOK'
    BY <1>1 DEF GInv, TypeOK
  <1>7. CountRight'
    BY <1>1, <1>2, CountStays DEF GInv, Procs
  <1>8. ListsRight'
    <2>1. \A q \in Waiters : Unfired(q)' <=> Unfired(q)
      BY DEF Unfired, IsFired
    <2>2. \A v \in Workers : InHand(v)' => InHand(v)
      BY <1>1, <1>2 DEF InHand, Procs
    <2>3. \A q \in Waiters : /\ Parked(q) => Parked(q)'
                             /\ pc[q] = "publish" => pc'[q] = "publish"
                             /\ pc'[q] = "push" => pc[q] = "push"
      BY <1>1, <1>2 DEF Parked, Procs
    <2>4. \A q \in Waiters : pc[q] = "push" => Unfired(q)
      BY DEF GInv, ListsRight, Holders
    <2> QED BY <1>1, <2>1, <2>2, <2>3, <2>4, ListsStay DEF GInv
  <1> QED BY <1>3, <1>4, <1>5, <1>6, <1>7, <1>8 DEF GInv

LEMMA SleepAwakeKeeps == ASSUME GInv, NEW t \in Threads, Sleep(t) \/ Awake(t) \/ Interrupt(t) PROVE GInv'
  <1>1. CASE Sleep(t)
    BY <1>1, SleepingKeeps DEF Sleep, Goto, FutexWait, Parked, eventVars
  <1>2. CASE Awake(t)
    BY <1>2, SleepingKeeps DEF Awake, Goto, Parked, eventVars
  <1>3. CASE Interrupt(t)
    <2>1. /\ pc' = pc /\ op' = op /\ lock_' = lock_ /\ counter_' = counter_ /\ moved' = moved
          /\ room' = room /\ owed' = owed /\ head_' = head_ /\ tail_' = tail_ /\ next' = next /\ state_' = state_
      BY <1>3 DEF Interrupt, WakeForNothing, WakeAll, callers, listVars
    <2>2. TypeOK' /\ GroupTypes' /\ LabelsRight' /\ LockRight'
      BY <2>1 DEF GInv, TypeOK, GroupTypes, LabelsRight, LockRight, HasLock
    <2>3. CountRight'
      BY <2>1, CountStays DEF GInv
    <2>4. ListsRight'
      BY <2>1 DEF GInv, ListsRight, Shape, Holders, Parked, Unfired, IsFired, InHand
    <2> QED BY <2>2, <2>3, <2>4 DEF GInv
  <1> QED BY <1>1, <1>2, <1>3

\* The waiter that goes is in no list.
LEMMA ReturnKeeps == ASSUME GInv, NEW p \in Waiters, Return(p) PROVE GInv'
  <1>1. /\ pc[p] = "return" /\ pc' = [pc EXCEPT ![p] = "idle"] /\ op' = op /\ lock_' = lock_
        /\ counter_' = counter_ /\ room' = room /\ moved' = moved /\ owed' = owed
        /\ head_' = head_ /\ tail_' = tail_ /\ next' = next /\ state_' = state_
    BY DEF Return, Goto, callers, listVars, eventVars
  <1>2. p \in Procs /\ p \notin Workers
    BY SpinlockWaitGroupAssumption DEF Procs
  <1>3. /\ GroupTypes' /\ LabelsRight' /\ LockRight'
        /\ pc'[p] = "idle" /\ \A y \in Procs : y # p => pc'[y] = pc[y]
    <2>1. state_' \in [Threads -> 0 .. 1]
      BY <1>1 DEF GInv, GroupTypes
    <2>2. ~ HasLock(p)'
      BY <1>1, <1>2 DEF GInv, GroupTypes, HasLock
    <2> QED BY <1>1, <1>2, <2>1, <2>2, StepKeeps DEF WaiterLabels
  <1>4. TypeOK'
    BY <1>1 DEF GInv, TypeOK
  <1>5. CountRight'
    BY <1>1, <1>2, <1>3, CountStays DEF GInv, Procs
  <1>6. ListsRight'
    <2>1. \A q \in Waiters : /\ Parked(q) => Parked(q)'
                             /\ pc[q] = "publish" => pc'[q] = "publish"
                             /\ pc'[q] = "push" => pc[q] = "push"
                             /\ Unfired(q)' <=> Unfired(q)
      BY <1>1, <1>2, <1>3 DEF Parked, Unfired, IsFired, Procs
    <2>2. \A w \in Workers : InHand(w)' => InHand(w)
      BY <1>2, <1>3 DEF InHand, Procs
    <2>3. \A q \in Waiters : pc[q] = "push" => Unfired(q)
      BY DEF GInv, ListsRight, Holders
    <2> QED BY <1>1, <2>1, <2>2, <2>3, ListsStay DEF GInv
  <1> QED BY <1>3, <1>4, <1>5, <1>6 DEF GInv

\* Take and Pop: the head goes from a list into the hands of a Done.  Nobody is about to
\* suspend with the lock while Done has it, and only wait_queue_ has such waiters.
LEMMA TakeHead ==
  ASSUME GInv, NEW w \in Workers, NEW l \in {w, wait_queue_}, PopFront(l),
         NEW lab \in {"put", "wake"}, pc' = [pc EXCEPT ![w] = lab], op' = op, state_' = state_,
         moved' = [moved EXCEPT ![w] = head_[l]], ~ InHand(w), l = wait_queue_ => HasLock(w)
  PROVE  /\ ListsRight' /\ moved' \in [Workers -> Waiters \union {nullptr}]
         /\ head_' \in [Lists -> Waiters \union {nullptr}] /\ tail_' \in [Lists -> Waiters \union {nullptr}]
         /\ next' \in [Waiters -> Waiters \union {nullptr}]
  <1>1. /\ l \in Lists /\ nullptr \notin Waiters /\ nullptr \notin Lists
        /\ w \in Procs /\ w \notin Waiters /\ w # wait_queue_
    BY SpinlockWaitGroupAssumption DEF Procs
  <1>2. PICK at \in [Waiters -> Lists \union {nullptr}] : Shape(at) /\ Holders(at)
    BY DEF GInv, ListsRight
  <1>0. PICK h \in Waiters \union {nullptr} : h = head_[l]
    BY <1>1 DEF GInv, GroupTypes
  <1>a. PICK at2 \in [Waiters -> Lists \union {nullptr}] :
           at2 = [p \in Waiters |-> IF p = h THEN nullptr ELSE at[p]]
    OBVIOUS
  <1>b. (h \in Waiters => at2[h] = nullptr) /\ \A p \in Waiters : p # h => at2[p] = at[p]
    BY <1>a
  <1>3. /\ h \in Waiters /\ at[h] = l
        /\ head_' \in [Lists -> Waiters \union {nullptr}] /\ tail_' \in [Lists -> Waiters \union {nullptr}]
        /\ next' \in [Waiters -> Waiters \union {nullptr}]
        /\ Shape(at2)'
    BY <1>0, <1>b, <1>1, <1>2, PopKeepsShape DEF GInv
  <1>4. /\ pc'[w] = lab /\ \A y \in Procs : y # w => pc'[y] = pc[y]
        /\ moved'[w] = h /\ \A v \in Workers : v # w => moved'[v] = moved[v]
        /\ moved' \in [Workers -> Waiters \union {nullptr}]
    BY <1>0, <1>1, <1>3 DEF GInv, GroupTypes, TypeOK
  <1>5. Parked(h) /\ Unfired(h)
    <2>1. (Parked(h) \/ (pc[h] = "publish" /\ l = wait_queue_)) /\ Unfired(h)
      BY <1>1, <1>2, <1>3 DEF Holders
    <2>2. ~ (pc[h] = "publish" /\ HasLock(w))
      <3> SUFFICES ASSUME pc[h] = "publish", HasLock(w) PROVE FALSE
        OBVIOUS
      <3>1. HasLock(h) /\ h \in Procs
        BY <1>3 DEF HasLock, Procs
      <3>2. h = w
        BY <1>1, <3>1 DEF GInv, LockRight
      <3> QED BY <1>1, <1>3, <3>2
    <2> QED BY <2>1, <2>2
  <1>6. \A p \in Waiters : (Parked(p)' <=> Parked(p)) /\ (Unfired(p)' <=> Unfired(p)) /\ pc'[p] = pc[p]
    BY <1>1, <1>4 DEF Parked, Unfired, IsFired, Procs
  <1>7. \A p \in Waiters : at2[p] # nullptr =>
          (Parked(p)' \/ (pc'[p] = "publish" /\ at2[p] = wait_queue_)) /\ Unfired(p)'
    BY <1>2, <1>3, <1>6, <1>b DEF Holders
  <1>8. ASSUME NEW v \in Workers, v # w, InHand(v)'
        PROVE  InHand(v) /\ moved'[v] = moved[v] /\ moved[v] # h
    BY <1>1, <1>2, <1>3, <1>4, <1>8 DEF Holders, InHand, Procs
  <1>9. ASSUME NEW v \in Workers, InHand(v)'
        PROVE  moved'[v] # nullptr /\ at2[moved'[v]] = nullptr /\ Parked(moved[v])' /\ Unfired(moved[v])'
    <2>1. CASE v = w
      <3>1. PICK p \in Waiters : p = h /\ p = moved'[v]
        BY <1>3, <1>4, <2>1
      <3>2. Parked(p)' /\ Unfired(p)'
        BY <1>5, <1>6, <3>1
      <3> QED BY <1>1, <1>3, <1>b, <3>1, <3>2 DEF Parked, Unfired, IsFired
    <2>2. CASE v # w
      <3>1. PICK p \in Waiters : p = moved[v] /\ p = moved'[v] /\ p # h /\ at[p] = nullptr /\ Parked(p) /\ Unfired(p)
        BY <1>1, <1>2, <1>8, <1>9, <2>2 DEF Holders, GInv, TypeOK
      <3>2. Parked(p)' /\ Unfired(p)'
        BY <1>6, <3>1
      <3> QED BY <1>1, <1>3, <1>b, <3>1, <3>2 DEF Parked, Unfired, IsFired
    <2> QED BY <2>1, <2>2
  <1>10. \A v, u \in Workers : InHand(v)' /\ InHand(u)' /\ moved'[v] = moved'[u] => v = u
    BY <1>2, <1>4, <1>8 DEF Holders
  <1>11. \A p \in Waiters : pc'[p] = "push" => Unfired(p)'
    BY <1>2, <1>6 DEF Holders
  <1>12. Holders(at2)'
    BY <1>7, <1>9, <1>10, <1>11 DEF Holders
  <1> QED BY <1>3, <1>4, <1>12 DEF ListsRight

LEMMA TakeKeeps == ASSUME GInv, NEW w \in Workers, Take(w) PROVE GInv'
  <1>1. /\ pc[w] = "drain" /\ pc' = [pc EXCEPT ![w] = "put"] /\ op' = op /\ lock_' = lock_
        /\ counter_' = counter_ /\ room' = room /\ owed' = owed /\ state_' = state_
        /\ moved' = [moved EXCEPT ![w] = head_[wait_queue_]] /\ PopFront(wait_queue_)
    BY DEF Take, Goto, callers, eventVars
  <1>2. w \in Procs /\ w \notin Waiters
    BY SpinlockWaitGroupAssumption DEF Procs
  <1>3. ~ InHand(w) /\ HasLock(w)
    BY <1>1 DEF InHand, HasLock
  <1>4. /\ ListsRight' /\ moved' \in [Workers -> Waiters \union {nullptr}]
        /\ head_' \in [Lists -> Waiters \union {nullptr}] /\ tail_' \in [Lists -> Waiters \union {nullptr}]
        /\ next' \in [Waiters -> Waiters \union {nullptr}]
    BY <1>1, <1>3, TakeHead
  <1>5. DOMAIN pc' = Procs /\ pc'[w] = "put" /\ \A y \in Procs : y # w => pc'[y] = pc[y]
    BY <1>1, <1>2 DEF GInv, GroupTypes
  <1>6. TypeOK' /\ GroupTypes'
    BY <1>1, <1>4, <1>5 DEF GInv, TypeOK, GroupTypes
  <1>7. LabelsRight'
    BY <1>1, <1>2, <1>5 DEF GInv, LabelsRight, WorkerLabels, Procs
  <1>8. LockRight'
    BY <1>1, <1>3, <1>5, LockStays DEF GInv, HasLock
  <1>9. CountRight'
    BY <1>1, <1>2, <1>5, CountStays DEF GInv, Procs
  <1> QED BY <1>4, <1>6, <1>7, <1>8, <1>9 DEF GInv

\* The end of Done, or the next of its buffer.
LEMMA PopKeeps == ASSUME GInv, NEW w \in Workers, Pop(w) PROVE GInv'
  <1>1. PICK l \in {"idle", "wake"} : pc' = [pc EXCEPT ![w] = l] /\ (l = "idle" <=> IsEmpty(w))
    BY DEF Pop, Goto
  <1>2. /\ pc[w] = "pop" /\ op' = op /\ lock_' = lock_
        /\ counter_' = counter_ /\ room' = room /\ owed' = owed /\ state_' = state_
        /\ moved' = [moved EXCEPT ![w] = head_[w]]
    BY DEF Pop, callers, eventVars
  <1>3. w \in Procs /\ w \notin Waiters /\ w \in Lists
    BY SpinlockWaitGroupAssumption DEF Procs
  <1>4. DOMAIN pc' = Procs /\ pc'[w] = l /\ \A y \in Procs : y # w => pc'[y] = pc[y]
    BY <1>1, <1>3 DEF GInv, GroupTypes
  <1>5. ~ InHand(w) /\ ~ HasLock(w) /\ w # wait_queue_
    BY <1>2, SpinlockWaitGroupAssumption DEF InHand, HasLock
  <1>6. /\ ListsRight' /\ moved' \in [Workers -> Waiters \union {nullptr}]
        /\ head_' \in [Lists -> Waiters \union {nullptr}] /\ tail_' \in [Lists -> Waiters \union {nullptr}]
        /\ next' \in [Waiters -> Waiters \union {nullptr}]
    <2>1. CASE l = "wake"
      <3>1. PopFront(w)
        BY <1>1, <2>1 DEF Pop
      <3> QED BY <1>1, <1>2, <1>5, <2>1, <3>1, TakeHead
    <2>2. CASE l = "idle"
      <3>1. head_' = head_ /\ tail_' = tail_ /\ next' = next /\ head_[w] = nullptr
        BY <1>1, <2>2 DEF Pop, IsEmpty, listVars
      <3>2. /\ moved' \in [Workers -> Waiters \union {nullptr}]
            /\ \A v \in Workers : v # w => moved'[v] = moved[v]
        BY <1>2, <3>1 DEF GInv, TypeOK
      <3>3. \A p \in Waiters : pc'[p] = pc[p] /\ (Unfired(p)' <=> Unfired(p))
        BY <1>2, <1>3, <1>4 DEF Unfired, IsFired, Procs
      <3>4. \A v \in Workers : InHand(v)' => InHand(v) /\ moved'[v] = moved[v]
        BY <1>3, <1>4, <2>2, <3>2 DEF InHand, Procs
      <3>5. \A p \in Waiters : pc[p] = "push" => Unfired(p)
        BY DEF GInv, ListsRight, Holders
      <3>6. ListsRight'
        BY <3>1, <3>3, <3>4, <3>5, ListsStay DEF GInv, Parked
      <3> QED BY <3>1, <3>2, <3>6 DEF GInv, TypeOK, GroupTypes
    <2> QED BY <2>1, <2>2
  <1>7. TypeOK' /\ GroupTypes'
    BY <1>2, <1>4, <1>6 DEF GInv, TypeOK, GroupTypes
  <1>8. LabelsRight'
    BY <1>2, <1>3, <1>4 DEF GInv, LabelsRight, WorkerLabels, Procs
  <1>9. LockRight'
    BY <1>2, <1>4, LockStays DEF GInv, HasLock
  <1>10. CountRight'
    BY <1>2, <1>3, <1>4, CountStays DEF GInv, Procs
  <1> QED BY <1>6, <1>7, <1>8, <1>9, <1>10 DEF GInv

\* From the hands into the buffer.
LEMMA PutKeeps == ASSUME GInv, NEW w \in Workers, Put(w) PROVE GInv'
  <1>1. /\ pc[w] = "put" /\ pc' = [pc EXCEPT ![w] = "drain"] /\ op' = op /\ lock_' = lock_
        /\ counter_' = counter_ /\ room' = room /\ owed' = owed /\ state_' = state_
        /\ moved' = [moved EXCEPT ![w] = nullptr] /\ PushBack(w, moved[w])
    BY DEF Put, Goto, callers, eventVars
  <1>2. /\ w \in Procs /\ w \notin Waiters /\ w \in Lists /\ w # nullptr /\ nullptr \notin Waiters
        /\ InHand(w) /\ HasLock(w)
    BY <1>1, SpinlockWaitGroupAssumption DEF Procs, InHand, HasLock
  <1>3. PICK at \in [Waiters -> Lists \union {nullptr}] : Shape(at) /\ Holders(at)
    BY DEF GInv, ListsRight
  <1>4. PICK n \in Waiters : n = moved[w] /\ at[n] = nullptr /\ Parked(n) /\ Unfired(n)
    BY <1>2, <1>3 DEF Holders, GInv, TypeOK
  <1>a. PICK at2 \in [Waiters -> Lists \union {nullptr}] :
           at2 = [p \in Waiters |-> IF p = n THEN w ELSE at[p]]
    BY <1>2
  <1>b. at2[n] = w /\ \A p \in Waiters : p # n => at2[p] = at[p]
    BY <1>a
  <1>5. /\ head_' \in [Lists -> Waiters \union {nullptr}] /\ tail_' \in [Lists -> Waiters \union {nullptr}]
        /\ next' \in [Waiters -> Waiters \union {nullptr}]
        /\ Shape(at2)'
    <2>1. PushBack(w, n)
      BY <1>1, <1>4 DEF PushBack
    <2> QED BY <1>2, <1>3, <1>4, <1>b, <2>1, PushKeepsShape DEF GInv
  <1>6. /\ DOMAIN pc' = Procs /\ pc'[w] = "drain" /\ \A y \in Procs : y # w => pc'[y] = pc[y]
        /\ \A v \in Workers : v # w => moved'[v] = moved[v]
        /\ moved' \in [Workers -> Waiters \union {nullptr}]
    BY <1>1, <1>2 DEF GInv, GroupTypes, TypeOK
  <1>7. \A p \in Waiters : (Parked(p)' <=> Parked(p)) /\ (Unfired(p)' <=> Unfired(p)) /\ pc'[p] = pc[p]
    BY <1>1, <1>2, <1>6 DEF Parked, Unfired, IsFired, Procs
  <1>8. \A p \in Waiters : at2[p] # nullptr =>
          (Parked(p)' \/ (pc'[p] = "publish" /\ at2[p] = wait_queue_)) /\ Unfired(p)'
    BY <1>3, <1>4, <1>b, <1>7 DEF Holders
  <1>9. ASSUME NEW v \in Workers, InHand(v)'
        PROVE  InHand(v) /\ moved'[v] = moved[v] /\ moved[v] # n
    BY <1>2, <1>3, <1>4, <1>6, <1>9 DEF Holders, InHand, Procs
  <1>10. ASSUME NEW v \in Workers, InHand(v)'
         PROVE  moved'[v] # nullptr /\ at2[moved'[v]] = nullptr /\ Parked(moved[v])' /\ Unfired(moved[v])'
    <2>1. PICK p \in Waiters : p = moved[v] /\ p = moved'[v] /\ p # n /\ at[p] = nullptr /\ Parked(p) /\ Unfired(p)
      BY <1>2, <1>3, <1>9, <1>10 DEF Holders, GInv, TypeOK
    <2>2. Parked(p)' /\ Unfired(p)'
      BY <1>7, <2>1
    <2> QED BY <1>2, <1>b, <2>1, <2>2 DEF Parked, Unfired, IsFired
  <1>11. \A v, u \in Workers : InHand(v)' /\ InHand(u)' /\ moved'[v] = moved'[u] => v = u
    BY <1>3, <1>9 DEF Holders
  <1>12. \A p \in Waiters : pc'[p] = "push" => Unfired(p)'
    BY <1>3, <1>7 DEF Holders
  <1>13. ListsRight'
    <2>1. Holders(at2)'
      BY <1>8, <1>10, <1>11, <1>12 DEF Holders
    <2> QED BY <1>5, <2>1 DEF ListsRight
  <1>14. TypeOK' /\ GroupTypes'
    BY <1>1, <1>5, <1>6 DEF GInv, TypeOK, GroupTypes
  <1>15. LabelsRight'
    BY <1>1, <1>2, <1>6 DEF GInv, LabelsRight, WorkerLabels, Procs
  <1>16. LockRight'
    BY <1>1, <1>2, <1>6, LockStays DEF GInv, HasLock
  <1>17. CountRight'
    BY <1>1, <1>2, <1>6, CountStays DEF GInv, Procs
  <1> QED BY <1>13, <1>14, <1>15, <1>16, <1>17 DEF GInv

\* The lambda of DoAwait, with the lock still taken.
LEMMA PushKeeps == ASSUME GInv, NEW p \in Waiters, Push(p) PROVE GInv'
  <1>1. /\ pc[p] = "push" /\ pc' = [pc EXCEPT ![p] = "publish"] /\ op' = op /\ lock_' = lock_
        /\ counter_' = counter_ /\ room' = room /\ owed' = owed /\ state_' = state_
        /\ moved' = moved /\ PushBack(wait_queue_, p)
    BY DEF Push, Goto, callers, eventVars
  <1>2. p \in Procs /\ p \notin Workers /\ nullptr \notin Waiters /\ nullptr # wait_queue_ /\ wait_queue_ \in Lists
    BY SpinlockWaitGroupAssumption DEF Procs
  <1>3. PICK at \in [Waiters -> Lists \union {nullptr}] : Shape(at) /\ Holders(at)
    BY DEF GInv, ListsRight
  <1>4. at[p] = nullptr /\ Unfired(p) /\ ~ Parked(p) /\ HasLock(p)
    BY <1>1, <1>3 DEF Holders, Parked, HasLock
  <1>a. PICK at2 \in [Waiters -> Lists \union {nullptr}] :
           at2 = [q \in Waiters |-> IF q = p THEN wait_queue_ ELSE at[q]]
    BY <1>2
  <1>b. at2[p] = wait_queue_ /\ \A q \in Waiters : q # p => at2[q] = at[q]
    BY <1>a
  <1>5. /\ head_' \in [Lists -> Waiters \union {nullptr}] /\ tail_' \in [Lists -> Waiters \union {nullptr}]
        /\ next' \in [Waiters -> Waiters \union {nullptr}]
        /\ Shape(at2)'
    BY <1>1, <1>2, <1>3, <1>4, <1>b, PushKeepsShape DEF GInv
  <1>6. DOMAIN pc' = Procs /\ pc'[p] = "publish" /\ \A y \in Procs : y # p => pc'[y] = pc[y]
    BY <1>1, <1>2 DEF GInv, GroupTypes
  <1>7. /\ \A q \in Waiters : q # p => (Parked(q)' <=> Parked(q)) /\ pc'[q] = pc[q]
        /\ \A q \in Waiters : Unfired(q)' <=> Unfired(q)
    BY <1>1, <1>6 DEF Parked, Unfired, IsFired, Procs
  <1>8. \A q \in Waiters : at2[q] # nullptr =>
          (Parked(q)' \/ (pc'[q] = "publish" /\ at2[q] = wait_queue_)) /\ Unfired(q)'
    BY <1>3, <1>4, <1>b, <1>6, <1>7 DEF Holders
  <1>9. \A v \in Workers : InHand(v)' <=> InHand(v)
    BY <1>2, <1>6 DEF InHand, Procs
  <1>10. ASSUME NEW v \in Workers, InHand(v)'
         PROVE  moved'[v] # nullptr /\ at2[moved'[v]] = nullptr /\ Parked(moved[v])' /\ Unfired(moved[v])'
    <2>1. PICK q \in Waiters : q = moved[v] /\ q # p /\ at[q] = nullptr /\ Parked(q) /\ Unfired(q)
      BY <1>2, <1>3, <1>4, <1>9, <1>10 DEF Holders, GInv, TypeOK
    <2>2. Parked(q)' /\ Unfired(q)'
      BY <1>7, <2>1
    <2> QED BY <1>1, <1>2, <1>b, <2>1, <2>2 DEF Parked, Unfired, IsFired
  <1>11. \A v, u \in Workers : InHand(v)' /\ InHand(u)' /\ moved'[v] = moved'[u] => v = u
    BY <1>1, <1>3, <1>9 DEF Holders
  <1>12. \A q \in Waiters : pc'[q] = "push" => Unfired(q)'
    BY <1>3, <1>6, <1>7 DEF Holders
  <1>13. ListsRight'
    <2>1. Holders(at2)'
      BY <1>8, <1>10, <1>11, <1>12 DEF Holders
    <2> QED BY <1>5, <2>1 DEF ListsRight
  <1>14. TypeOK' /\ GroupTypes'
    BY <1>1, <1>5, <1>6 DEF GInv, TypeOK, GroupTypes
  <1>15. LabelsRight'
    BY <1>1, <1>2, <1>6 DEF GInv, LabelsRight, WaiterLabels, Procs
  <1>16. LockRight'
    BY <1>1, <1>4, <1>6, LockStays DEF GInv, HasLock
  <1>17. CountRight'
    BY <1>1, <1>2, <1>6, CountStays DEF GInv, Procs
  <1> QED BY <1>13, <1>14, <1>15, <1>16, <1>17 DEF GInv

\* The awaiter that is woken leaves the hands of its Done, and was in no others.
LEMMA WakeFiberKeeps == ASSUME GInv, NEW w \in Workers, WakeFiber(w) PROVE GInv'
  <1>1. PICK h \in Waiters : h = moved[w]
    BY DEF WakeFiber, Waiters
  <1>2. /\ pc[w] = "wake" /\ pc' = [pc EXCEPT ![w] = "pop", ![h] = "return"] /\ op' = op /\ lock_' = lock_
        /\ counter_' = counter_ /\ room' = room /\ owed' = owed /\ state_' = state_
        /\ moved' = [moved EXCEPT ![w] = nullptr]
        /\ head_' = head_ /\ tail_' = tail_ /\ next' = next
    BY <1>1 DEF WakeFiber, callers, eventVars, listVars
  <1>3. w \in Procs /\ h \in Procs /\ h # w /\ h \notin Workers
    BY SpinlockWaitGroupAssumption DEF Procs
  <1>4. /\ DOMAIN pc' = Procs /\ pc'[w] = "pop" /\ pc'[h] = "return"
        /\ \A y \in Procs : y # w /\ y # h => pc'[y] = pc[y]
    BY <1>2, <1>3 DEF GInv, GroupTypes
  <1>5. /\ moved' \in [Workers -> Waiters \union {nullptr}]
        /\ \A v \in Workers : v # w => moved'[v] = moved[v]
    BY <1>2 DEF GInv, TypeOK
  <1>6. Parked(h)
    BY <1>1, <1>2 DEF GInv, ListsRight, Holders, InHand
  <1>7. TypeOK' /\ GroupTypes'
    BY <1>2, <1>4, <1>5 DEF GInv, TypeOK, GroupTypes
  <1>8. LabelsRight'
    <2>1. op[w] = "none" /\ op[h] = "none"
      BY <1>2, <1>6 DEF GInv, LabelsRight, Parked
    <2>2. \A v \in Workers : v # w => pc'[v] = pc[v]
      BY <1>3, <1>4 DEF Procs
    <2>3. \A q \in Waiters : q # h => pc'[q] = pc[q]
      BY <1>3, <1>4, SpinlockWaitGroupAssumption DEF Procs
    <2> QED BY <1>2, <1>4, <2>1, <2>2, <2>3 DEF GInv, LabelsRight, WorkerLabels, WaiterLabels
  <1>9. LockRight'
    <2>1. \A y \in Procs : HasLock(y)' => HasLock(y)
      BY <1>4 DEF HasLock
    <2> QED BY <1>2, <2>1, LockStays DEF GInv
  <1>10. CountRight'
    BY <1>2, <1>3, <1>4, CountStays DEF GInv, Procs
  <1>11. ListsRight'
    <2>1. InHand(w) /\ ~ InHand(w)' /\ \A v \in Workers : InHand(v)' => InHand(v) /\ moved'[v] = moved[v]
      BY <1>2, <1>3, <1>4, <1>5 DEF InHand, Procs
    <2>2. \A q \in Waiters : Unfired(q)' <=> Unfired(q)
      BY <1>2 DEF Unfired, IsFired
    <2>3. \A q \in Waiters : /\ q # h /\ Parked(q) => Parked(q)'
                             /\ pc[q] = "publish" => pc'[q] = "publish"
                             /\ pc'[q] = "push" => pc[q] = "push"
      BY <1>3, <1>4, <1>6, SpinlockWaitGroupAssumption DEF Parked, Procs
    <2>4. \A q \in Waiters : pc[q] = "push" => Unfired(q)
      BY DEF GInv, ListsRight, Holders
    <2> QED BY <1>1, <1>2, <2>1, <2>2, <2>3, <2>4, ListsStay DEF GInv
  <1> QED BY <1>7, <1>8, <1>9, <1>10, <1>11 DEF GInv

LEMMA WakeThreadKeeps == ASSUME GInv, NEW w \in Workers, WakeThread(w) PROVE GInv'
  <1>1. PICK h \in Waiters : h = moved[w] /\ h \in Threads
    BY DEF WakeThread, Waiters
  <1>2. /\ pc[w] = "wake" /\ pc' = [pc EXCEPT ![w] = "notify"] /\ op' = op /\ lock_' = lock_
        /\ counter_' = counter_ /\ room' = room /\ owed' = owed /\ state_' = [state_ EXCEPT ![h] = 1]
        /\ moved' = moved /\ head_' = head_ /\ tail_' = tail_ /\ next' = next
    BY <1>1 DEF WakeThread, Store, Goto, callers, listVars
  <1>3. w \in Procs /\ w \notin Waiters
    BY SpinlockWaitGroupAssumption DEF Procs
  <1>4. state_' \in [Threads -> 0 .. 1] /\ \A t \in Threads : t # h => state_'[t] = state_[t]
    <2>1. 1 \in 0 .. 1 /\ state_ \in [Threads -> 0 .. 1]
      BY DEF GInv, GroupTypes
    <2> QED BY <1>2, <2>1
  <1>5. /\ GroupTypes' /\ LabelsRight' /\ LockRight'
        /\ pc'[w] = "notify" /\ \A y \in Procs : y # w => pc'[y] = pc[y]
    <2>1. ~ HasLock(w)'
      BY <1>2, <1>3 DEF GInv, GroupTypes, HasLock
    <2> QED BY <1>2, <1>3, <1>4, <2>1, StepKeeps DEF WorkerLabels
  <1>6. Parked(h)
    BY <1>1, <1>2 DEF GInv, ListsRight, Holders, InHand
  <1>7. TypeOK'
    BY <1>2 DEF GInv, TypeOK
  <1>8. CountRight'
    BY <1>2, <1>3, <1>5, CountStays DEF GInv, Procs
  <1>9. ListsRight'
    <2>1. InHand(w) /\ ~ InHand(w)' /\ \A v \in Workers : InHand(v)' => InHand(v)
      BY <1>2, <1>5 DEF InHand, Procs
    <2>2. \A q \in Waiters : /\ q # h => (Unfired(q)' <=> Unfired(q))
                             /\ pc'[q] = pc[q]
      BY <1>3, <1>4, <1>5 DEF Unfired, IsFired, Procs
    <2>3. pc[h] # "publish" /\ pc[h] # "push"
      BY <1>6 DEF Parked
    <2>4. \A q \in Waiters : pc[q] = "push" => Unfired(q)
      BY DEF GInv, ListsRight, Holders
    <2>5. \A q \in Waiters : /\ q # h /\ Unfired(q) /\ Parked(q) => Unfired(q)' /\ Parked(q)'
                             /\ pc[q] = "publish" /\ Unfired(q) => Unfired(q)' /\ pc'[q] = "publish"
                             /\ pc'[q] = "push" => Unfired(q)'
      BY <2>2, <2>3, <2>4 DEF Parked
    <2> QED BY <1>1, <1>2, <2>1, <2>5, ListsStay DEF GInv
  <1> QED BY <1>5, <1>7, <1>8, <1>9 DEF GInv

\* The thread that is notified may be gone, or wait again: nothing of the lists is touched.
LEMMA NotifyKeeps == ASSUME GInv, NEW w \in Workers, Notify(w) PROVE GInv'
  <1>1. /\ pc[w] = "notify" /\ pc' = [pc EXCEPT ![w] = "pop"] /\ op' = op /\ lock_' = lock_
        /\ counter_' = counter_ /\ room' = room /\ owed' = owed /\ state_' = state_
        /\ moved' = [moved EXCEPT ![w] = nullptr] /\ head_' = head_ /\ tail_' = tail_ /\ next' = next
    BY DEF Notify, WakeAll, Goto, callers, listVars
  <1>2. w \in Procs /\ w \notin Waiters
    BY SpinlockWaitGroupAssumption DEF Procs
  <1>3. /\ GroupTypes' /\ LabelsRight' /\ LockRight'
        /\ pc'[w] = "pop" /\ \A y \in Procs : y # w => pc'[y] = pc[y]
    <2>1. state_' \in [Threads -> 0 .. 1]
      BY <1>1 DEF GInv, GroupTypes
    <2>2. ~ HasLock(w)'
      BY <1>1, <1>2 DEF GInv, GroupTypes, HasLock
    <2> QED BY <1>1, <1>2, <2>1, <2>2, StepKeeps DEF WorkerLabels
  <1>4. /\ moved' \in [Workers -> Waiters \union {nullptr}]
        /\ \A v \in Workers : v # w => moved'[v] = moved[v]
    BY <1>1 DEF GInv, TypeOK
  <1>5. TypeOK'
    BY <1>1, <1>4 DEF GInv, TypeOK
  <1>6. CountRight'
    BY <1>1, <1>2, <1>3, CountStays DEF GInv, Procs
  <1>7. ListsRight'
    <2>1. \A v \in Workers : InHand(v)' => InHand(v) /\ moved'[v] = moved[v]
      BY <1>1, <1>2, <1>3, <1>4 DEF InHand, Procs
    <2>2. \A q \in Waiters : pc'[q] = pc[q] /\ (Unfired(q)' <=> Unfired(q))
      BY <1>1, <1>2, <1>3 DEF Unfired, IsFired, Procs
    <2>3. \A q \in Waiters : pc[q] = "push" => Unfired(q)
      BY DEF GInv, ListsRight, Holders
    <2> QED BY <1>1, <2>1, <2>2, <2>3, ListsStay DEF GInv, Parked
  <1> QED BY <1>3, <1>5, <1>6, <1>7 DEF GInv

LEMMA GroupNext == ASSUME GInv, [Next]_vars PROVE GInv'
  <1>1. ASSUME NEW x \in Procs, LockStep(x) PROVE GInv'
    BY <1>1, LockKeeps, SpinKeeps DEF LockStep
  <1>2. ASSUME NEW w \in Workers, Unlock(w) \/ Drained(w) PROVE GInv'
    <2>1. w \in Procs /\ w \notin Waiters
      BY SpinlockWaitGroupAssumption DEF Procs
    <2>2. CASE Unlock(w)
      BY <2>1, <2>2, ReleaseKeeps DEF Unlock
    <2>3. CASE Drained(w)
      BY <2>1, <2>3, ReleaseKeeps DEF Drained
    <2> QED BY <1>2, <2>2, <2>3
  <1>3. ASSUME NEW p \in Waiters, Leave(p) \/ Publish(p) PROVE GInv'
    <2>1. p \in Procs /\ p \notin Workers
      BY SpinlockWaitGroupAssumption DEF Procs
    <2>2. CASE Leave(p)
      BY <2>1, <2>2, ReleaseKeeps DEF Leave
    <2>3. CASE Publish(p)
      BY <2>1, <2>3, ReleaseKeeps DEF Publish
    <2> QED BY <1>3, <2>2, <2>3
  <1>4. ASSUME NEW w \in Workers, CallAdd(w) \/ CallDone(w) \/ WorkStep(w) PROVE GInv'
    <2>1. w \in Procs
      BY DEF Procs
    <2> QED BY <1>1, <1>2, <1>4, <2>1, CallAddKeeps, CallDoneKeeps, AddKeeps, DoneKeeps, TakeKeeps, PutKeeps,
               PopKeeps, WakeFiberKeeps, WakeThreadKeeps, NotifyKeeps DEF WorkStep
  <1>5. ASSUME NEW p \in Waiters, Wait(p) \/ WaitStep(p) PROVE GInv'
    <2>1. p \in Procs
      BY DEF Procs
    <2> QED BY <1>1, <1>3, <1>5, <2>1, WaitKeeps, TestKeeps, PushKeeps, ReturnKeeps, LookKeeps, SleepAwakeKeeps
            DEF WaitStep
  <1>6. ASSUME NEW t \in Threads, Interrupt(t) PROVE GInv'
    BY <1>6, SleepAwakeKeeps
  <1>7. CASE UNCHANGED vars
    <2>1. /\ pc' = pc /\ op' = op /\ lock_' = lock_ /\ counter_' = counter_ /\ moved' = moved
          /\ room' = room /\ owed' = owed /\ head_' = head_ /\ tail_' = tail_ /\ next' = next /\ state_' = state_
      BY <1>7 DEF vars, callers, listVars, eventVars
    <2>2. TypeOK' /\ GroupTypes' /\ LabelsRight' /\ LockRight'
      BY <2>1 DEF GInv, TypeOK, GroupTypes, LabelsRight, LockRight, HasLock
    <2>3. CountRight'
      BY <2>1, CountStays DEF GInv
    <2>4. ListsRight'
      BY <2>1 DEF GInv, ListsRight, Shape, Holders, Parked, Unfired, IsFired, InHand
    <2> QED BY <2>2, <2>3, <2>4 DEF GInv
  <1> QED BY <1>4, <1>5, <1>6, <1>7 DEF Next

\* What the pointers of a list reach is in that list: the nodes that are in it are a set
\* that has the head and, with a node, its Next.
LEMMA ReachedIsPlaced ==
  ASSUME TypeOK, GroupTypes, NEW at \in [Waiters -> Lists \union {nullptr}], Shape(at),
         NEW l \in Lists, NEW n \in Waiters, IsIn(n, l)
  PROVE  at[n] = l
  <1> DEFINE S == {m \in Nodes : at[m] = l}
  <1>1. Nodes = Waiters /\ nullptr \notin Lists
    BY SpinlockWaitGroupAssumption
  <1>2. head_[l] \in S
    BY <1>1 DEF IsIn, IsEmpty, Shape, GroupTypes
  <1>3. \A m \in S : next[m] \in S \union {nullptr}
    BY <1>1 DEF Shape, TypeOK
  <1>4. S \in SUBSET Nodes
    OBVIOUS
  <1>5. n \in S
    <2> HIDE DEF S
    <2> QED BY <1>2, <1>3, <1>4 DEF IsIn
  <1> QED BY <1>5

\* The invariant says where an awaiter is, the property what is done to it.
LEMMA GInvIsEnough == ASSUME GInv PROVE AwaiterAlive
  <1>1. PICK at \in [Waiters -> Lists \union {nullptr}] : Shape(at) /\ Holders(at)
    BY DEF GInv, ListsRight
  <1>2. Nodes = Waiters /\ nullptr \notin Waiters /\ nullptr \notin Lists /\ Workers \subseteq Lists
        /\ wait_queue_ \notin Workers
    BY SpinlockWaitGroupAssumption
  <1>3. \A l \in Lists : \A n \in Waiters : IsIn(n, l) => at[n] = l
    BY <1>1, ReachedIsPlaced DEF GInv
  <1>4. ASSUME NEW w \in Workers, NEW p \in Waiters,
               (pc[w] \in {"put", "wake"} /\ moved[w] = p) \/ IsIn(p, w)
        PROVE  Parked(p) /\ (p \in Threads => ~ IsFired(p))
    <2>1. CASE pc[w] \in {"put", "wake"} /\ moved[w] = p
      BY <1>1, <2>1 DEF Holders, InHand, Unfired
    <2>2. CASE IsIn(p, w)
      <3>1. at[p] = w /\ w # nullptr /\ w # wait_queue_
        BY <1>2, <1>3, <2>2
      <3> QED BY <1>1, <3>1 DEF Holders, Unfired
    <2> QED BY <1>4, <2>1, <2>2
  <1> QED BY <1>4 DEF GInv, AwaiterAlive

-----------------------------------------------------------------------------
\* The events and the group by themselves.  Nobody but the subject of the run moves.

\* A waiter of an event returns only when that event is fired, whatever it waited for
\* before, and Fire reads and wakes only awaiters that still wait for its event.  Whom a
\* Done of the wait group has in its hands or in its buffer still waits, and is not woken yet;
\* the counter is what is owed and never more than was added.
THEOREM WaitersAreServedRight == MCSpec => []WaitersAreRight
  <1> DEFINE I == EInv /\ (subject = "wait group" => GInv)
  <1>1. MCInit => I
    BY InitEInv, GroupInit, EventConstantsAssumption DEF MCInit
  <1>2. I /\ [MCNext]_all => I'
    <2> SUFFICES ASSUME I, [MCNext]_all PROVE I'
      OBVIOUS
    <2>1. EInv'
      <3>1. [E!Next]_E!vars
        BY DEF MCNext, EventStep, GroupStep, ListStep, events, all, E!vars
      <3> QED BY <3>1, NextEInv, EventConstantsAssumption
    <2>2. subject' = subject
      BY DEF MCNext, EventStep, GroupStep, ListStep, choice, all
    <2>3. ASSUME subject = "wait group" PROVE [Next]_vars
      BY <2>3 DEF MCNext, EventStep, GroupStep, ListStep, choice, all
    <2> QED BY <2>1, <2>2, <2>3, GroupNext
  <1>3. I => WaitersAreRight
    BY EInvIsEnough, GInvIsEnough DEF WaitersAreRight
  <1> QED BY <1>1, <1>2, <1>3, PTL DEF MCSpec

-----------------------------------------------------------------------------
\* The promise of the group.

\* With no unit to be waited for, wait_queue_ is being emptied or empty, and who is on the
\* way into it has seen a unit.
Draining(w) == pc[w] \in {"drain", "put"}

Queue(n) == IsIn(n, wait_queue_)

QueueRight ==
    /\ head_[wait_queue_] # nullptr => Queue(tail_[wait_queue_])
    /\ \A w \in Workers : Draining(w) => counter_ = 0
    /\ \A p \in Waiters : pc[p] = "push" => counter_ > 0
    /\ counter_ = 0 /\ head_[wait_queue_] # nullptr => \E w \in Workers : Draining(w)

RInv == GInv /\ QueueRight

QueueStays == /\ head_'[wait_queue_] = head_[wait_queue_] /\ tail_'[wait_queue_] = tail_[wait_queue_]
              /\ \A n \in Waiters : Queue(n)' <=> Queue(n)

\* A change of the pointers of awaiters that are not in wait_queue_ is no change to it.
LEMMA OthersChange ==
  ASSUME TypeOK, GroupTypes, NEW at \in [Waiters -> Lists \union {nullptr}], Shape(at),
         head_'[wait_queue_] = head_[wait_queue_], tail_'[wait_queue_] = tail_[wait_queue_],
         \A m \in Waiters : at[m] = wait_queue_ => next'[m] = next[m]
  PROVE  QueueStays
  <1>1. Nodes = Waiters /\ wait_queue_ \in Lists /\ nullptr \notin Lists
    BY SpinlockWaitGroupAssumption
  <1>2. \A m \in Waiters : at[m] = wait_queue_ =>
           next[m] = nullptr \/ (next[m] \in Waiters /\ at[next[m]] = wait_queue_)
    BY <1>1 DEF Shape, TypeOK
  <1>3. head_[wait_queue_] # nullptr => head_[wait_queue_] \in Waiters /\ at[head_[wait_queue_]] = wait_queue_
    BY <1>1 DEF Shape, GroupTypes
  <1>4. ASSUME NEW n \in Waiters, Queue(n) PROVE Queue(n)'
    <2> SUFFICES ASSUME NEW S \in SUBSET Nodes, head_'[wait_queue_] \in S,
                        \A m \in S : next'[m] \in S \union {nullptr}
                 PROVE  n \in S
      BY <1>4 DEF Queue, IsIn, IsEmpty
    <2> DEFINE T == {m \in S : at[m] = wait_queue_}
    <2>1. head_[wait_queue_] \in T /\ T \in SUBSET Nodes
      BY <1>3, <1>4 DEF Queue, IsIn, IsEmpty
    <2>2. \A m \in T : next[m] \in T \union {nullptr}
      BY <1>1, <1>2
    <2>3. n \in T
      <3> HIDE DEF T
      <3> QED BY <1>4, <2>1, <2>2 DEF Queue, IsIn
    <2> QED BY <2>3
  <1>5. ASSUME NEW n \in Waiters, Queue(n)' PROVE Queue(n)
    <2> SUFFICES ASSUME NEW S \in SUBSET Nodes, head_[wait_queue_] \in S,
                        \A m \in S : next[m] \in S \union {nullptr}
                 PROVE  n \in S
      BY <1>5 DEF Queue, IsIn, IsEmpty
    <2> DEFINE T == {m \in S : at[m] = wait_queue_}
    <2>1. head_'[wait_queue_] \in T /\ T \in SUBSET Nodes
      BY <1>3, <1>5 DEF Queue, IsIn, IsEmpty
    <2>2. \A m \in T : next'[m] \in T \union {nullptr}
      BY <1>1, <1>2
    <2>3. n \in T
      <3> HIDE DEF T
      <3> QED BY <1>5, <2>1, <2>2 DEF Queue, IsIn
    <2> QED BY <2>3
  <1> QED BY <1>4, <1>5 DEF QueueStays

\* No list changes.
LEMMA SameLists ==
  ASSUME head_' = head_, tail_' = tail_, next' = next
  PROVE  QueueStays
  BY DEF QueueStays, Queue, IsIn, IsEmpty

\* The new tail is reached through the old one, and nobody else has come.
LEMMA PushReaches ==
  ASSUME RInv, NEW p \in Waiters, pc[p] = "push", PushBack(wait_queue_, p)
  PROVE  /\ head_'[wait_queue_] # nullptr /\ tail_'[wait_queue_] = p /\ Queue(p)'
         /\ \A n \in Waiters : n # p => (Queue(n)' <=> Queue(n))
  <1>1. PICK at \in [Waiters -> Lists \union {nullptr}] : Shape(at) /\ Holders(at)
    BY DEF RInv, GInv, ListsRight
  <1>2. Nodes = Waiters /\ wait_queue_ \in Lists /\ nullptr \notin Lists /\ nullptr \notin Waiters
    BY SpinlockWaitGroupAssumption
  <1>3. PICK h \in Waiters \union {nullptr} : h = head_[wait_queue_]
    BY <1>2 DEF RInv, GInv, GroupTypes
  <1>4. PICK t \in Waiters \union {nullptr} : t = tail_[wait_queue_]
    BY <1>2 DEF RInv, GInv, GroupTypes
  <1>5. at[p] = nullptr
    BY <1>1, <1>2 DEF Holders, Parked
  <1>6. /\ head_'[wait_queue_] = IF h = nullptr THEN p ELSE h
        /\ tail_'[wait_queue_] = p
        /\ \A m \in Waiters : next'[m] = IF m = p THEN nullptr ELSE IF m = t /\ h # nullptr THEN p ELSE next[m]
    BY <1>2, <1>3, <1>4 DEF PushBack, IsEmpty, RInv, GInv, GroupTypes
  <1>7. \A m \in Waiters : at[m] = wait_queue_ =>
           m # p /\ (next[m] = nullptr \/ (next[m] \in Waiters /\ at[next[m]] = wait_queue_))
    BY <1>1, <1>2, <1>5 DEF Shape, RInv, GInv, TypeOK
  <1>8. h # nullptr => /\ h \in Waiters /\ at[h] = wait_queue_ /\ h # p
                       /\ t \in Waiters /\ at[t] = wait_queue_ /\ next[t] = nullptr /\ Queue(t) /\ t # p
    BY <1>1, <1>2, <1>3, <1>4, <1>5 DEF Shape, RInv, QueueRight
  <1>9. ASSUME NEW S \in SUBSET Nodes, head_'[wait_queue_] \in S, h # nullptr,
               \A m \in S : next'[m] \in S \union {nullptr}
        PROVE  p \in S /\ \A n \in Waiters : Queue(n) => n \in S
    <2> DEFINE T == {m \in S : at[m] = wait_queue_}
    <2>1. head_[wait_queue_] \in T /\ T \in SUBSET Nodes
      BY <1>3, <1>6, <1>8, <1>9
    <2>2. \A m \in T : next[m] \in T \union {nullptr}
      BY <1>2, <1>6, <1>7, <1>8, <1>9
    <2>3. \A n \in Waiters : Queue(n) => n \in T
      <3> HIDE DEF T
      <3> QED BY <2>1, <2>2 DEF Queue, IsIn
    <2>4. t \in S
      BY <1>8, <1>9, <2>3
    <2>5. next'[t] = p
      BY <1>6, <1>8, <1>9
    <2> QED BY <1>2, <1>9, <2>3, <2>4, <2>5
  <1>10. head_'[wait_queue_] # nullptr
    BY <1>2, <1>6
  <1>11. Queue(p)'
    <2> SUFFICES ASSUME NEW S \in SUBSET Nodes, head_'[wait_queue_] \in S,
                        \A m \in S : next'[m] \in S \union {nullptr}
                 PROVE  p \in S
      BY <1>10 DEF Queue, IsIn, IsEmpty
    <2> QED BY <1>6, <1>9
  <1>12. ASSUME NEW n \in Waiters, Queue(n) PROVE Queue(n)'
    <2>1. h # nullptr
      BY <1>3, <1>12 DEF Queue, IsIn, IsEmpty
    <2> SUFFICES ASSUME NEW S \in SUBSET Nodes, head_'[wait_queue_] \in S,
                        \A m \in S : next'[m] \in S \union {nullptr}
                 PROVE  n \in S
      BY <1>10 DEF Queue, IsIn, IsEmpty
    <2> QED BY <1>9, <1>12, <2>1
  <1>13. ASSUME NEW n \in Waiters, n # p, Queue(n)' PROVE Queue(n)
    <2> DEFINE S == {m \in Waiters : Queue(m)} \union {p}
    <2>1. head_'[wait_queue_] \in S
      <3>1. h # nullptr => Queue(h)
        BY <1>2, <1>3 DEF Queue, IsIn, IsEmpty
      <3> QED BY <1>6, <1>8, <3>1
    <2>2. \A m \in Waiters : Queue(m) => next[m] = nullptr \/ Queue(next[m])
      BY <1>2 DEF Queue, IsIn
    <2>3. \A m \in S : next'[m] \in S \union {nullptr}
      BY <1>6, <2>2 DEF RInv, GInv, TypeOK
    <2>4. S \in SUBSET Nodes
      BY <1>2
    <2>5. n \in S
      <3> HIDE DEF S
      <3> QED BY <1>13, <2>1, <2>3, <2>4 DEF Queue, IsIn
    <2> QED BY <1>13, <2>5
  <1> QED BY <1>6, <1>10, <1>11, <1>12, <1>13

\* A list that loses its head keeps its tail within reach.
LEMMA PopReaches ==
  ASSUME RInv, PopFront(wait_queue_)
  PROVE  head_'[wait_queue_] # nullptr => Queue(tail_[wait_queue_])'
  <1>1. PICK at \in [Waiters -> Lists \union {nullptr}] : Shape(at)
    BY DEF RInv, GInv, ListsRight
  <1>2. Nodes = Waiters /\ wait_queue_ \in Lists /\ nullptr \notin Lists /\ nullptr \notin Waiters
    BY SpinlockWaitGroupAssumption
  <1>3. PICK h \in Waiters \union {nullptr} : h = head_[wait_queue_]
    BY <1>2 DEF RInv, GInv, GroupTypes
  <1>4. PICK t \in Waiters \union {nullptr} : t = tail_[wait_queue_]
    BY <1>2 DEF RInv, GInv, GroupTypes
  <1> SUFFICES ASSUME head_'[wait_queue_] # nullptr PROVE Queue(tail_[wait_queue_])'
    OBVIOUS
  <1>5. h # nullptr /\ h \in Waiters /\ t \in Waiters /\ Queue(t)
    BY <1>1, <1>2, <1>3, <1>4 DEF PopFront, IsEmpty, RInv, QueueRight, Shape
  <1>6. /\ h # t /\ head_'[wait_queue_] = next[h] /\ tail_'[wait_queue_] = t
        /\ \A m \in Waiters : m # h => next'[m] = next[m]
    BY <1>2, <1>3, <1>4, <1>5 DEF PopFront, ResetNext, RInv, GInv, GroupTypes, TypeOK
  <1>7. ASSUME NEW S \in SUBSET Nodes, head_'[wait_queue_] \in S,
               \A m \in S : next'[m] \in S \union {nullptr}
        PROVE  t \in S
    <2> DEFINE T == S \union {h}
    <2>1. head_[wait_queue_] \in T /\ T \in SUBSET Nodes
      BY <1>2, <1>3, <1>5
    <2>2. \A m \in T : next[m] \in T \union {nullptr}
      BY <1>2, <1>6, <1>7
    <2>3. t \in T
      <3> HIDE DEF T
      <3> QED BY <1>5, <2>1, <2>2 DEF Queue, IsIn
    <2> QED BY <1>6, <2>3
  <1>8. ~ IsEmpty(wait_queue_)'
    BY DEF IsEmpty
  <1>9. Queue(t)'
    BY <1>7, <1>8 DEF Queue, IsIn
  <1> QED BY <1>6, <1>9


-----------------------------------------------------------------------------
\* What the phases are, and what a step makes of them.
LEMMA NobodyMoves ==
  ASSUME counter_' = counter_, \A p \in Waiters : Phase(p)' = Phase(p)
  PROVE  UNCHANGED Promise!vars
  BY DEF Promise!vars

LEMMA OneMoves ==
  ASSUME counter_' = counter_, NEW p \in Waiters, NEW to, Phase(p)' = to,
         \A q \in Waiters : q # p => Phase(q)' = Phase(q)
  PROVE  Promise!Move(p, Phase(p), to)
  <1>1. [q \in Waiters |-> Phase(q)]' = [[q \in Waiters |-> Phase(q)] EXCEPT ![p] = to]
    OBVIOUS
  <1> QED BY <1>1 DEF Promise!Move

\* Nobody waits for a zero that is there.
LEMMA ZeroReleases ==
  ASSUME counter_ = 0 PROVE \A p \in Waiters : ~ Joined(p)
  BY DEF Joined

\* A queue that is not empty has a tail.
LEMMA TailIsWaiter ==
  ASSUME RInv PROVE tail_[wait_queue_] \in Waiters \/ head_[wait_queue_] = nullptr
  <1>1. PICK at \in [Waiters -> Lists \union {nullptr}] : Shape(at)
    BY DEF RInv, GInv, ListsRight
  <1>2. wait_queue_ \in Lists
    BY SpinlockWaitGroupAssumption
  <1> QED BY <1>1, <1>2 DEF Shape, RInv, GInv, GroupTypes

\* A step with the counter and the queue as they were.
LEMMA QuietQueue ==
  ASSUME RInv, GInv', QueueStays, counter_' = counter_,
         \A w \in Workers : Draining(w)' <=> Draining(w),
         \A p \in Waiters : pc'[p] = "push" => pc[p] = "push"
  PROVE  RInv' /\ \A p \in Waiters : Joined(p)' <=> Joined(p)
  <1>1. tail_[wait_queue_] \in Waiters \/ head_[wait_queue_] = nullptr
    BY TailIsWaiter
  <1>2. QueueRight'
    BY <1>1 DEF QueueStays, QueueRight, RInv
  <1>3. \A p \in Waiters : Joined(p)' <=> Joined(p)
    BY DEF QueueStays, Queue, Joined
  <1> QED BY <1>2, <1>3 DEF RInv

\* The waiters stay where they are.
LEMMA QuietWorker ==
  ASSUME RInv, GInv', QueueStays, counter_' = counter_,
         \A w \in Workers : Draining(w)' <=> Draining(w),
         \A p \in Waiters : pc'[p] = pc[p]
  PROVE  RInv' /\ UNCHANGED Promise!vars
  <1>1. RInv' /\ \A p \in Waiters : Joined(p)' <=> Joined(p)
    BY QuietQueue
  <1>2. \A p \in Waiters : Phase(p)' = Phase(p)
    BY <1>1 DEF Phase, Parked
  <1> QED BY <1>1, <1>2, NobodyMoves

\* A waiter moves on, and no list changes.
LEMMA QuietWaiter ==
  ASSUME RInv, GInv', NEW x \in Waiters, NEW l, pc' = [pc EXCEPT ![x] = l],
         head_' = head_, tail_' = tail_, next' = next, counter_' = counter_, l = "push" => counter_ > 0
  PROVE  /\ RInv'
         /\ \A p \in Waiters : Joined(p)' <=> Joined(p)
         /\ pc'[x] = l /\ \A p \in Waiters : p # x => Phase(p)' = Phase(p)
  <1>1. x \in Procs /\ x \notin Workers
    BY SpinlockWaitGroupAssumption DEF Procs
  <1>2. pc'[x] = l /\ \A y \in Procs : y # x => pc'[y] = pc[y]
    BY <1>1 DEF RInv, GInv, GroupTypes
  <1>3. QueueStays
    BY SameLists
  <1>4. \A w \in Workers : Draining(w)' <=> Draining(w)
    BY <1>1, <1>2 DEF Draining, Procs
  <1>5. \A p \in Waiters : Joined(p)' <=> Joined(p)
    BY <1>3 DEF QueueStays, Queue, Joined
  <1>6. \A p \in Waiters : p # x => Phase(p)' = Phase(p)
    BY <1>2, <1>5 DEF Phase, Parked, Procs
  <1>7. QueueRight'
    <2>1. \A p \in Waiters : pc'[p] = "push" => counter_ > 0
      BY <1>2 DEF RInv, QueueRight, Procs
    <2>2. tail_[wait_queue_] \in Waiters \/ head_[wait_queue_] = nullptr
      BY TailIsWaiter
    <2> QED BY <1>3, <1>4, <2>1, <2>2 DEF QueueStays, QueueRight, RInv
  <1> QED BY <1>2, <1>5, <1>6, <1>7 DEF RInv

\* Who is in the queue, or was handed on, has no event fired.
LEMMA JoinedUnfired ==
  ASSUME GInv, NEW p \in Waiters, Joined(p)
  PROVE  Unfired(p) /\ \A w \in Workers : InHand(w) => moved[w] # p
  <1>1. PICK at \in [Waiters -> Lists \union {nullptr}] : Shape(at) /\ Holders(at)
    BY DEF GInv, ListsRight
  <1>2. wait_queue_ \in Lists /\ nullptr \notin Lists
    BY SpinlockWaitGroupAssumption
  <1>3. at[p] = wait_queue_
    BY <1>1, <1>2, ReachedIsPlaced DEF GInv, Joined
  <1> QED BY <1>1, <1>2, <1>3 DEF Holders

-----------------------------------------------------------------------------
\* One lemma per kind of step: the invariant is kept, and the promise has a step for it.
Kept == RInv' /\ (Promise!Next \/ UNCHANGED Promise!vars)

\* The calls, the lock, and the end of a Done leave the queue as it is.
LEMMA WorkerQuiet ==
  ASSUME RInv, GInv', NEW w \in Workers, NEW l, pc' = [pc EXCEPT ![w] = l],
         counter_' = counter_, QueueStays, l \in {"drain", "put"} <=> Draining(w)
  PROVE  Kept
  <1>1. w \in Procs /\ w \notin Waiters
    BY SpinlockWaitGroupAssumption DEF Procs
  <1>2. pc'[w] = l /\ \A y \in Procs : y # w => pc'[y] = pc[y]
    BY <1>1 DEF RInv, GInv, GroupTypes
  <1>3. \A v \in Workers : Draining(v)' <=> Draining(v)
    BY <1>1, <1>2 DEF Draining, Procs
  <1>4. \A p \in Waiters : pc'[p] = pc[p]
    BY <1>1, <1>2 DEF Procs
  <1> QED BY <1>3, <1>4, QuietWorker DEF Kept

LEMMA PopRefines == ASSUME RInv, GInv', NEW w \in Workers, Pop(w) PROVE Kept
  <1>1. PICK at \in [Waiters -> Lists \union {nullptr}] : Shape(at)
    BY DEF RInv, GInv, ListsRight
  <1>2. w \in Lists /\ wait_queue_ \in Lists /\ w # wait_queue_ /\ Nodes = Waiters
    BY SpinlockWaitGroupAssumption
  <1>3. pc[w] = "pop" /\ counter_' = counter_
    BY DEF Pop
  <1>4. CASE IsEmpty(w)
    <2>1. pc' = [pc EXCEPT ![w] = "idle"] /\ head_' = head_ /\ tail_' = tail_ /\ next' = next
      BY <1>4 DEF Pop, Goto, listVars
    <2>2. QueueStays
      BY <2>1, SameLists
    <2> QED BY <1>3, <2>1, <2>2, WorkerQuiet DEF Draining
  <1>5. CASE ~ IsEmpty(w)
    <2>1. pc' = [pc EXCEPT ![w] = "wake"] /\ PopFront(w)
      BY <1>5 DEF Pop, Goto
    <2>2. at[head_[w]] = w
      BY <1>1, <1>2, <1>5 DEF IsEmpty, Shape
    <2>3. head_'[wait_queue_] = head_[wait_queue_] /\ tail_'[wait_queue_] = tail_[wait_queue_]
      BY <1>2, <2>1 DEF PopFront, RInv, GInv, GroupTypes
    <2>4. \A m \in Waiters : at[m] = wait_queue_ => next'[m] = next[m]
      BY <1>2, <2>1, <2>2 DEF PopFront, ResetNext, RInv, GInv, TypeOK
    <2>5. QueueStays
      BY <1>1, <2>3, <2>4, OthersChange DEF RInv, GInv
    <2> QED BY <1>3, <2>1, <2>5, WorkerQuiet DEF Draining
  <1> QED BY <1>4, <1>5

\* The lists of Done are of those that a zero has released.
LEMMA PutRefines == ASSUME RInv, GInv', NEW w \in Workers, Put(w) PROVE Kept
  <1>1. PICK at \in [Waiters -> Lists \union {nullptr}] : Shape(at) /\ Holders(at)
    BY DEF RInv, GInv, ListsRight
  <1>2. w \in Lists /\ wait_queue_ \in Lists /\ nullptr \notin Lists /\ w # wait_queue_ /\ Nodes = Waiters
    BY SpinlockWaitGroupAssumption
  <1>3. pc[w] = "put" /\ counter_' = counter_ /\ pc' = [pc EXCEPT ![w] = "drain"] /\ PushBack(w, moved[w])
    BY DEF Put, Goto
  <1>4. PICK h \in Waiters : h = moved[w] /\ at[h] = nullptr
    BY <1>1, <1>3 DEF Holders, InHand, RInv, GInv, TypeOK
  <1>5. head_'[wait_queue_] = head_[wait_queue_] /\ tail_'[wait_queue_] = tail_[wait_queue_]
    BY <1>2, <1>3 DEF PushBack, RInv, GInv, GroupTypes
  <1>6. ASSUME NEW m \in Waiters, at[m] = wait_queue_ PROVE next'[m] = next[m]
    <2>1. m # h /\ ~ (m = tail_[w] /\ ~ IsEmpty(w))
      BY <1>1, <1>2, <1>4, <1>6 DEF Shape, IsEmpty
    <2> QED BY <1>2, <1>3, <1>4, <2>1 DEF PushBack
  <1>7. QueueStays
    BY <1>1, <1>5, <1>6, OthersChange DEF RInv, GInv
  <1> QED BY <1>3, <1>7, WorkerQuiet DEF Draining

\* The counter is zero: who is in the queue has been released.
LEMMA TakeRefines == ASSUME RInv, GInv', NEW w \in Workers, Take(w) PROVE Kept
  <1>1. pc[w] = "drain" /\ counter_' = counter_ /\ pc' = [pc EXCEPT ![w] = "put"] /\ PopFront(wait_queue_)
    BY DEF Take, Goto
  <1>2. w \in Procs /\ w \notin Waiters
    BY SpinlockWaitGroupAssumption DEF Procs
  <1>3. pc'[w] = "put" /\ \A y \in Procs : y # w => pc'[y] = pc[y]
    BY <1>1, <1>2 DEF RInv, GInv, GroupTypes
  <1>4. counter_ = 0
    BY <1>1 DEF RInv, QueueRight, Draining
  <1>5. \A v \in Workers : Draining(v)' <=> Draining(v)
    BY <1>1, <1>2, <1>3 DEF Draining, Procs
  <1>6. \A p \in Waiters : pc'[p] = pc[p]
    BY <1>2, <1>3 DEF Procs
  <1>7. (head_[wait_queue_] # nullptr => Queue(tail_[wait_queue_]))'
    BY <1>1, PopReaches
  <1>8. QueueRight'
    <2>1. Draining(w)'
      BY <1>3 DEF Draining
    <2> QED BY <1>1, <1>4, <1>5, <1>6, <1>7, <2>1 DEF QueueRight, RInv
  <1>9. \A p \in Waiters : ~ Joined(p) /\ ~ Joined(p)'
    BY <1>1, <1>4 DEF Joined
  <1>10. \A p \in Waiters : Phase(p)' = Phase(p)
    BY <1>6, <1>9 DEF Phase, Parked
  <1> QED BY <1>1, <1>8, <1>10, NobodyMoves DEF Kept, RInv

\* A unit more: nobody may have joined at zero.
LEMMA AddRefines == ASSUME RInv, GInv', NEW w \in Workers, Add(w) PROVE Kept
  <1>1. /\ pc[w] = "add" /\ counter_' = counter_ + 1 /\ pc' = [pc EXCEPT ![w] = "unlock"]
        /\ head_' = head_ /\ tail_' = tail_ /\ next' = next
    BY DEF Add, Goto, listVars
  <1>2. w \in Procs /\ w \notin Waiters /\ MaxCount \in Nat
    BY SpinlockWaitGroupAssumption DEF Procs
  <1>3. pc'[w] = "unlock" /\ \A y \in Procs : y # w => pc'[y] = pc[y]
    BY <1>1, <1>2 DEF RInv, GInv, GroupTypes
  <1>4. \A v \in Workers : ~ Draining(v) /\ ~ Draining(v)'
    <2>1. \A v \in Workers : ~ Draining(v)
      BY <1>1, <1>2 DEF RInv, GInv, LockRight, HasLock, Draining, Procs
    <2> QED BY <1>2, <1>3, <2>1 DEF Draining, Procs
  <1>5. \A p \in Waiters : pc'[p] = pc[p]
    BY <1>2, <1>3 DEF Procs
  <1>6. counter_ \in Nat /\ counter_' <= MaxCount
    BY <1>2 DEF RInv, GInv, TypeOK
  <1>7. QueueStays
    BY <1>1, SameLists
  <1>8. QueueRight'
    <2>1. tail_[wait_queue_] \in Waiters \/ head_[wait_queue_] = nullptr
      BY TailIsWaiter
    <2>2. (head_[wait_queue_] # nullptr => Queue(tail_[wait_queue_]))'
      BY <1>7, <2>1 DEF QueueStays, QueueRight, RInv
    <2>3. counter_' > 0 /\ counter_' # 0
      BY <1>1, <1>6
    <2> QED BY <1>4, <2>2, <2>3 DEF QueueRight
  <1>9. \A p \in Waiters : Joined(p)' <=> Joined(p)
    <2>1. CASE counter_ = 0
      <3>1. IsEmpty(wait_queue_) /\ IsEmpty(wait_queue_)'
        BY <1>1, <1>4, <2>1 DEF RInv, QueueRight, IsEmpty
      <3> QED BY <3>1 DEF Joined, IsIn
    <2>2. CASE counter_ # 0
      <3>1. counter_ > 0 /\ counter_' > 0
        BY <1>1, <1>6, <2>2
      <3> QED BY <1>7, <3>1 DEF QueueStays, Queue, Joined
    <2> QED BY <2>1, <2>2
  <1>10. \A p \in Waiters : Phase(p)' = Phase(p)
    BY <1>5, <1>9 DEF Phase, Parked
  <1>11. Promise!Add
    <2>1. 1 \in 1 .. MaxCount /\ counter_ + 1 <= MaxCount
      BY <1>1, <1>2, <1>6
    <2> QED BY <1>1, <1>10, <2>1 DEF Promise!Add
  <1> QED BY <1>8, <1>11 DEF Kept, Promise!Next, RInv

\* The Done that brings the counter to zero releases all that have joined.
LEMMA DoneRefines == ASSUME RInv, GInv', NEW w \in Workers, Done(w) PROVE Kept
  <1>1. /\ pc[w] = "done" /\ counter_' = counter_ - 1
        /\ pc' = [pc EXCEPT ![w] = IF counter_ = 1 THEN "drain" ELSE "unlock"]
        /\ head_' = head_ /\ tail_' = tail_ /\ next' = next
    BY DEF Done, Goto, listVars
  <1>2. w \in Procs /\ w \notin Waiters
    BY SpinlockWaitGroupAssumption DEF Procs
  <1>3. pc'[w] = (IF counter_ = 1 THEN "drain" ELSE "unlock") /\ \A y \in Procs : y # w => pc'[y] = pc[y]
    BY <1>1, <1>2 DEF RInv, GInv, GroupTypes
  <1>4. /\ \A v \in Workers : ~ Draining(v) /\ (v # w => ~ Draining(v)')
        /\ \A p \in Waiters : pc[p] # "push" /\ pc'[p] = pc[p]
    <2>1. \A v \in Workers : ~ Draining(v)
      BY <1>1, <1>2 DEF RInv, GInv, LockRight, HasLock, Draining, Procs
    <2>2. \A p \in Waiters : pc[p] # "push"
      BY <1>1, <1>2 DEF RInv, GInv, LockRight, HasLock, Procs
    <2> QED BY <1>2, <1>3, <2>1, <2>2 DEF Draining, Procs
  <1>5. counter_ \in Nat /\ counter_' \in Nat /\ counter_ > 0
    BY <1>1 DEF RInv, GInv, TypeOK
  <1>6. QueueStays
    BY <1>1, SameLists
  <1>7. QueueRight'
    <2>1. tail_[wait_queue_] \in Waiters \/ head_[wait_queue_] = nullptr
      BY TailIsWaiter
    <2>2. (head_[wait_queue_] # nullptr => Queue(tail_[wait_queue_]))'
      BY <1>6, <2>1 DEF QueueStays, QueueRight, RInv
    <2>3. CASE counter_ = 1
      <3>1. counter_' = 0 /\ Draining(w)'
        BY <1>1, <1>3, <2>3 DEF Draining
      <3> QED BY <1>4, <2>2, <3>1 DEF QueueRight
    <2>4. CASE counter_ # 1
      <3>1. counter_' # 0
        BY <1>1, <1>5, <2>4
      <3>2. \A v \in Workers : ~ Draining(v)'
        BY <1>3, <1>4, <2>4 DEF Draining
      <3> QED BY <1>4, <2>2, <3>1, <3>2 DEF QueueRight
    <2> QED BY <2>3, <2>4
  <1>8. \A p \in Waiters : Joined(p)' <=> Joined(p) /\ counter_ # 1
    <2>1. counter_' > 0 <=> counter_ > 0 /\ counter_ # 1
      BY <1>1, <1>5
    <2> QED BY <1>6, <2>1 DEF QueueStays, Queue, Joined
  <1>9. \A p \in Waiters : Phase(p)' = IF counter_ = 1 /\ Phase(p) = "joined" THEN "released" ELSE Phase(p)
    BY <1>4, <1>8 DEF Phase, Parked
  <1>10. Promise!Done
    BY <1>1, <1>5, <1>9 DEF Promise!Done
  <1> QED BY <1>7, <1>10 DEF Kept, Promise!Next, RInv

\* The fiber that is woken was released before.
LEMMA WakeFiberRefines == ASSUME RInv, GInv', NEW w \in Workers, WakeFiber(w) PROVE Kept
  <1>1. PICK h \in Waiters : h = moved[w]
    BY DEF WakeFiber, Waiters
  <1>2. /\ pc[w] = "wake" /\ pc' = [pc EXCEPT ![w] = "pop", ![h] = "return"] /\ counter_' = counter_
        /\ head_' = head_ /\ tail_' = tail_ /\ next' = next
    BY <1>1 DEF WakeFiber, listVars
  <1>3. w \in Procs /\ h \in Procs /\ h # w /\ h \notin Workers /\ w \notin Waiters
    BY SpinlockWaitGroupAssumption DEF Procs
  <1>4. pc'[w] = "pop" /\ pc'[h] = "return" /\ \A y \in Procs : y # w /\ y # h => pc'[y] = pc[y]
    BY <1>2, <1>3 DEF RInv, GInv, GroupTypes
  <1>5. Parked(h) /\ ~ Joined(h)
    <2>1. InHand(w)
      BY <1>2 DEF InHand
    <2>2. Parked(h)
      BY <1>1, <2>1 DEF RInv, GInv, ListsRight, Holders
    <2> QED BY <1>1, <2>1, <2>2, JoinedUnfired DEF RInv
  <1>6. QueueStays
    BY <1>2, SameLists
  <1>7. \A v \in Workers : Draining(v)' <=> Draining(v)
    BY <1>2, <1>3, <1>4 DEF Draining, Procs
  <1>8. \A p \in Waiters : pc'[p] = "push" => pc[p] = "push"
    BY <1>3, <1>4 DEF Procs
  <1>9. RInv' /\ \A p \in Waiters : Joined(p)' <=> Joined(p)
    BY <1>2, <1>6, <1>7, <1>8, QuietQueue
  <1>10. Phase(h)' = Phase(h)
    BY <1>4, <1>5, <1>9 DEF Phase, Parked
  <1>11. \A p \in Waiters : p # h => Phase(p)' = Phase(p)
    BY <1>3, <1>4, <1>9 DEF Phase, Parked, Procs
  <1> QED BY <1>2, <1>9, <1>10, <1>11, NobodyMoves DEF Kept

\* What a worker does: the other steps leave the queue and the waiters as they are.
LEMMA WorkerRefines ==
  ASSUME RInv, GInv', NEW w \in Workers, CallAdd(w) \/ CallDone(w) \/ WorkStep(w)
  PROVE  Kept
  <1>1. w \in Procs /\ w \notin Waiters
    BY SpinlockWaitGroupAssumption DEF Procs
  <1>2. CASE CallAdd(w) \/ CallDone(w)
    <2>1. /\ pc[w] = "idle" /\ pc' = [pc EXCEPT ![w] = "lock"] /\ counter_' = counter_
          /\ head_' = head_ /\ tail_' = tail_ /\ next' = next
      BY <1>2 DEF CallAdd, CallDone, Call, Goto, listVars
    <2> QED BY <2>1, SameLists, WorkerQuiet DEF Draining
  <1>3. CASE LockStep(w)
    <2>1. /\ pc[w] \in {"lock", "spin"} /\ counter_' = counter_
          /\ head_' = head_ /\ tail_' = tail_ /\ next' = next
          /\ \E l \in {"add", "done", "spin", "lock"} : pc' = [pc EXCEPT ![w] = l]
      <3>1. pc[w] \in {"lock", "spin"} => op[w] \in {"add", "done"}
        BY DEF RInv, GInv, LabelsRight
      <3> QED BY <1>3, <3>1 DEF LockStep, Lock, Spin, Goto, listVars
    <2>2. PICK l \in {"add", "done", "spin", "lock"} : pc' = [pc EXCEPT ![w] = l]
      BY <2>1
    <2> QED BY <2>1, <2>2, SameLists, WorkerQuiet DEF Draining
  <1>4. CASE Unlock(w)
    <2>1. /\ pc[w] = "unlock" /\ pc' = [pc EXCEPT ![w] = "idle"] /\ counter_' = counter_
          /\ head_' = head_ /\ tail_' = tail_ /\ next' = next
      BY <1>4 DEF Unlock, Release, Goto, listVars
    <2> QED BY <2>1, SameLists, WorkerQuiet DEF Draining
  <1>5. CASE Drained(w)
    <2>1. /\ pc[w] = "drain" /\ pc' = [pc EXCEPT ![w] = "pop"] /\ counter_' = counter_
          /\ head_' = head_ /\ tail_' = tail_ /\ next' = next /\ head_[wait_queue_] = nullptr
      BY <1>5 DEF Drained, Release, Goto, listVars, IsEmpty
    <2>2. pc'[w] = "pop" /\ \A y \in Procs : y # w => pc'[y] = pc[y]
      BY <1>1, <2>1 DEF RInv, GInv, GroupTypes
    <2>3. QueueStays
      BY <2>1, SameLists
    <2>4. \A p \in Waiters : pc'[p] = pc[p] /\ (Joined(p)' <=> Joined(p))
      BY <1>1, <2>1, <2>2, <2>3 DEF QueueStays, Queue, Joined, Procs
    <2>5. QueueRight'
      BY <2>1, <2>2, <2>4 DEF QueueRight, RInv, Draining, Procs
    <2>6. \A p \in Waiters : Phase(p)' = Phase(p)
      BY <2>4 DEF Phase, Parked
    <2> QED BY <2>1, <2>5, <2>6, NobodyMoves DEF Kept, RInv
  <1>6. CASE WakeThread(w) \/ Notify(w)
    <2>1. /\ pc[w] \in {"wake", "notify"} /\ counter_' = counter_
          /\ head_' = head_ /\ tail_' = tail_ /\ next' = next
          /\ \E l \in {"notify", "pop"} : pc' = [pc EXCEPT ![w] = l]
      BY <1>6 DEF WakeThread, Notify, Goto, listVars
    <2>2. PICK l \in {"notify", "pop"} : pc' = [pc EXCEPT ![w] = l]
      BY <2>1
    <2> QED BY <2>1, <2>2, SameLists, WorkerQuiet DEF Draining
  <1> QED BY <1>2, <1>3, <1>4, <1>5, <1>6, AddRefines, DoneRefines, TakeRefines, PutRefines, PopRefines,
             WakeFiberRefines DEF WorkStep

\* The waiter joins under the lock that it took to look at the counter.
LEMMA PushRefines == ASSUME RInv, GInv', NEW p \in Waiters, Push(p) PROVE Kept
  <1>1. pc[p] = "push" /\ pc' = [pc EXCEPT ![p] = "publish"] /\ counter_' = counter_ /\ PushBack(wait_queue_, p)
    BY DEF Push, Goto
  <1>2. p \in Procs /\ p \notin Workers
    BY SpinlockWaitGroupAssumption DEF Procs
  <1>3. pc'[p] = "publish" /\ \A y \in Procs : y # p => pc'[y] = pc[y]
    BY <1>1, <1>2 DEF RInv, GInv, GroupTypes
  <1>4. /\ head_'[wait_queue_] # nullptr /\ tail_'[wait_queue_] = p /\ Queue(p)'
        /\ \A n \in Waiters : n # p => (Queue(n)' <=> Queue(n))
    BY <1>1, PushReaches
  <1>5. counter_ > 0 /\ counter_ # 0
    BY <1>1 DEF RInv, QueueRight, GInv, TypeOK
  <1>6. \A v \in Workers : Draining(v)' <=> Draining(v)
    BY <1>2, <1>3 DEF Draining, Procs
  <1>7. QueueRight'
    <2>1. Queue(tail_[wait_queue_])'
      BY <1>4 DEF Queue, IsIn, IsEmpty
    <2> QED BY <1>1, <1>2, <1>3, <1>5, <1>6, <2>1 DEF QueueRight, RInv, Procs
  <1>8. Phase(p) = "called" /\ Phase(p)' = "joined"
    BY <1>1, <1>3, <1>4, <1>5 DEF Phase, Parked, Joined, Queue
  <1>9. \A q \in Waiters : q # p => Phase(q)' = Phase(q)
    BY <1>1, <1>3, <1>4 DEF Phase, Parked, Joined, Queue, Procs
  <1>10. Promise!Move(p, "called", "joined")
    BY <1>1, <1>8, <1>9, OneMoves
  <1> QED BY <1>5, <1>7, <1>10 DEF Kept, RInv, Promise!Next, Promise!Join

\* What a waiter does: it is called, sees a zero or joins, and returns once released.
LEMMA WaiterRefines ==
  ASSUME RInv, GInv', NEW p \in Waiters, Wait(p) \/ WaitStep(p)
  PROVE  Kept
  <1>1. CASE Wait(p)
    <2>1. /\ pc[p] = "idle" /\ pc' = [pc EXCEPT ![p] = "lock"] /\ counter_' = counter_
          /\ head_' = head_ /\ tail_' = tail_ /\ next' = next
      BY <1>1 DEF Wait, Call, Goto, listVars
    <2>2. RInv' /\ pc'[p] = "lock" /\ \A q \in Waiters : q # p => Phase(q)' = Phase(q)
      BY <2>1, QuietWaiter
    <2>3. Promise!Move(p, "out", "called")
      <3>1. Phase(p) = "out" /\ Phase(p)' = "called"
        BY <2>1, <2>2 DEF Phase, Parked
      <3> QED BY <2>1, <2>2, <3>1, OneMoves
    <2> QED BY <2>2, <2>3 DEF Kept, Promise!Next, Promise!Call
  <1>2. CASE LockStep(p)
    <2>1. /\ pc[p] \in {"lock", "spin"} /\ counter_' = counter_
          /\ head_' = head_ /\ tail_' = tail_ /\ next' = next
          /\ \E l \in {"wait", "spin", "lock"} : pc' = [pc EXCEPT ![p] = l]
      <3>1. pc[p] \in {"lock", "spin"} => op[p] = "wait"
        BY DEF RInv, GInv, LabelsRight
      <3> QED BY <1>2, <3>1 DEF LockStep, Lock, Spin, Goto, listVars
    <2>2. PICK l \in {"wait", "spin", "lock"} : pc' = [pc EXCEPT ![p] = l]
      BY <2>1
    <2>3. RInv' /\ pc'[p] = l /\ \A q \in Waiters : q # p => Phase(q)' = Phase(q)
      BY <2>1, <2>2, QuietWaiter
    <2>4. Phase(p)' = Phase(p)
      BY <2>1, <2>3 DEF Phase, Parked
    <2> QED BY <2>1, <2>3, <2>4, NobodyMoves DEF Kept
  <1>3. CASE Test(p)
    <2>1. /\ pc[p] = "wait" /\ pc' = [pc EXCEPT ![p] = IF counter_ = 0 THEN "leave" ELSE "push"]
          /\ counter_' = counter_ /\ head_' = head_ /\ tail_' = tail_ /\ next' = next
      BY <1>3 DEF Test, Goto, listVars
    <2>2. counter_ # 0 => counter_ > 0
      BY DEF RInv, GInv, TypeOK
    <2>3. /\ RInv' /\ pc'[p] = (IF counter_ = 0 THEN "leave" ELSE "push")
          /\ \A q \in Waiters : q # p => Phase(q)' = Phase(q)
      BY <2>1, <2>2, QuietWaiter
    <2>4. CASE counter_ = 0
      <3>1. Phase(p) = "called" /\ Phase(p)' = "released"
        BY <2>1, <2>3, <2>4 DEF Phase, Parked
      <3>2. Promise!Move(p, "called", "released")
        BY <2>1, <2>3, <3>1, OneMoves
      <3> QED BY <2>3, <2>4, <3>2 DEF Kept, Promise!Next, Promise!Observe
    <2>5. CASE counter_ # 0
      <3>1. Phase(p)' = Phase(p)
        BY <2>1, <2>3, <2>5 DEF Phase, Parked
      <3> QED BY <2>1, <2>3, <3>1, NobodyMoves DEF Kept
    <2> QED BY <2>4, <2>5
  <1>4. CASE Leave(p) \/ Publish(p)
    <2>1. /\ counter_' = counter_ /\ head_' = head_ /\ tail_' = tail_ /\ next' = next
          /\ \/ pc[p] = "leave" /\ pc' = [pc EXCEPT ![p] = "return"]
             \/ pc[p] = "publish" /\ pc' = [pc EXCEPT ![p] = "parked"]
      BY <1>4 DEF Leave, Publish, Release, Goto, listVars
    <2>2. PICK l \in {"return", "parked"} :
             pc' = [pc EXCEPT ![p] = l] /\ pc[p] = IF l = "return" THEN "leave" ELSE "publish"
      BY <2>1
    <2>3. /\ RInv' /\ pc'[p] = l /\ \A q \in Waiters : q # p => Phase(q)' = Phase(q)
          /\ Joined(p)' <=> Joined(p)
      BY <2>1, <2>2, QuietWaiter
    <2>4. Phase(p)' = Phase(p)
      BY <2>2, <2>3 DEF Phase, Parked
    <2> QED BY <2>1, <2>3, <2>4, NobodyMoves DEF Kept
  <1>5. CASE Return(p)
    <2>1. /\ pc[p] = "return" /\ pc' = [pc EXCEPT ![p] = "idle"] /\ counter_' = counter_
          /\ head_' = head_ /\ tail_' = tail_ /\ next' = next
      BY <1>5 DEF Return, Goto, listVars
    <2>2. RInv' /\ pc'[p] = "idle" /\ \A q \in Waiters : q # p => Phase(q)' = Phase(q)
      BY <2>1, QuietWaiter
    <2>3. Promise!Move(p, "released", "out")
      <3>1. Phase(p) = "released" /\ Phase(p)' = "out"
        BY <2>1, <2>2 DEF Phase, Parked
      <3> QED BY <2>1, <2>2, <3>1, OneMoves
    <2> QED BY <2>2, <2>3 DEF Kept, Promise!Next, Promise!Return
  <1>6. CASE p \in Threads /\ Look(p)
    <2>1. /\ pc[p] = "parked" /\ pc' = [pc EXCEPT ![p] = IF IsFired(p) THEN "return" ELSE "sleep"]
          /\ counter_' = counter_ /\ head_' = head_ /\ tail_' = tail_ /\ next' = next
      BY <1>6 DEF Look, Goto, listVars
    <2>2. /\ RInv' /\ pc'[p] = (IF IsFired(p) THEN "return" ELSE "sleep")
          /\ \A q \in Waiters : q # p => Phase(q)' = Phase(q)
          /\ Joined(p)' <=> Joined(p)
      BY <2>1, QuietWaiter
    <2>3. IsFired(p) => ~ Joined(p)
      BY <1>6, JoinedUnfired DEF RInv, Unfired
    <2>4. Phase(p)' = Phase(p)
      BY <2>1, <2>2, <2>3 DEF Phase, Parked
    <2> QED BY <2>1, <2>2, <2>4, NobodyMoves DEF Kept
  <1>7. CASE p \in Threads /\ (Sleep(p) \/ Awake(p))
    <2>1. /\ Parked(p) /\ counter_' = counter_ /\ head_' = head_ /\ tail_' = tail_ /\ next' = next
          /\ \E l \in {"parked", "asleep"} : pc' = [pc EXCEPT ![p] = l]
      BY <1>7 DEF Sleep, Awake, Goto, listVars, Parked
    <2>2. PICK l \in {"parked", "asleep"} : pc' = [pc EXCEPT ![p] = l]
      BY <2>1
    <2>3. /\ RInv' /\ pc'[p] = l /\ \A q \in Waiters : q # p => Phase(q)' = Phase(q)
          /\ Joined(p)' <=> Joined(p)
      BY <2>1, <2>2, QuietWaiter
    <2>4. Phase(p)' = Phase(p)
      BY <2>1, <2>3 DEF Phase, Parked
    <2> QED BY <2>1, <2>3, <2>4, NobodyMoves DEF Kept
  <1> QED BY <1>1, <1>2, <1>3, <1>4, <1>5, <1>6, <1>7, PushRefines DEF WaitStep

\* Every step of the group, and none.
LEMMA GroupRefines == ASSUME RInv, GInv', [Next]_vars PROVE Kept
  <1>1. ASSUME pc' = pc, counter_' = counter_, head_' = head_, tail_' = tail_, next' = next PROVE Kept
    <2>1. QueueStays
      BY <1>1, SameLists
    <2> QED BY <1>1, <2>1, QuietWorker DEF Draining, Kept
  <1>2. CASE UNCHANGED vars
    BY <1>1, <1>2 DEF vars, listVars
  <1>3. ASSUME NEW t \in Threads, Interrupt(t) PROVE Kept
    BY <1>1, <1>3 DEF Interrupt, listVars
  <1> QED BY <1>2, <1>3, WorkerRefines, WaiterRefines DEF Next

\* The calls of the group are those of WaitGroupSpec: a call of Wait returns only if the
\* counter was zero at some moment of it, and the Done that brings it to zero releases
\* everyone in wait_queue_, before the first of them is woken (WaitGroup.cpp 9-38).
THEOREM GroupKeepsPromise == MCSpec => Promise!Spec
  <1> DEFINE Still == subject # "wait group" => counter_ = 0 /\ \A p \in Waiters : pc[p] = "idle"
             I == (subject = "wait group" => RInv) /\ Still
  <1>1. MCInit => I /\ Promise!Init
    <2> SUFFICES ASSUME MCInit PROVE I /\ Promise!Init
      OBVIOUS
    <2>1. /\ Init /\ \A p \in Waiters : pc[p] = "idle"
      BY DEF MCInit, Init, Procs
    <2>2. \A w \in Workers : pc[w] = "idle"
      BY DEF MCInit, Init, Procs
    <2>3. wait_queue_ \in Lists
      BY SpinlockWaitGroupAssumption
    <2>4. QueueRight
      BY <2>1, <2>2, <2>3 DEF QueueRight, Draining, Init, ListsInit
    <2>5. \A p \in Waiters : Phase(p) = "out"
      BY <2>1 DEF Phase, Parked
    <2> QED BY <2>1, <2>4, <2>5, GroupInit DEF RInv, Init, Promise!Init
  <1>2. I /\ [MCNext]_all => I' /\ [Promise!Next]_(Promise!vars)
    <2> SUFFICES ASSUME I, [MCNext]_all PROVE I' /\ (Promise!Next \/ UNCHANGED Promise!vars)
      OBVIOUS
    <2>1. subject' = subject
      BY DEF MCNext, EventStep, GroupStep, ListStep, choice, all
    <2>2. CASE subject = "wait group"
      <3>1. [Next]_vars
        BY <2>2 DEF MCNext, EventStep, GroupStep, ListStep, choice, all
      <3>2. GInv'
        BY <2>2, <3>1, GroupNext DEF RInv
      <3> QED BY <2>1, <2>2, <3>1, <3>2, GroupRefines DEF Kept
    <2>3. CASE subject # "wait group"
      <3>1. counter_' = counter_ /\ pc' = pc
        BY <2>3 DEF MCNext, EventStep, GroupStep, ListStep, vars, all
      <3>2. \A p \in Waiters : Phase(p)' = Phase(p)
        BY <2>3, <3>1 DEF Phase, Parked
      <3> QED BY <2>1, <2>3, <3>1, <3>2, NobodyMoves
    <2> QED BY <2>2, <2>3
  <1> QED BY <1>1, <1>2, PTL DEF MCSpec, Promise!Spec

-----------------------------------------------------------------------------
\* The lists are sequences.

ListTypes ==
    /\ head_ \in [Lists -> Nodes \union {nullptr}]
    /\ tail_ \in [Lists -> Nodes \union {nullptr}]
    /\ size_ \in [Lists -> Nat]
    /\ next \in [Nodes -> Nodes \union {nullptr}]

\* The representation of l is that of the sequence s.
Spelled(l, s) ==
    /\ size_[l] = Len(s)
    /\ head_[l] = IF s = <<>> THEN nullptr ELSE s[1]
    /\ s # <<>> => tail_[l] = s[Len(s)]
    /\ \A i \in 1 .. Len(s) : next[s[i]] = IF i = Len(s) THEN nullptr ELSE s[i + 1]

InSeqs(n, sq) == \E l \in Lists : \E i \in 1 .. Len(sq[l]) : sq[l][i] = n

\* A node is in one list, once.
Apart(sq) ==
    \A l, m \in Lists : \A i \in 1 .. Len(sq[l]), j \in 1 .. Len(sq[m]) :
        sq[l][i] = sq[m][j] => l = m /\ i = j

\* PushFront on an empty list depends on it.
RestIsReset(sq) == \A n \in Nodes : ~ InSeqs(n, sq) => next[n] = nullptr

Spells(sq) ==
    /\ sq \in [Lists -> Seq(Nodes)]
    /\ \A l \in Lists : Spelled(l, sq[l])
    /\ Apart(sq)
    /\ RestIsReset(sq)

SpellsInv == ListTypes /\ \E sq : Spells(sq)

LEMMA LeastNumber ==
  ASSUME NEW M, M \subseteq Nat, M # {}
  PROVE  \E m \in M : \A k \in M : m <= k
  <1> DEFINE O == StrictSubsetOrdering(Nat)
             S == FiniteSubsetsOf(Nat)
             T == {1 .. m : m \in M}
  <1>1. IsWellFoundedOn(O, S)
    BY FS_StrictSubsetOrderingWellFounded
  <1>2. T \subseteq S /\ T # {}
    <2>1. \A m \in M : IsFiniteSet(1 .. m) /\ 1 .. m \subseteq Nat
      BY FS_Interval
    <2> QED BY <2>1 DEF FiniteSubsetsOf
  <1>3. \E x \in T : \A y \in T : <<y, x>> \notin O
    <2> HIDE DEF O, S, T
    <2> QED BY <1>1, <1>2, WFMin
  <1>4. PICK m \in M : \A k \in M : <<1 .. k, 1 .. m>> \notin O
    BY <1>3
  <1>5. \A k \in M : m <= k
    <2> SUFFICES ASSUME NEW k \in M, k < m PROVE FALSE
      OBVIOUS
    <2>1. 1 .. k \subseteq 1 .. m /\ 1 .. k # 1 .. m
      <3>1. m \in 1 .. m /\ m \notin 1 .. k
        OBVIOUS
      <3> QED BY <3>1
    <2>2. <<1 .. k, 1 .. m>> \in O
      BY <2>1 DEF StrictSubsetOrdering
    <2> QED BY <1>4, <2>2
  <1> QED BY <1>5

\* Where a new node is put in front or at the back.
LEMMA SeqsWith ==
  ASSUME NEW sq \in [Lists -> Seq(Nodes)], NEW l \in Lists, NEW s \in Seq(Nodes)
  PROVE  /\ [sq EXCEPT ![l] = s] \in [Lists -> Seq(Nodes)]
         /\ [sq EXCEPT ![l] = s][l] = s
         /\ \A m \in Lists : m # l => [sq EXCEPT ![l] = s][m] = sq[m]
  OBVIOUS

LEMMA PushBackSpells ==
  ASSUME ListTypes, NEW sq, Spells(sq), NEW l \in Lists, NEW n \in Nodes, ~ InSeqs(n, sq),
         PushBack(l, n)
  PROVE  ListTypes' /\ Spells([sq EXCEPT ![l] = Append(@, n)])'
  <1>0. nullptr \notin Nodes /\ sq \in [Lists -> Seq(Nodes)]
    BY ListsAssumption DEF Spells
  <1>1. PICK s \in Seq(Nodes) : s = sq[l]
    BY <1>0
  <1>2. PICK s2 \in Seq(Nodes) : s2 = Append(s, n)
    <2>1. Append(s, n) \in Seq(Nodes)
      OBVIOUS
    <2> QED BY <2>1
  <1>3. /\ Len(s) \in Nat /\ Len(s2) = Len(s) + 1 /\ s2[Len(s2)] = n /\ s2 # <<>>
        /\ \A i \in 1 .. Len(s) : s2[i] = s[i] /\ s[i] \in Nodes
        /\ s = <<>> <=> Len(s) = 0
    BY <1>2
  <1>4. PICK sq2 : sq2 = [sq EXCEPT ![l] = s2]
    OBVIOUS
  <1>5. /\ sq2 \in [Lists -> Seq(Nodes)] /\ sq2[l] = s2
        /\ \A m \in Lists : m # l => sq2[m] = sq[m]
    BY <1>0, <1>4, SeqsWith
  <1>6. /\ \A m \in Lists : m # l => head_'[m] = head_[m] /\ tail_'[m] = tail_[m] /\ size_'[m] = size_[m]
        /\ head_'[l] = IF s = <<>> THEN n ELSE head_[l]
        /\ tail_'[l] = n /\ size_'[l] = size_[l] + 1
        /\ \A m \in Nodes : next'[m] = IF m = n THEN nullptr
                                       ELSE IF m = tail_[l] /\ s # <<>> THEN n ELSE next[m]
    <2>1. IsEmpty(l) <=> s = <<>>
      BY <1>0, <1>1, <1>3 DEF Spells, Spelled, IsEmpty
    <2> QED BY <2>1 DEF PushBack, ListTypes
  <1>7. ListTypes'
    BY DEF ListTypes, PushBack
  <1>8. \A m \in Lists : \A i \in 1 .. Len(sq[m]) : sq[m][i] \in Nodes /\ sq[m][i] # n
    BY <1>0 DEF InSeqs
  <1>9. Spelled(l, s)
    BY <1>1 DEF Spells
  <1>10. Spelled(l, s2)'
    <2>1. head_'[l] = s2[1]
      BY <1>3, <1>6, <1>9 DEF Spelled
    <2>2. ASSUME NEW i \in 1 .. Len(s2)
          PROVE  next'[s2[i]] = IF i = Len(s2) THEN nullptr ELSE s2[i + 1]
      <3>1. CASE i = Len(s2)
        BY <1>3, <1>6, <3>1
      <3>2. CASE i = Len(s)
        <4>1. s[i] = tail_[l] /\ s # <<>> /\ s2[i] = s[i] /\ s2[i + 1] = n
          BY <1>3, <1>9, <3>2 DEF Spelled
        <4>2. s[i] # n /\ s[i] \in Nodes
          BY <1>1, <1>8, <1>3, <3>2
        <4> QED BY <1>3, <1>6, <3>2, <4>1, <4>2
      <3>3. CASE i < Len(s)
        <4>1. i \in 1 .. Len(s) /\ i + 1 \in 1 .. Len(s) /\ Len(s) \in 1 .. Len(s)
          BY <1>3, <3>3
        <4>2. s2[i] = s[i] /\ s2[i + 1] = s[i + 1] /\ s # <<>> /\ s[i] \in Nodes /\ s[i] # n
          BY <1>1, <1>3, <1>8, <4>1
        <4>3. s[i] # tail_[l]
          <5>1. tail_[l] = s[Len(s)]
            BY <1>9, <4>2 DEF Spelled
          <5> QED BY <1>1, <3>3, <4>1, <5>1 DEF Spells, Apart
        <4>4. next[s[i]] = s[i + 1]
          BY <1>9, <3>3, <4>1 DEF Spelled
        <4> QED BY <1>3, <1>6, <3>3, <4>2, <4>3, <4>4
      <3> QED BY <1>3, <3>1, <3>2, <3>3
    <2> QED BY <1>3, <1>6, <1>9, <2>1, <2>2 DEF Spelled
  <1>11. ASSUME NEW m \in Lists, m # l PROVE Spelled(m, sq[m])'
    <2>1. Spelled(m, sq[m])
      BY DEF Spells
    <2>2. \A i \in 1 .. Len(sq[m]) : next'[sq[m][i]] = next[sq[m][i]]
      <3> SUFFICES ASSUME NEW i \in 1 .. Len(sq[m]) PROVE next'[sq[m][i]] = next[sq[m][i]]
        OBVIOUS
      <3>1. sq[m][i] \in Nodes /\ sq[m][i] # n
        BY <1>8
      <3>2. s # <<>> => sq[m][i] # tail_[l]
        <4> SUFFICES ASSUME s # <<>> PROVE sq[m][i] # tail_[l]
          OBVIOUS
        <4>1. tail_[l] = s[Len(s)] /\ Len(s) \in 1 .. Len(s)
          BY <1>3, <1>9 DEF Spelled
        <4> QED BY <1>1, <1>11, <4>1 DEF Spells, Apart
      <3> QED BY <1>6, <3>1, <3>2
    <2> QED BY <1>6, <1>11, <2>1, <2>2 DEF Spelled
  <1>12. Apart(sq2)
    <2> SUFFICES ASSUME NEW a \in Lists, NEW b \in Lists, NEW i \in 1 .. Len(sq2[a]), NEW j \in 1 .. Len(sq2[b]),
                        sq2[a][i] = sq2[b][j]
                 PROVE  a = b /\ i = j
      BY DEF Apart
    <2>1. ASSUME NEW c \in Lists, NEW k \in 1 .. Len(sq2[c])
          PROVE  (c = l /\ k = Len(s2)) \/ (k \in 1 .. Len(sq[c]) /\ sq2[c][k] = sq[c][k])
      <3>1. CASE c = l
        BY <1>1, <1>3, <1>5, <3>1
      <3>2. CASE c # l
        BY <1>5, <3>2
      <3> QED BY <3>1, <3>2
    <2>2. CASE i \in 1 .. Len(sq[a]) /\ sq2[a][i] = sq[a][i] /\ j \in 1 .. Len(sq[b]) /\ sq2[b][j] = sq[b][j]
      <3>1. sq[a][i] = sq[b][j]
        BY <2>2
      <3> QED BY <2>2, <3>1 DEF Spells, Apart
    <2> QED BY <1>3, <1>5, <1>8, <2>1, <2>2
  <1>13. RestIsReset(sq2)'
    <2> SUFFICES ASSUME NEW m \in Nodes, ~ InSeqs(m, sq2) PROVE next'[m] = nullptr
      BY DEF RestIsReset, InSeqs
    <2>1. ~ InSeqs(m, sq) /\ m # n
      <3>1. m # n
        BY <1>3, <1>5 DEF InSeqs
      <3>2. ASSUME NEW a \in Lists, NEW i \in 1 .. Len(sq[a]), sq[a][i] = m PROVE FALSE
        <4>1. i \in 1 .. Len(sq2[a]) /\ sq2[a][i] = m
          <5>1. CASE a = l
            <6>1. i \in 1 .. Len(s2) /\ s2[i] = s[i]
              BY <1>1, <1>3, <3>2, <5>1
            <6> QED BY <1>1, <1>5, <3>2, <5>1, <6>1
          <5>2. CASE a # l
            BY <1>5, <3>2, <5>2
          <5> QED BY <5>1, <5>2
        <4> QED BY <4>1 DEF InSeqs
      <3> QED BY <3>1, <3>2 DEF InSeqs
    <2>2. s # <<>> => m # tail_[l]
      <3> SUFFICES ASSUME s # <<>> PROVE m # tail_[l]
        OBVIOUS
      <3>1. tail_[l] = s[Len(s)] /\ Len(s) \in 1 .. Len(s)
        BY <1>3, <1>9 DEF Spelled
      <3> QED BY <1>1, <2>1, <3>1 DEF InSeqs
    <2>3. next[m] = nullptr
      BY <2>1 DEF Spells, RestIsReset
    <2> QED BY <1>6, <2>1, <2>2, <2>3
  <1>14. Spells(sq2)'
    <2>1. ASSUME NEW m \in Lists PROVE Spelled(m, sq2[m])'
      <3>1. CASE m = l
        <4>1. sq2[m] = s2
          BY <1>5, <3>1
        <4> QED BY <1>10, <3>1, <4>1 DEF Spelled
      <3>2. CASE m # l
        <4>1. sq2[m] = sq[m]
          BY <1>5, <3>2
        <4> QED BY <1>11, <3>2, <4>1 DEF Spelled
      <3> QED BY <3>1, <3>2
    <2> QED BY <1>5, <1>12, <1>13, <2>1 DEF Spells
  <1>15. sq2 = [sq EXCEPT ![l] = Append(@, n)]
    BY <1>1, <1>2, <1>4
  <1> QED BY <1>7, <1>14, <1>15

LEMMA PushFrontSpells ==
  ASSUME ListTypes, NEW sq, Spells(sq), NEW l \in Lists, NEW n \in Nodes, ~ InSeqs(n, sq),
         PushFront(l, n)
  PROVE  ListTypes' /\ Spells([sq EXCEPT ![l] = <<n>> \o @])'
  <1>0. nullptr \notin Nodes /\ sq \in [Lists -> Seq(Nodes)]
    BY ListsAssumption DEF Spells
  <1>1. PICK s \in Seq(Nodes) : s = sq[l]
    BY <1>0
  <1>2. PICK s2 \in Seq(Nodes) : s2 = <<n>> \o s
    <2>1. <<n>> \o s \in Seq(Nodes)
      OBVIOUS
    <2> QED BY <2>1
  <1>3. /\ Len(s) \in Nat /\ Len(s2) = Len(s) + 1 /\ s2[1] = n /\ s2 # <<>>
        /\ \A i \in 1 .. Len(s) : s2[i + 1] = s[i] /\ s[i] \in Nodes
        /\ s = <<>> <=> Len(s) = 0
    BY <1>2
  <1>4. PICK sq2 : sq2 = [sq EXCEPT ![l] = s2]
    OBVIOUS
  <1>5. /\ sq2 \in [Lists -> Seq(Nodes)] /\ sq2[l] = s2
        /\ \A m \in Lists : m # l => sq2[m] = sq[m]
    BY <1>0, <1>4, SeqsWith
  <1>6. /\ \A m \in Lists : m # l => head_'[m] = head_[m] /\ tail_'[m] = tail_[m] /\ size_'[m] = size_[m]
        /\ head_'[l] = n /\ size_'[l] = size_[l] + 1
        /\ tail_'[l] = IF s = <<>> THEN n ELSE tail_[l]
        /\ \A m \in Nodes : next'[m] = IF m = n /\ s # <<>> THEN head_[l] ELSE next[m]
    <2>1. IsEmpty(l) <=> s = <<>>
      BY <1>0, <1>1, <1>3 DEF Spells, Spelled, IsEmpty
    <2> QED BY <2>1 DEF PushFront, ListTypes
  <1>7. ListTypes'
    BY DEF ListTypes, PushFront
  <1>8. \A m \in Lists : \A i \in 1 .. Len(sq[m]) : sq[m][i] \in Nodes /\ sq[m][i] # n
    BY <1>0 DEF InSeqs
  <1>9. Spelled(l, s) /\ next[n] = nullptr
    BY <1>1 DEF Spells, RestIsReset
  <1>10. Spelled(l, s2)'
    <2>1. s # <<>> => tail_'[l] = s2[Len(s2)]
      <3>1. s # <<>> => tail_[l] = s[Len(s)] /\ Len(s) \in 1 .. Len(s)
        BY <1>3, <1>9 DEF Spelled
      <3> QED BY <1>3, <1>6, <3>1
    <2>2. ASSUME NEW i \in 1 .. Len(s2)
          PROVE  next'[s2[i]] = IF i = Len(s2) THEN nullptr ELSE s2[i + 1]
      <3>1. CASE i = 1 /\ s = <<>>
        BY <1>3, <1>6, <1>9, <3>1
      <3>2. CASE i = 1 /\ s # <<>>
        <4>1. head_[l] = s[1] /\ s2[2] = s[1]
          BY <1>3, <1>9, <3>2 DEF Spelled
        <4> QED BY <1>3, <1>6, <3>2, <4>1
      <3>3. CASE i > 1
        <4>1. PICK j \in 1 .. Len(s) : i = j + 1
          BY <1>3, <3>3
        <4>2. s2[i] = s[j] /\ s[j] \in Nodes /\ s[j] # n
          BY <1>1, <1>3, <1>8, <4>1
        <4>3. next'[s[j]] = IF j = Len(s) THEN nullptr ELSE s[j + 1]
          BY <1>6, <1>9, <4>2 DEF Spelled
        <4>4. j # Len(s) => s2[i + 1] = s[j + 1]
          BY <1>3, <4>1
        <4> QED BY <1>3, <4>1, <4>2, <4>3, <4>4
      <3> QED BY <1>3, <3>1, <3>2, <3>3
    <2> QED BY <1>3, <1>6, <1>9, <2>1, <2>2 DEF Spelled
  <1>11. ASSUME NEW m \in Lists, m # l PROVE Spelled(m, sq[m])'
    <2>1. Spelled(m, sq[m])
      BY DEF Spells
    <2>2. \A i \in 1 .. Len(sq[m]) : next'[sq[m][i]] = next[sq[m][i]]
      BY <1>6, <1>8
    <2> QED BY <1>6, <1>11, <2>1, <2>2 DEF Spelled
  <1>12. ASSUME NEW c \in Lists, NEW k \in 1 .. Len(sq2[c])
         PROVE  \/ c = l /\ k = 1 /\ sq2[c][k] = n
                \/ \E h \in 1 .. Len(sq[c]) : sq2[c][k] = sq[c][h] /\ k = IF c = l THEN h + 1 ELSE h
    <2>1. CASE c = l
      <3>1. CASE k = 1
        BY <1>3, <1>5, <2>1, <3>1
      <3>2. CASE k # 1
        <4>1. PICK h \in 1 .. Len(s) : k = h + 1
          <5>1. k - 1 \in 1 .. Len(s) /\ k = (k - 1) + 1
            BY <1>3, <1>5, <2>1, <3>2
          <5> QED BY <5>1
        <4>2. s2[k] = s[h]
          BY <1>3, <4>1
        <4> QED BY <1>1, <1>5, <2>1, <4>1, <4>2
      <3> QED BY <3>1, <3>2
    <2>2. CASE c # l
      BY <1>5, <2>2
    <2> QED BY <2>1, <2>2
  <1>13. Apart(sq2)
    <2> SUFFICES ASSUME NEW a \in Lists, NEW b \in Lists, NEW i \in 1 .. Len(sq2[a]), NEW j \in 1 .. Len(sq2[b]),
                        sq2[a][i] = sq2[b][j]
                 PROVE  a = b /\ i = j
      BY DEF Apart
    <2>1. \/ a = l /\ i = 1 /\ sq2[a][i] = n
          \/ \E h \in 1 .. Len(sq[a]) : sq2[a][i] = sq[a][h] /\ i = IF a = l THEN h + 1 ELSE h
      BY <1>12
    <2>2. \/ b = l /\ j = 1 /\ sq2[b][j] = n
          \/ \E h \in 1 .. Len(sq[b]) : sq2[b][j] = sq[b][h] /\ j = IF b = l THEN h + 1 ELSE h
      BY <1>12
    <2>3. CASE sq2[a][i] = n
      <3>1. a = l /\ i = 1
        BY <1>8, <2>1, <2>3
      <3>2. b = l /\ j = 1
        BY <1>8, <2>2, <2>3
      <3> QED BY <3>1, <3>2
    <2>4. CASE sq2[a][i] # n
      <3>1. PICK g \in 1 .. Len(sq[a]) : sq2[a][i] = sq[a][g] /\ i = IF a = l THEN g + 1 ELSE g
        BY <2>1, <2>4
      <3>2. PICK h \in 1 .. Len(sq[b]) : sq2[b][j] = sq[b][h] /\ j = IF b = l THEN h + 1 ELSE h
        BY <2>2, <2>4
      <3>3. sq[a][g] = sq[b][h]
        BY <3>1, <3>2
      <3>4. a = b /\ g = h
        BY <3>3 DEF Spells, Apart
      <3> QED BY <3>1, <3>2, <3>4
    <2> QED BY <2>3, <2>4
  <1>14. RestIsReset(sq2)'
    <2> SUFFICES ASSUME NEW m \in Nodes, ~ InSeqs(m, sq2) PROVE next'[m] = nullptr
      BY DEF RestIsReset, InSeqs
    <2>1. m # n
      BY <1>3, <1>5 DEF InSeqs
    <2>2. ASSUME NEW a \in Lists, NEW i \in 1 .. Len(sq[a]), sq[a][i] = m PROVE FALSE
      <3>1. CASE a = l
        <4>1. i + 1 \in 1 .. Len(sq2[a]) /\ sq2[a][i + 1] = m
          BY <1>1, <1>3, <1>5, <2>2, <3>1
        <4> QED BY <4>1 DEF InSeqs
      <3>2. CASE a # l
        BY <1>5, <2>2, <3>2 DEF InSeqs
      <3> QED BY <3>1, <3>2
    <2>3. next[m] = nullptr
      BY <2>2 DEF Spells, RestIsReset, InSeqs
    <2> QED BY <1>6, <2>1, <2>3
  <1>15. Spells(sq2)'
    <2>1. ASSUME NEW m \in Lists PROVE Spelled(m, sq2[m])'
      <3>1. CASE m = l
        <4>1. sq2[m] = s2
          BY <1>5, <3>1
        <4> QED BY <1>10, <3>1, <4>1 DEF Spelled
      <3>2. CASE m # l
        <4>1. sq2[m] = sq[m]
          BY <1>5, <3>2
        <4> QED BY <1>11, <3>2, <4>1 DEF Spelled
      <3> QED BY <3>1, <3>2
    <2> QED BY <1>5, <1>13, <1>14, <2>1 DEF Spells
  <1>16. sq2 = [sq EXCEPT ![l] = <<n>> \o @]
    BY <1>1, <1>2, <1>4
  <1> QED BY <1>7, <1>15, <1>16

LEMMA PopFrontSpells ==
  ASSUME ListTypes, NEW sq, Spells(sq), NEW l \in Lists, PopFront(l)
  PROVE  ListTypes' /\ sq[l] # <<>> /\ Spells([sq EXCEPT ![l] = Tail(@)])'
  <1>0. nullptr \notin Nodes /\ sq \in [Lists -> Seq(Nodes)]
    BY ListsAssumption DEF Spells
  <1>1. PICK s \in Seq(Nodes) : s = sq[l]
    BY <1>0
  <1>2. Spelled(l, s) /\ s # <<>>
    BY <1>1 DEF Spells, Spelled, PopFront, IsEmpty
  <1>3. PICK s2 \in Seq(Nodes) : s2 = Tail(s)
    <2>1. Tail(s) \in Seq(Nodes)
      BY <1>2
    <2> QED BY <2>1
  <1>4. /\ Len(s) \in Nat \ {0} /\ Len(s2) = Len(s) - 1
        /\ \A i \in 1 .. Len(s2) : s2[i] = s[i + 1] /\ s2[i] \in Nodes
        /\ s2 = <<>> <=> Len(s) = 1
    <2>1. Len(s) \in Nat \ {0} /\ Len(s2) = Len(s) - 1
      BY <1>2, <1>3
    <2>2. \A i \in 1 .. Len(s2) : s2[i] = s[i + 1]
      BY <1>2, <1>3, <2>1
    <2>3. \A i \in 1 .. Len(s2) : s2[i] \in Nodes
      OBVIOUS
    <2>4. s2 = <<>> <=> Len(s2) = 0
      OBVIOUS
    <2>5. s2 = <<>> <=> Len(s) = 1
      BY <2>1, <2>4
    <2> QED BY <2>1, <2>2, <2>3, <2>5
  <1>5. PICK sq2 : sq2 = [sq EXCEPT ![l] = s2]
    OBVIOUS
  <1>6. /\ sq2 \in [Lists -> Seq(Nodes)] /\ sq2[l] = s2
        /\ \A m \in Lists : m # l => sq2[m] = sq[m]
    BY <1>0, <1>5, SeqsWith
  <1>7. /\ head_[l] = s[1] /\ s[1] \in Nodes /\ tail_[l] = s[Len(s)] /\ size_[l] = Len(s)
        /\ s[1] = s[Len(s)] <=> Len(s) = 1
    <2>1. head_[l] = s[1] /\ s[1] \in Nodes /\ tail_[l] = s[Len(s)] /\ size_[l] = Len(s)
      BY <1>2, <1>4 DEF Spelled
    <2>2. 1 \in 1 .. Len(s) /\ Len(s) \in 1 .. Len(s)
      BY <1>4
    <2> QED BY <1>1, <2>1, <2>2 DEF Spells, Apart
  <1>8. /\ \A m \in Lists : m # l => head_'[m] = head_[m] /\ tail_'[m] = tail_[m] /\ size_'[m] = size_[m]
        /\ head_'[l] = IF Len(s) = 1 THEN nullptr ELSE next[s[1]]
        /\ tail_'[l] = IF Len(s) = 1 THEN nullptr ELSE tail_[l]
        /\ size_'[l] = size_[l] - 1
        /\ \A m \in Nodes : next'[m] = IF m = s[1] THEN nullptr ELSE next[m]
    BY <1>7 DEF PopFront, ResetNext, ListTypes
  <1>9. ListTypes'
    <2>1. size_[l] - 1 \in Nat /\ next[s[1]] \in Nodes \union {nullptr}
      BY <1>4, <1>7 DEF ListTypes
    <2> QED BY <1>7, <2>1 DEF ListTypes, PopFront, ResetNext
  <1>10. \A m \in Lists : \A i \in 1 .. Len(sq[m]) : sq[m][i] \in Nodes
    BY <1>0
  <1>11. \A m \in Lists : \A i \in 1 .. Len(sq[m]) : sq[m][i] = s[1] => m = l /\ i = 1
    <2>1. 1 \in 1 .. Len(s)
      BY <1>4
    <2> QED BY <1>1, <2>1 DEF Spells, Apart
  <1>12. Spelled(l, s2)'
    <2>1. Len(s) # 1 => head_'[l] = s2[1] /\ tail_'[l] = s2[Len(s2)]
      <3> SUFFICES ASSUME Len(s) # 1 PROVE head_'[l] = s2[1] /\ tail_'[l] = s2[Len(s2)]
        OBVIOUS
      <3>1. next[s[1]] = s[2] /\ s2[1] = s[2]
        BY <1>2, <1>4 DEF Spelled
      <3>2. s2[Len(s2)] = s[Len(s)]
        BY <1>4
      <3> QED BY <1>7, <1>8, <3>1, <3>2
    <2>2. ASSUME NEW i \in 1 .. Len(s2)
          PROVE  next'[s2[i]] = IF i = Len(s2) THEN nullptr ELSE s2[i + 1]
      <3>1. i + 1 \in 1 .. Len(s) /\ s2[i] = s[i + 1] /\ i + 1 # 1 /\ s2[i] \in Nodes
        BY <1>4
      <3>2. s2[i] # s[1]
        BY <1>1, <1>11, <3>1
      <3>3. next[s[i + 1]] = IF i + 1 = Len(s) THEN nullptr ELSE s[i + 1 + 1]
        BY <1>2, <3>1 DEF Spelled
      <3>4. i # Len(s2) => s2[i + 1] = s[i + 1 + 1]
        BY <1>4
      <3> QED BY <1>4, <1>8, <3>1, <3>2, <3>3, <3>4
    <2>3. size_'[l] = Len(s2) /\ head_'[l] = (IF s2 = <<>> THEN nullptr ELSE s2[1])
          /\ (s2 # <<>> => tail_'[l] = s2[Len(s2)])
      BY <1>4, <1>7, <1>8, <2>1
    <2> QED BY <2>2, <2>3 DEF Spelled
  <1>13. ASSUME NEW m \in Lists, m # l PROVE Spelled(m, sq[m])'
    <2>1. Spelled(m, sq[m])
      BY DEF Spells
    <2>2. \A i \in 1 .. Len(sq[m]) : next'[sq[m][i]] = next[sq[m][i]]
      BY <1>8, <1>10, <1>11, <1>13
    <2> QED BY <1>8, <1>13, <2>1, <2>2 DEF Spelled
  <1>14. ASSUME NEW c \in Lists, NEW k \in 1 .. Len(sq2[c])
         PROVE  \E h \in 1 .. Len(sq[c]) : sq2[c][k] = sq[c][h] /\ h = IF c = l THEN k + 1 ELSE k
    <2>1. CASE c = l
      <3>1. k + 1 \in 1 .. Len(s) /\ s2[k] = s[k + 1]
        BY <1>4, <1>6, <2>1
      <3> QED BY <1>1, <1>6, <2>1, <3>1
    <2>2. CASE c # l
      BY <1>6, <2>2
    <2> QED BY <2>1, <2>2
  <1>15. Apart(sq2)
    <2> SUFFICES ASSUME NEW a \in Lists, NEW b \in Lists, NEW i \in 1 .. Len(sq2[a]), NEW j \in 1 .. Len(sq2[b]),
                        sq2[a][i] = sq2[b][j]
                 PROVE  a = b /\ i = j
      BY DEF Apart
    <2>1. PICK g \in 1 .. Len(sq[a]) : sq2[a][i] = sq[a][g] /\ g = IF a = l THEN i + 1 ELSE i
      BY <1>14
    <2>2. PICK h \in 1 .. Len(sq[b]) : sq2[b][j] = sq[b][h] /\ h = IF b = l THEN j + 1 ELSE j
      BY <1>14
    <2>3. sq[a][g] = sq[b][h]
      BY <2>1, <2>2
    <2>4. a = b /\ g = h
      BY <2>3 DEF Spells, Apart
    <2>5. i \in Int /\ j \in Int
      BY <1>6
    <2> QED BY <2>1, <2>2, <2>4, <2>5
  <1>16. RestIsReset(sq2)'
    <2> SUFFICES ASSUME NEW m \in Nodes, ~ InSeqs(m, sq2) PROVE next'[m] = nullptr
      BY DEF RestIsReset, InSeqs
    <2>1. CASE m = s[1]
      BY <1>8, <2>1
    <2>2. CASE m # s[1]
      <3>1. ASSUME NEW a \in Lists, NEW i \in 1 .. Len(sq[a]), sq[a][i] = m PROVE FALSE
        <4>1. CASE a = l
          <5>1. i # 1 /\ i \in Nat
            BY <1>1, <2>2, <3>1, <4>1
          <5>2. i - 1 \in 1 .. Len(s2)
            BY <1>1, <1>4, <4>1, <5>1
          <5>3. s2[i - 1] = s[i - 1 + 1] /\ i - 1 + 1 = i
            BY <1>4, <5>1, <5>2
          <5> QED BY <1>1, <1>6, <3>1, <4>1, <5>2, <5>3 DEF InSeqs
        <4>2. CASE a # l
          BY <1>6, <3>1, <4>2 DEF InSeqs
        <4> QED BY <4>1, <4>2
      <3>2. next[m] = nullptr
        BY <3>1 DEF Spells, RestIsReset, InSeqs
      <3> QED BY <1>8, <2>2, <3>2
    <2> QED BY <2>1, <2>2
  <1>17. Spells(sq2)'
    <2>1. ASSUME NEW m \in Lists PROVE Spelled(m, sq2[m])'
      <3>1. CASE m = l
        <4>1. sq2[m] = s2
          BY <1>6, <3>1
        <4> QED BY <1>12, <3>1, <4>1 DEF Spelled
      <3>2. CASE m # l
        <4>1. sq2[m] = sq[m]
          BY <1>6, <3>2
        <4> QED BY <1>13, <3>2, <4>1 DEF Spelled
      <3> QED BY <3>1, <3>2
    <2> QED BY <1>6, <1>15, <1>16, <2>1 DEF Spells
  <1>18. sq2 = [sq EXCEPT ![l] = Tail(@)]
    BY <1>1, <1>3, <1>5
  <1> QED BY <1>1, <1>2, <1>9, <1>17, <1>18

LEMMA SpliceSpells ==
  ASSUME ListTypes, NEW sq, Spells(sq), NEW l \in Lists, NEW m \in Lists, l # m,
         ListAppend(l, m) \/ (IsEmpty(l) /\ MoveConstruct(l, m))
  PROVE  ListTypes' /\ Spells([sq EXCEPT ![l] = @ \o sq[m], ![m] = <<>>])'
  <1>0. nullptr \notin Nodes /\ sq \in [Lists -> Seq(Nodes)]
    BY ListsAssumption DEF Spells
  <1>1. PICK s \in Seq(Nodes) : s = sq[l]
    BY <1>0
  <1>2. PICK r \in Seq(Nodes) : r = sq[m]
    BY <1>0
  <1>3. PICK s2 \in Seq(Nodes) : s2 = s \o r
    <2>1. s \o r \in Seq(Nodes)
      OBVIOUS
    <2> QED BY <2>1
  <1>4. /\ Len(s) \in Nat /\ Len(r) \in Nat /\ Len(s2) = Len(s) + Len(r)
        /\ \A i \in 1 .. Len(s) : s2[i] = s[i] /\ s[i] \in Nodes
        /\ \A i \in 1 .. Len(r) : s2[Len(s) + i] = r[i] /\ r[i] \in Nodes
    BY <1>3
  <1>5. (s = <<>> <=> Len(s) = 0) /\ (r = <<>> <=> Len(r) = 0) /\ (s2 = <<>> <=> Len(s2) = 0)
    OBVIOUS
  <1>6. PICK sq2 : sq2 = [sq EXCEPT ![l] = s2, ![m] = <<>>]
    OBVIOUS
  <1>7. /\ sq2 \in [Lists -> Seq(Nodes)] /\ sq2[l] = s2 /\ sq2[m] = <<>> /\ Len(sq2[m]) = 0
        /\ \A k \in Lists : k # l /\ k # m => sq2[k] = sq[k]
    <2>1. PICK sq1 : sq1 = [sq EXCEPT ![l] = s2]
      OBVIOUS
    <2>2. /\ sq1 \in [Lists -> Seq(Nodes)] /\ sq1[l] = s2
          /\ \A k \in Lists : k # l => sq1[k] = sq[k]
      BY <1>0, <2>1, SeqsWith
    <2>3. <<>> \in Seq(Nodes) /\ Len(<<>>) = 0
      OBVIOUS
    <2>4. sq2 = [sq1 EXCEPT ![m] = <<>>]
      BY <1>6, <2>1
    <2>5. /\ sq2 \in [Lists -> Seq(Nodes)] /\ sq2[m] = <<>>
          /\ \A k \in Lists : k # m => sq2[k] = sq1[k]
      BY <2>2, <2>3, <2>4, SeqsWith
    <2> QED BY <2>2, <2>3, <2>5
  <1>8. Spelled(l, s) /\ Spelled(m, r)
    BY <1>1, <1>2 DEF Spells
  <1>9. /\ s # <<>> => r # <<>>
        /\ (IsEmpty(l) <=> s = <<>>) /\ (IsEmpty(m) <=> r = <<>>)
    <2>1. (IsEmpty(l) <=> s = <<>>) /\ (IsEmpty(m) <=> r = <<>>)
      BY <1>0, <1>4, <1>5, <1>8 DEF Spelled, IsEmpty
    <2> QED BY <2>1 DEF ListAppend
  <1>10. /\ \A k \in Lists : k # l /\ k # m =>
               head_'[k] = head_[k] /\ tail_'[k] = tail_[k] /\ size_'[k] = size_[k]
         /\ head_'[l] = IF s = <<>> THEN head_[m] ELSE head_[l]
         /\ tail_'[l] = tail_[m] /\ size_'[l] = size_[l] + size_[m]
         /\ head_'[m] = nullptr /\ size_'[m] = 0
         /\ \A n \in Nodes : next'[n] = IF n = tail_[l] /\ s # <<>> THEN head_[m] ELSE next[n]
    <2>1. CASE s = <<>>
      <3>1. TakeOver(l, m, head_[m], size_[m]) /\ next' = next
        BY <1>9, <2>1 DEF ListAppend, MoveConstruct
      <3>2. size_[l] = 0
        BY <1>4, <1>5, <1>8, <2>1 DEF Spelled
      <3>3. size_[m] \in Nat /\ size_[l] + size_[m] = size_[m]
        BY <3>2 DEF ListTypes
      <3> QED BY <2>1, <3>1, <3>3 DEF TakeOver, ListTypes
    <2>2. CASE s # <<>>
      <3>1. TakeOver(l, m, head_[l], size_[l] + size_[m]) /\ next' = [next EXCEPT ![tail_[l]] = head_[m]]
        BY <1>9, <2>2 DEF ListAppend
      <3> QED BY <2>2, <3>1 DEF TakeOver, ListTypes
    <2> QED BY <2>1, <2>2
  <1>11. s # <<>> => tail_[l] = s[Len(s)] /\ head_[l] = s[1] /\ Len(s) \in 1 .. Len(s)
    BY <1>4, <1>5, <1>8 DEF Spelled
  <1>12. r # <<>> => tail_[m] = r[Len(r)] /\ head_[m] = r[1] /\ Len(r) \in 1 .. Len(r) /\ 1 \in 1 .. Len(r)
    BY <1>4, <1>5, <1>8 DEF Spelled
  <1>13. ListTypes'
    <2>1. CASE s = <<>>
      <3>1. TakeOver(l, m, head_[m], size_[m]) /\ next' = next
        BY <1>9, <2>1 DEF ListAppend, MoveConstruct
      <3> QED BY <3>1 DEF TakeOver, ListTypes
    <2>2. CASE s # <<>>
      <3>1. TakeOver(l, m, head_[l], size_[l] + size_[m]) /\ next' = [next EXCEPT ![tail_[l]] = head_[m]]
        BY <1>9, <2>2 DEF ListAppend
      <3>2. size_[l] + size_[m] \in Nat
        BY DEF ListTypes
      <3> QED BY <3>1, <3>2 DEF TakeOver, ListTypes
    <2> QED BY <2>1, <2>2
  <1>14. \A c, d \in Lists : \A k \in 1 .. Len(sq[c]), h \in 1 .. Len(sq[d]) :
             sq[c][k] = sq[d][h] => c = d /\ k = h
    BY DEF Spells, Apart
  <1>15. \A c \in Lists : \A k \in 1 .. Len(sq[c]) :
            /\ sq[c][k] \in Nodes
            /\ s # <<>> /\ sq[c][k] = tail_[l] => c = l /\ k = Len(s)
    BY <1>0, <1>1, <1>11, <1>14
  <1>16. Spelled(l, s2)'
    <2>1. head_'[l] = IF s2 = <<>> THEN nullptr ELSE s2[1]
      <3>1. CASE s = <<>>
        <4>1. r # <<>> => s2[1] = r[1]
          <5>1. Len(s) = 0
            BY <1>5, <3>1
          <5> QED BY <1>4, <1>12, <5>1
        <4> QED BY <1>4, <1>5, <1>8, <1>10, <3>1, <4>1 DEF Spelled
      <3>2. CASE s # <<>>
        <4>1. s2[1] = s[1] /\ s2 # <<>>
          BY <1>4, <1>5, <3>2
        <4> QED BY <1>10, <1>11, <3>2, <4>1
      <3> QED BY <3>1, <3>2
    <2>2. s2 # <<>> => tail_'[l] = s2[Len(s2)]
      <3> SUFFICES ASSUME s2 # <<>> PROVE tail_'[l] = s2[Len(s2)]
        OBVIOUS
      <3>1. r # <<>>
        BY <1>4, <1>5, <1>9
      <3>2. s2[Len(s) + Len(r)] = r[Len(r)]
        BY <1>4, <1>12, <3>1
      <3> QED BY <1>4, <1>10, <1>12, <3>1, <3>2
    <2>3. ASSUME NEW i \in 1 .. Len(s2)
          PROVE  next'[s2[i]] = IF i = Len(s2) THEN nullptr ELSE s2[i + 1]
      <3>1. CASE i \in 1 .. Len(s) /\ i # Len(s)
        <4>1. s2[i] = s[i] /\ s2[i + 1] = s[i + 1] /\ next[s[i]] = s[i + 1] /\ s[i] \in Nodes
          BY <1>4, <1>8, <3>1 DEF Spelled
        <4>2. s[i] # tail_[l] \/ s = <<>>
          BY <1>1, <1>15, <3>1
        <4>3. i # Len(s2)
          BY <1>4, <3>1
        <4> QED BY <1>10, <4>1, <4>2, <4>3
      <3>2. CASE i = Len(s)
        <4>1. s # <<>> /\ s2[i] = s[i] /\ s[i] \in Nodes
          BY <1>4, <1>5, <3>2
        <4>2. s2[i + 1] = r[1] /\ i # Len(s2)
          BY <1>4, <1>9, <1>12, <3>2, <4>1
        <4> QED BY <1>9, <1>10, <1>11, <1>12, <3>2, <4>1, <4>2
      <3>3. CASE i > Len(s)
        <4>1. PICK j \in 1 .. Len(r) : i = Len(s) + j
          <5>1. i - Len(s) \in 1 .. Len(r) /\ i = Len(s) + (i - Len(s))
            BY <1>4, <3>3
          <5> QED BY <5>1
        <4>2. s2[i] = r[j] /\ r[j] \in Nodes
          BY <1>4, <4>1
        <4>3. s # <<>> => r[j] # tail_[l]
          BY <1>2, <1>15
        <4>4. next'[r[j]] = IF j = Len(r) THEN nullptr ELSE r[j + 1]
          <5>1. next[r[j]] = IF j = Len(r) THEN nullptr ELSE r[j + 1]
            BY <1>8 DEF Spelled
          <5>2. next'[r[j]] = next[r[j]]
            BY <1>10, <4>2, <4>3
          <5> QED BY <5>1, <5>2
        <4>5. j # Len(r) => s2[i + 1] = r[j + 1]
          <5> SUFFICES ASSUME j # Len(r) PROVE s2[i + 1] = r[j + 1]
            OBVIOUS
          <5>1. j + 1 \in 1 .. Len(r) /\ i + 1 = Len(s) + (j + 1)
            BY <1>4, <4>1
          <5>2. s2[Len(s) + (j + 1)] = r[j + 1]
            BY <1>4, <5>1
          <5> QED BY <5>1, <5>2
        <4>6. i = Len(s2) <=> j = Len(r)
          <5>1. Len(s) \in Nat /\ Len(r) \in Nat /\ Len(s2) = Len(s) + Len(r)
            BY <1>4
          <5>2. i = Len(s) + j /\ j \in Nat
            BY <4>1
          <5> QED BY <5>1, <5>2
        <4> QED BY <4>2, <4>4, <4>5, <4>6
      <3> QED BY <1>4, <3>1, <3>2, <3>3
    <2>4. size_'[l] = Len(s2)
      BY <1>4, <1>8, <1>10 DEF Spelled
    <2> QED BY <2>1, <2>2, <2>3, <2>4 DEF Spelled
  <1>17. ASSUME NEW k \in Lists, k # l, k # m PROVE Spelled(k, sq[k])'
    <2>1. Spelled(k, sq[k])
      BY DEF Spells
    <2>2. \A i \in 1 .. Len(sq[k]) : next'[sq[k][i]] = next[sq[k][i]]
      BY <1>10, <1>15, <1>17
    <2> QED BY <1>10, <1>17, <2>1, <2>2 DEF Spelled
  <1>18. Spelled(m, <<>>)'
    BY <1>10 DEF Spelled
  <1>19. ASSUME NEW c \in Lists, NEW k \in 1 .. Len(sq2[c])
         PROVE  \E d \in Lists : \E h \in 1 .. Len(sq[d]) :
                   /\ sq2[c][k] = sq[d][h]
                   /\ \/ c = l /\ d = l /\ k = h
                      \/ c = l /\ d = m /\ k = Len(s) + h
                      \/ c # l /\ c # m /\ d = c /\ k = h
    <2>1. CASE c = l
      <3>1. CASE k \in 1 .. Len(s)
        BY <1>1, <1>4, <1>7, <2>1, <3>1
      <3>2. CASE k \notin 1 .. Len(s)
        <4>1. PICK h \in 1 .. Len(r) : k = Len(s) + h
          <5>1. k - Len(s) \in 1 .. Len(r) /\ k = Len(s) + (k - Len(s))
            BY <1>4, <1>7, <2>1, <3>2
          <5> QED BY <5>1
        <4>2. s2[k] = r[h]
          BY <1>4, <4>1
        <4> QED BY <1>2, <1>7, <2>1, <4>1, <4>2
      <3> QED BY <3>1, <3>2
    <2>2. CASE c # l
      <3>1. c # m
        BY <1>7
      <3> QED BY <1>7, <2>2, <3>1
    <2> QED BY <2>1, <2>2
  <1>20. Apart(sq2)
    <2> SUFFICES ASSUME NEW a \in Lists, NEW b \in Lists, NEW i \in 1 .. Len(sq2[a]), NEW j \in 1 .. Len(sq2[b]),
                        sq2[a][i] = sq2[b][j]
                 PROVE  a = b /\ i = j
      BY DEF Apart
    <2>1. PICK c \in Lists : \E k \in 1 .. Len(sq[c]) :
             /\ sq2[a][i] = sq[c][k]
             /\ \/ a = l /\ c = l /\ i = k
                \/ a = l /\ c = m /\ i = Len(s) + k
                \/ a # l /\ a # m /\ c = a /\ i = k
      BY <1>19
    <2>2. PICK d \in Lists : \E h \in 1 .. Len(sq[d]) :
             /\ sq2[b][j] = sq[d][h]
             /\ \/ b = l /\ d = l /\ j = h
                \/ b = l /\ d = m /\ j = Len(s) + h
                \/ b # l /\ b # m /\ d = b /\ j = h
      BY <1>19
    <2>3. PICK k \in 1 .. Len(sq[c]) :
             /\ sq2[a][i] = sq[c][k]
             /\ \/ a = l /\ c = l /\ i = k
                \/ a = l /\ c = m /\ i = Len(s) + k
                \/ a # l /\ a # m /\ c = a /\ i = k
      BY <2>1
    <2>4. PICK h \in 1 .. Len(sq[d]) :
             /\ sq2[b][j] = sq[d][h]
             /\ \/ b = l /\ d = l /\ j = h
                \/ b = l /\ d = m /\ j = Len(s) + h
                \/ b # l /\ b # m /\ d = b /\ j = h
      BY <2>2
    <2>5. c = d /\ k = h
      <3>1. sq[c][k] = sq[d][h]
        BY <2>3, <2>4
      <3>2. Apart(sq)
        BY DEF Spells
      <3> QED BY <3>1, <3>2, SMTT(30) DEF Apart
    <2> QED BY <2>3, <2>4, <2>5
  <1>21. RestIsReset(sq2)'
    <2> SUFFICES ASSUME NEW n \in Nodes, ~ InSeqs(n, sq2) PROVE next'[n] = nullptr
      BY DEF RestIsReset, InSeqs
    <2>1. ASSUME NEW c \in Lists, NEW k \in 1 .. Len(sq[c]), sq[c][k] = n PROVE FALSE
      <3>1. CASE c = l
        <4>1. k \in 1 .. Len(sq2[l]) /\ sq2[l][k] = n
          BY <1>1, <1>4, <1>7, <2>1, <3>1
        <4> QED BY <4>1 DEF InSeqs
      <3>2. CASE c = m
        <4>1. Len(s) + k \in 1 .. Len(sq2[l]) /\ sq2[l][Len(s) + k] = n
          <5>1. k \in 1 .. Len(r) /\ r[k] = n
            BY <1>2, <2>1, <3>2
          <5>2. Len(s) + k \in 1 .. Len(s2) /\ s2[Len(s) + k] = r[k]
            BY <1>4, <5>1
          <5> QED BY <1>7, <5>1, <5>2
        <4> QED BY <4>1 DEF InSeqs
      <3>3. CASE c # l /\ c # m
        BY <1>7, <2>1, <3>3 DEF InSeqs
      <3> QED BY <3>1, <3>2, <3>3
    <2>2. next[n] = nullptr
      BY <2>1 DEF Spells, RestIsReset, InSeqs
    <2>3. s # <<>> => n # tail_[l]
      BY <1>1, <1>11, <2>1
    <2> QED BY <1>10, <2>2, <2>3
  <1>22. Spells(sq2)'
    <2>1. ASSUME NEW k \in Lists PROVE Spelled(k, sq2[k])'
      <3>1. CASE k = l
        <4>1. sq2[k] = s2
          BY <1>7, <3>1
        <4> QED BY <1>16, <3>1, <4>1 DEF Spelled
      <3>2. CASE k = m
        <4>1. sq2[k] = <<>>
          BY <1>7, <3>2
        <4> QED BY <1>18, <3>2, <4>1 DEF Spelled
      <3>3. CASE k # l /\ k # m
        <4>1. sq2[k] = sq[k]
          BY <1>7, <3>3
        <4> QED BY <1>17, <3>3, <4>1 DEF Spelled
      <3> QED BY <3>1, <3>2, <3>3
    <2> QED BY <1>7, <1>20, <1>21, <2>1 DEF Spells
  <1>23. sq2 = [sq EXCEPT ![l] = @ \o sq[m], ![m] = <<>>]
    BY <1>1, <1>2, <1>3, <1>6
  <1> QED BY <1>13, <1>22, <1>23

\* A sequence of different nodes is not longer than there are nodes.
LEMMA LengthsBounded ==
  ASSUME NEW sq, Spells(sq), NEW l \in Lists
  PROVE  Cardinality(Nodes) \in Nat /\ Len(sq[l]) \in Nat /\ Len(sq[l]) <= Cardinality(Nodes)
  <1>1. Cardinality(Nodes) \in Nat
    BY ListsAssumption, FS_CardinalityType
  <1>2. PICK s \in Seq(Nodes) : s = sq[l]
    BY DEF Spells
  <1>3. Len(s) \in Nat /\ s \in [1 .. Len(s) -> Nodes]
    OBVIOUS
  <1>4. IsFiniteSet(1 .. Len(s)) /\ Cardinality(1 .. Len(s)) = Len(s)
    <2>1. Len(s) \in Int /\ 1 \in Int /\ (1 > Len(s) => Len(s) = 0) /\ Len(s) - 1 + 1 = Len(s)
      BY <1>3
    <2> QED BY <2>1, FS_Interval
  <1>5. ~ (Cardinality(Nodes) < Len(s))
    <2> SUFFICES ASSUME Cardinality(Nodes) < Len(s) PROVE FALSE
      OBVIOUS
    <2>1. \E x, y \in 1 .. Len(s) : x # y /\ s[x] = s[y]
      BY <1>3, <1>4, ListsAssumption, FS_PigeonHole
    <2> QED BY <1>2, <2>1 DEF Spells, Apart
  <1> QED BY <1>1, <1>2, <1>3, <1>5

\* From the head on, Next leads through the sequence to nullptr.
LEMMA VisitsAre ==
  ASSUME ListTypes, NEW sq, Spells(sq), NEW l \in Lists
  PROVE  Visits(l) = [k \in 1 .. Cardinality(Nodes) + 1 |-> IF k <= Len(sq[l]) THEN sq[l][k] ELSE nullptr]
  <1> DEFINE N == Cardinality(Nodes)
             body(f) == [k \in 1 .. N + 1 |->
                           IF k = 1 THEN head_[l]
                           ELSE IF f[k - 1] = nullptr THEN nullptr ELSE next[f[k - 1]]]
  <1>1. N \in Nat /\ nullptr \notin Nodes
    BY LengthsBounded, ListsAssumption
  <1>2. PICK s \in Seq(Nodes) : s = sq[l] /\ Spelled(l, s)
    BY DEF Spells
  <1>3. Len(s) \in Nat /\ (s = <<>> <=> Len(s) = 0) /\ \A k \in 1 .. Len(s) : s[k] \in Nodes
    OBVIOUS
  <1>4. PICK g : g = [k \in 1 .. N + 1 |-> IF k <= Len(s) THEN s[k] ELSE nullptr]
    OBVIOUS
  <1>5. \A k \in 1 .. N + 1 : g[k] = IF k <= Len(s) THEN s[k] ELSE nullptr
    BY <1>4
  <1>6. ASSUME NEW k \in 1 .. N + 1
        PROVE  g[k] = IF k = 1 THEN head_[l] ELSE IF g[k - 1] = nullptr THEN nullptr ELSE next[g[k - 1]]
    <2>1. CASE k = 1
      BY <1>1, <1>2, <1>3, <1>5, <2>1 DEF Spelled
    <2>2. CASE k # 1
      <3>1. k - 1 \in 1 .. N + 1 /\ k - 1 \in Nat /\ k \in Nat /\ (k - 1) + 1 = k
        BY <1>1, <2>2
      <3>2. CASE k - 1 <= Len(s)
        <4>1. k - 1 \in 1 .. Len(s)
          BY <1>3, <3>1, <3>2
        <4>2. g[k - 1] = s[k - 1] /\ s[k - 1] # nullptr
          BY <1>1, <1>3, <1>5, <3>1, <3>2, <4>1
        <4>3. next[s[k - 1]] = IF k - 1 = Len(s) THEN nullptr ELSE s[k]
          BY <1>2, <3>1, <4>1 DEF Spelled
        <4>4. k <= Len(s) <=> k - 1 # Len(s)
          BY <1>3, <3>1, <3>2
        <4>5. g[k] = IF k <= Len(s) THEN s[k] ELSE nullptr
          BY <1>5
        <4> QED BY <2>2, <4>2, <4>3, <4>4, <4>5
      <3>3. CASE ~ (k - 1 <= Len(s))
        <4>1. ~ (k <= Len(s))
          BY <1>3, <3>1, <3>3
        <4> QED BY <1>5, <2>2, <3>1, <3>3, <4>1
      <3> QED BY <3>2, <3>3
    <2> QED BY <2>1, <2>2
  <1>7. g = body(g)
    BY <1>4, <1>6
  <1>8. Visits(l) = CHOOSE f : f = body(f)
    BY DEF Visits
  <1>9. PICK v : v = Visits(l)
    OBVIOUS
  <1>10. v = body(v)
    <2> HIDE DEF body
    <2> QED BY <1>7, <1>8, <1>9
  <1>11. /\ v = [k \in 1 .. N + 1 |-> v[k]]
         /\ \A k \in 1 .. N + 1 :
               v[k] = IF k = 1 THEN head_[l] ELSE IF v[k - 1] = nullptr THEN nullptr ELSE next[v[k - 1]]
    <2>1. DOMAIN v = 1 .. N + 1
      BY <1>10
    <2>2. \A k \in 1 .. N + 1 :
            v[k] = IF k = 1 THEN head_[l] ELSE IF v[k - 1] = nullptr THEN nullptr ELSE next[v[k - 1]]
      <3>1. \A k \in 1 .. N + 1 : v[k] = body(v)[k]
        <4> HIDE DEF body
        <4> QED BY <1>10
      <3> QED BY <3>1
    <2>3. v = [k \in DOMAIN v |-> v[k]]
      BY <1>10
    <2> QED BY <2>1, <2>2, <2>3
  <1>12. \A k \in 1 .. N + 1 : v[k] = g[k]
    <2> DEFINE M == {k \in 1 .. N + 1 : v[k] # g[k]}
    <2> SUFFICES ASSUME M # {} PROVE FALSE
      OBVIOUS
    <2>1. M \subseteq Nat
      BY <1>1
    <2>2. PICK m \in M : \A k \in M : m <= k
      <3> HIDE DEF M
      <3> QED BY <2>1, LeastNumber
    <2>3. m \in 1 .. N + 1 /\ m \in Nat /\ v[m] # g[m]
      BY <2>1, <2>2
    <2>4. m # 1
      BY <1>6, <1>11, <2>3
    <2>5. m - 1 \in 1 .. N + 1 /\ ~ (m <= m - 1)
      BY <1>1, <2>3, <2>4
    <2>6. v[m - 1] = g[m - 1]
      BY <2>2, <2>5
    <2>7. v[m] = IF v[m - 1] = nullptr THEN nullptr ELSE next[v[m - 1]]
      BY <1>11, <2>3, <2>4
    <2>8. g[m] = IF g[m - 1] = nullptr THEN nullptr ELSE next[g[m - 1]]
      BY <1>6, <2>3, <2>4
    <2> QED BY <2>3, <2>6, <2>7, <2>8
  <1>13. v = g
    BY <1>4, <1>5, <1>11, <1>12
  <1> QED BY <1>2, <1>4, <1>9, <1>13

\* So the items are the sequences, and no other sequences are spelled.
ItemsRight ==
    \A sq : ListTypes /\ Spells(sq) => [l \in Lists |-> Items(l)] = sq

LEMMA ItemsAre == ItemsRight
  <1> SUFFICES ASSUME NEW sq, ListTypes, Spells(sq), NEW l \in Lists PROVE Items(l) = sq[l]
    BY DEF ItemsRight, Spells
  <1> DEFINE N == Cardinality(Nodes)
  <1>1. PICK s \in Seq(Nodes) : s = sq[l]
    BY DEF Spells
  <1>2. N \in Nat /\ Len(s) \in Nat /\ Len(s) <= N /\ nullptr \notin Nodes
    BY <1>1, LengthsBounded, ListsAssumption
  <1>3. PICK v : v = Visits(l)
    OBVIOUS
  <1>4. v = [k \in 1 .. N + 1 |-> IF k <= Len(s) THEN s[k] ELSE nullptr]
    BY <1>1, <1>3, VisitsAre
  <1>5. \A k \in 1 .. Len(s) : s[k] \in Nodes
    OBVIOUS
  <1>6. {k \in DOMAIN v : v[k] # nullptr} = 1 .. Len(s)
    <2>1. DOMAIN v = 1 .. N + 1
      BY <1>4
    <2>2. \A k \in 1 .. N + 1 : v[k] # nullptr <=> k \in 1 .. Len(s)
      BY <1>2, <1>4, <1>5
    <2>3. \A k \in 1 .. Len(s) : k \in 1 .. N + 1
      BY <1>2
    <2> QED BY <2>1, <2>2, <2>3
  <1>7. Cardinality(1 .. Len(s)) = Len(s)
    <2>1. Len(s) \in Int /\ 1 \in Int /\ (1 > Len(s) => Len(s) = 0) /\ Len(s) - 1 + 1 = Len(s)
      BY <1>2
    <2> QED BY <2>1, FS_Interval
  <1>8. Items(l) = [k \in 1 .. Len(s) |-> v[k]]
    BY <1>3, <1>6, <1>7 DEF Items
  <1>9. \A k \in 1 .. Len(s) : v[k] = s[k]
    BY <1>2, <1>4
  <1>10. s = [k \in 1 .. Len(s) |-> s[k]]
    OBVIOUS
  <1> QED BY <1>1, <1>8, <1>9, <1>10

\* Who is in the sequence of a list is reached from its head.
LEMMA InSeqIsIn ==
  ASSUME ListTypes, NEW sq, Spells(sq), NEW l \in Lists, NEW i \in 1 .. Len(sq[l])
  PROVE  IsIn(sq[l][i], l)
  <1>1. PICK s \in Seq(Nodes) : s = sq[l] /\ Spelled(l, s)
    BY DEF Spells
  <1>2. Len(s) \in Nat /\ i \in 1 .. Len(s) /\ s # <<>> /\ nullptr \notin Nodes
        /\ \A k \in 1 .. Len(s) : s[k] \in Nodes
    BY <1>1, ListsAssumption
  <1>3. head_[l] = s[1] /\ ~ IsEmpty(l)
    BY <1>1, <1>2 DEF Spelled, IsEmpty
  <1>4. ASSUME NEW S \in SUBSET Nodes, head_[l] \in S, \A m \in S : next[m] \in S \union {nullptr}
        PROVE  s[i] \in S
    <2> DEFINE M == {k \in 1 .. Len(s) : s[k] \notin S}
    <2> SUFFICES ASSUME M # {} PROVE FALSE
      BY <1>2
    <2>1. M \subseteq Nat
      BY <1>2
    <2>2. PICK m \in M : \A k \in M : m <= k
      <3> HIDE DEF M
      <3> QED BY <2>1, LeastNumber
    <2>3. m \in 1 .. Len(s) /\ m \in Nat /\ s[m] \notin S /\ m # 1
      BY <1>3, <1>4, <2>1, <2>2
    <2>4. m - 1 \in 1 .. Len(s) /\ ~ (m <= m - 1) /\ m - 1 # Len(s) /\ (m - 1) + 1 = m
      BY <1>2, <2>3
    <2>5. s[m - 1] \in S
      BY <2>2, <2>4
    <2>6. next[s[m - 1]] = s[m]
      BY <1>1, <2>4 DEF Spelled
    <2> QED BY <1>2, <1>4, <2>3, <2>5, <2>6
  <1> QED BY <1>1, <1>3, <1>4 DEF IsIn

\* The calls that the pointers allow, and what they make of the sequences.
ListCall(sq) ==
    \/ \E l \in Lists : PopFront(l)
    \/ \E l \in Lists, n \in Nodes : ~ InSeqs(n, sq) /\ (PushBack(l, n) \/ PushFront(l, n))
    \/ \E l, m \in Lists : l # m /\ (ListAppend(l, m) \/ (IsEmpty(l) /\ MoveConstruct(l, m)))

Follows(sq, sq2) ==
    \/ \E l \in Lists : sq[l] # <<>> /\ sq2 = [sq EXCEPT ![l] = Tail(@)]
    \/ \E l \in Lists, n \in Nodes :
          /\ ~ InSeqs(n, sq)
          /\ sq2 = [sq EXCEPT ![l] = Append(@, n)] \/ sq2 = [sq EXCEPT ![l] = <<n>> \o @]
    \/ \E l, m \in Lists : l # m /\ sq2 = [sq EXCEPT ![l] = @ \o sq[m], ![m] = <<>>]

LEMMA InitSpells == ASSUME ListsInit PROVE ListTypes /\ Spells([l \in Lists |-> <<>>])
  <1>1. PICK sq : sq = [l \in Lists |-> <<>>]
    OBVIOUS
  <1>2. sq \in [Lists -> Seq(Nodes)] /\ \A l \in Lists : sq[l] = <<>> /\ Len(sq[l]) = 0
    <2>1. <<>> \in Seq(Nodes) /\ Len(<<>>) = 0
      OBVIOUS
    <2> QED BY <1>1, <2>1
  <1>3. ListTypes
    BY DEF ListsInit, ListTypes
  <1>4. \A l \in Lists : Spelled(l, sq[l])
    BY <1>2 DEF ListsInit, Spelled
  <1>5. Apart(sq) /\ RestIsReset(sq)
    BY <1>2 DEF Apart, RestIsReset, ListsInit
  <1> QED BY <1>1, <1>2, <1>3, <1>4, <1>5 DEF Spells

LEMMA CallSpells ==
  ASSUME ListTypes, NEW sq, Spells(sq), ListCall(sq)
  PROVE  ListTypes' /\ \E sq2 : Follows(sq, sq2) /\ Spells(sq2)'
  <1>1. CASE \E l \in Lists : PopFront(l)
    <2>1. PICK l \in Lists : PopFront(l)
      BY <1>1
    <2>2. PICK sq2 : sq2 = [sq EXCEPT ![l] = Tail(@)]
      OBVIOUS
    <2>3. ListTypes' /\ sq[l] # <<>> /\ Spells(sq2)'
      BY <2>1, <2>2, PopFrontSpells
    <2> QED BY <2>2, <2>3 DEF Follows
  <1>2. CASE \E l \in Lists, n \in Nodes : ~ InSeqs(n, sq) /\ (PushBack(l, n) \/ PushFront(l, n))
    <2>1. PICK l \in Lists, n \in Nodes : ~ InSeqs(n, sq) /\ (PushBack(l, n) \/ PushFront(l, n))
      BY <1>2
    <2>2. CASE PushBack(l, n)
      <3>1. PICK sq2 : sq2 = [sq EXCEPT ![l] = Append(@, n)]
        OBVIOUS
      <3>2. ListTypes' /\ Spells(sq2)'
        BY <2>1, <2>2, <3>1, PushBackSpells
      <3> QED BY <2>1, <3>1, <3>2 DEF Follows
    <2>3. CASE PushFront(l, n)
      <3>1. PICK sq2 : sq2 = [sq EXCEPT ![l] = <<n>> \o @]
        OBVIOUS
      <3>2. ListTypes' /\ Spells(sq2)'
        BY <2>1, <2>3, <3>1, PushFrontSpells
      <3> QED BY <2>1, <3>1, <3>2 DEF Follows
    <2> QED BY <2>1, <2>2, <2>3
  <1>3. CASE \E l, m \in Lists : l # m /\ (ListAppend(l, m) \/ (IsEmpty(l) /\ MoveConstruct(l, m)))
    <2>1. PICK l \in Lists, m \in Lists : l # m /\ (ListAppend(l, m) \/ (IsEmpty(l) /\ MoveConstruct(l, m)))
      BY <1>3
    <2>2. PICK sq2 : sq2 = [sq EXCEPT ![l] = @ \o sq[m], ![m] = <<>>]
      OBVIOUS
    <2>3. ListTypes' /\ Spells(sq2)'
      BY <2>1, <2>2, SpliceSpells
    <2> QED BY <2>1, <2>2, <2>3 DEF Follows
  <1> QED BY <1>1, <1>2, <1>3 DEF ListCall

\* The wait group pushes only an awaiter that is in no list.
LEMMA GroupCalls ==
  ASSUME GInv, ListTypes, NEW sq, Spells(sq), [Next]_vars
  PROVE  UNCHANGED listVars \/ ListCall(sq)
  <1>1. PICK at \in [Waiters -> Lists \union {nullptr}] : Shape(at) /\ Holders(at)
    BY DEF GInv, ListsRight
  <1>2. Nodes = Waiters /\ nullptr \notin Waiters /\ nullptr \notin Lists /\ Workers \subseteq Lists
        /\ wait_queue_ \in Lists
    BY SpinlockWaitGroupAssumption
  <1>3. \A n \in Waiters : at[n] = nullptr => ~ InSeqs(n, sq)
    <2> SUFFICES ASSUME NEW n \in Waiters, at[n] = nullptr, NEW l \in Lists, NEW i \in 1 .. Len(sq[l]), sq[l][i] = n
                 PROVE  FALSE
      BY DEF InSeqs
    <2>1. IsIn(n, l)
      BY InSeqIsIn
    <2>2. at[n] = l
      BY <1>1, <2>1, ReachedIsPlaced DEF GInv
    <2> QED BY <1>2, <2>2
  <1>4. ASSUME NEW w \in Workers, Put(w) PROVE ListCall(sq)
    <2>1. moved[w] \in Waiters /\ at[moved[w]] = nullptr /\ PushBack(w, moved[w])
      BY <1>1, <1>4 DEF Put, Holders, InHand, GInv, TypeOK
    <2>2. moved[w] \in Nodes /\ ~ InSeqs(moved[w], sq) /\ w \in Lists
      BY <1>2, <1>3, <2>1
    <2> QED BY <2>1, <2>2 DEF ListCall
  <1>5. ASSUME NEW p \in Waiters, Push(p) PROVE ListCall(sq)
    <2>1. at[p] = nullptr /\ PushBack(wait_queue_, p)
      <3>1. pc[p] = "push"
        BY <1>5 DEF Push
      <3> QED BY <1>1, <1>5, <3>1 DEF Push, Holders, Parked
    <2>2. p \in Nodes /\ ~ InSeqs(p, sq)
      BY <1>2, <1>3, <2>1
    <2> QED BY <1>2, <2>1, <2>2 DEF ListCall
  <1>6. ASSUME NEW w \in Workers, Take(w) \/ Pop(w) PROVE UNCHANGED listVars \/ ListCall(sq)
    BY <1>2, <1>6 DEF Take, Pop, ListCall
  <1>7. ASSUME NEW x, LockStep(x) PROVE UNCHANGED listVars
    BY <1>7 DEF LockStep, Lock, Spin
  <1>8. ASSUME NEW w \in Workers, CallAdd(w) \/ CallDone(w) \/ WorkStep(w)
        PROVE  UNCHANGED listVars \/ ListCall(sq)
    <2>1. CASE CallAdd(w) \/ CallDone(w) \/ Unlock(w) \/ Add(w) \/ Done(w) \/ Drained(w)
      BY <2>1 DEF CallAdd, CallDone, Unlock, Release, Add, Done, Drained
    <2>2. CASE WakeFiber(w) \/ WakeThread(w) \/ Notify(w)
      BY <2>2 DEF WakeFiber, WakeThread, Notify
    <2> QED BY <1>4, <1>6, <1>7, <1>8, <2>1, <2>2 DEF WorkStep
  <1>9. ASSUME NEW p \in Waiters, Wait(p) \/ WaitStep(p) PROVE UNCHANGED listVars \/ ListCall(sq)
    <2>1. CASE Wait(p) \/ Test(p) \/ Leave(p) \/ Publish(p) \/ Return(p)
      BY <2>1 DEF Wait, Test, Leave, Publish, Release, Return
    <2>2. CASE Look(p) \/ Sleep(p) \/ Awake(p)
      BY <2>2 DEF Look, Sleep, Awake
    <2> QED BY <1>5, <1>7, <1>9, <2>1, <2>2 DEF WaitStep
  <1>10. ASSUME NEW t \in Threads, Interrupt(t) PROVE UNCHANGED listVars
    BY <1>10 DEF Interrupt
  <1>11. CASE UNCHANGED vars
    BY <1>11 DEF vars
  <1> QED BY <1>8, <1>9, <1>10, <1>11 DEF Next

\* The sequences are the items, so a call is one of ForwardLists.
LEMMA FollowsIsAbstract ==
  ASSUME NEW sq, NEW sq2, sq \in [Lists -> Seq(Nodes)], Follows(sq, sq2),
         [l \in Lists |-> Items(l)] = sq, [l \in Lists |-> Items(l)]' = sq2
  PROVE  Abstract!Next
  <1>1. ASSUME NEW n \in Nodes, ~ InSeqs(n, sq) PROVE Abstract!Free(n)
    <2>1. \A l \in Lists : DOMAIN sq[l] = 1 .. Len(sq[l])
      OBVIOUS
    <2> QED BY <1>1, <2>1 DEF Abstract!Free, InSeqs
  <1>2. CASE \E l \in Lists : sq[l] # <<>> /\ sq2 = [sq EXCEPT ![l] = Tail(@)]
    BY <1>2 DEF Abstract!Next, Abstract!PopFront
  <1>3. CASE \E l \in Lists, n \in Nodes :
               /\ ~ InSeqs(n, sq)
               /\ sq2 = [sq EXCEPT ![l] = Append(@, n)] \/ sq2 = [sq EXCEPT ![l] = <<n>> \o @]
    BY <1>1, <1>3 DEF Abstract!Next, Abstract!PushBack, Abstract!PushFront
  <1>4. CASE \E l, m \in Lists : l # m /\ sq2 = [sq EXCEPT ![l] = @ \o sq[m], ![m] = <<>>]
    BY <1>4 DEF Abstract!Next, Abstract!Splice
  <1> QED BY <1>2, <1>3, <1>4 DEF Follows

\* What the run is about.
InGroup == subject = "wait group"

LEMMA SubjectsMove ==
  ASSUME [MCNext]_all
  PROVE  /\ InGroup' <=> InGroup
         /\ InGroup => [Next]_vars
         /\ ~ InGroup => ListsNext \/ UNCHANGED listVars
  <1>1. subject' = subject
    BY DEF MCNext, EventStep, GroupStep, ListStep, choice, all
  <1>2. subject = "wait group" => [Next]_vars
    BY DEF MCNext, EventStep, GroupStep, ListStep, choice, all
  <1>3. subject # "wait group" => ListsNext \/ UNCHANGED listVars
    BY DEF MCNext, EventStep, GroupStep, ListStep, vars, all
  <1> QED BY <1>1, <1>2, <1>3 DEF InGroup

\* Whoever uses the lists, each stays a sequence through every call that the pointers
\* allow, a node is in one at a time, and what PushBack, PushFront, PopFront, Append and
\* the move do to the pointers is what they promise for the sequences; size_ and tail_
\* agree with them (IntrusiveForwardList.hpp 51-110).
THEOREM ListsAreSequences == MCSpec => IsLists
  <1> DEFINE I == SpellsInv /\ (InGroup => GInv)
             L == [l \in Lists |-> Items(l)]
             Agree == \A l \in Lists : /\ size_[l] = Len(Items(l))
                                       /\ ~ IsEmpty(l) => tail_[l] = Items(l)[size_[l]]
  <1>1. ItemsRight
    BY ItemsAre
  <1>2. MCInit /\ ItemsRight => I /\ Abstract!Init
    <2> SUFFICES ASSUME MCInit, ItemsRight PROVE I /\ Abstract!Init
      OBVIOUS
    <2>1. Init /\ ListsInit
      BY DEF MCInit, Init
    <2>2. ListTypes /\ Spells([l \in Lists |-> <<>>])
      BY <2>1, InitSpells
    <2>3. [l \in Lists |-> Items(l)] = [l \in Lists |-> <<>>]
      BY <2>2 DEF ItemsRight
    <2> QED BY <2>1, <2>2, <2>3, GroupInit DEF SpellsInv, Abstract!Init
  <1>3. I /\ ItemsRight /\ ItemsRight' /\ [MCNext]_all => I' /\ [Abstract!Next]_L
    <2> SUFFICES ASSUME I, ItemsRight, ItemsRight', [MCNext]_all PROVE I' /\ (Abstract!Next \/ L' = L)
      OBVIOUS
    <2>1. PICK sq : Spells(sq)
      BY DEF SpellsInv
    <2>2. /\ InGroup' <=> InGroup
          /\ InGroup => [Next]_vars
          /\ ~ InGroup => ListsNext \/ UNCHANGED listVars
      BY SubjectsMove
    <2>3. InGroup' => GInv'
      BY <2>2, GroupNext
    <2>4. UNCHANGED listVars \/ ListCall(sq)
      <3>1. CASE InGroup
        BY <2>1, <2>2, <3>1, GroupCalls DEF SpellsInv
      <3>2. CASE ~ InGroup
        <4>1. \A n \in Nodes : (\A m \in Lists : ~ IsIn(n, m)) => ~ InSeqs(n, sq)
          BY <2>1, InSeqIsIn DEF SpellsInv, InSeqs
        <4> QED BY <2>2, <3>2, <4>1 DEF ListsNext, ListCall
      <3> QED BY <3>1, <3>2
    <2>5. sq \in [Lists -> Seq(Nodes)] /\ L = sq
      BY <2>1 DEF ItemsRight, SpellsInv, Spells
    <2>6. CASE UNCHANGED listVars
      <3>1. ListTypes' /\ Spells(sq)'
        BY <2>1, <2>6 DEF listVars, SpellsInv, ListTypes, Spells, Spelled, Apart, RestIsReset
      <3>2. L' = sq
        BY <3>1 DEF ItemsRight
      <3> QED BY <2>2, <2>3, <2>5, <3>1, <3>2 DEF SpellsInv
    <2>7. CASE ListCall(sq)
      <3>1. PICK sq2 : ListTypes' /\ Follows(sq, sq2) /\ Spells(sq2)'
        BY <2>1, <2>7, CallSpells DEF SpellsInv
      <3>2. L' = sq2
        BY <3>1 DEF ItemsRight
      <3>3. Abstract!Next
        BY <2>5, <3>1, <3>2, FollowsIsAbstract
      <3> QED BY <2>2, <2>3, <3>1, <3>3 DEF SpellsInv
    <2> QED BY <2>4, <2>6, <2>7
  <1>4. I /\ ItemsRight => Agree
    <2> SUFFICES ASSUME I, ItemsRight, NEW l \in Lists
                 PROVE  size_[l] = Len(Items(l)) /\ (~ IsEmpty(l) => tail_[l] = Items(l)[size_[l]])
      OBVIOUS
    <2>1. PICK sq : Spells(sq)
      BY DEF SpellsInv
    <2>2. Items(l) = sq[l]
      <3>1. L = sq
        BY <2>1 DEF ItemsRight, SpellsInv
      <3> QED BY <3>1
    <2>3. Spelled(l, sq[l])
      BY <2>1 DEF Spells
    <2> QED BY <2>2, <2>3 DEF Spelled, IsEmpty
  <1> QED BY <1>1, <1>2, <1>3, <1>4, PTL DEF MCSpec, IsLists, Abstract!Spec

=============================================================================
