-------------------------- MODULE ThreadWaitGroup ---------------------------
(***************************************************************************)
(* The wait group of Synchronization/Thread/WaitGroup.cpp: the counter and *)
(* a flag "somebody waits" in one futex word.  Threads that wait sleep in  *)
(* the kernel; the Done that reaches zero takes the flag back and wakes    *)
(* them.                                                                   *)
(*                                                                         *)
(* The futex of the operating system: Wait sleeps if the word still has    *)
(* the expected value, checked and done in one step; WakeAll wakes every   *)
(* sleeper through the address only; a sleeper may also wake for nothing.  *)
(*                                                                         *)
(* Callers: no Done without its Add, and a group that has come to zero is  *)
(* used again only when all calls of Wait have returned, as in the tests.  *)
(***************************************************************************)
EXTENDS Naturals, FiniteSets

CONSTANTS
    Workers,    \* the threads that call Add and Done
    Waiters,    \* the threads that call Wait
    MaxCount    \* bound of the counter; the code has room for 2^31 - 1

\* Nobody adds and waits at once, and the counter can count.
Callers ==
    /\ Workers \intersect Waiters = {}
    /\ MaxCount \in Nat \ {0}

Words == [flag : BOOLEAN, count : 0 .. MaxCount]
Zero  == [flag |-> FALSE, count |-> 0]

VARIABLES
    job_cnt,    \* job_cnt_, atomic
    pc,
    latest,     \* latest[p]: the local `latest` of Wait
    owed,       \* the calls of Done that are still to be made
    asleep      \* the threads that sleep on job_cnt_ in the kernel

vars == <<job_cnt, pc, latest, owed, asleep>>

Init ==
    /\ job_cnt = Zero
    /\ pc = [p \in Workers \union Waiters |-> "idle"]
    /\ latest = [p \in Waiters |-> Zero]
    /\ owed = 0
    /\ asleep = {}

Goto(p, label) == pc' = [pc EXCEPT ![p] = label]

MayAdd == job_cnt.count > 0 \/ \A p \in Waiters : pc[p] = "idle"

Add(w) ==
    /\ pc[w] = "idle"
    /\ MayAdd
    /\ \E cnt \in 1 .. MaxCount - job_cnt.count :
          /\ job_cnt' = [job_cnt EXCEPT !.count = @ + cnt]
          /\ owed' = owed + cnt
    /\ UNCHANGED <<pc, latest, asleep>>

-----------------------------------------------------------------------------
\* Fault: off by one, the sleepers are woken before the last Done.
MustWakeEarly(word) == word.flag /\ word.count = 1

\* The word that fetch_sub left says that somebody waits for this Done.
MustWake(word) == word.flag /\ word.count = 0

\* The fetch_sub.  A Done that finds no flag does not touch the group again.
Done(w) ==
    /\ pc[w] = "idle"
    /\ owed > 0
    /\ owed' = owed - 1
    /\ job_cnt' = [job_cnt EXCEPT !.count = @ - 1]
    /\ IF MustWake(job_cnt') THEN Goto(w, "clear") ELSE UNCHANGED pc
    /\ UNCHANGED <<latest, asleep>>

\* The fetch_and: from here on waiters may return and the group may be gone.
ClearFlag(w) ==
    /\ pc[w] = "clear"
    /\ job_cnt' = [job_cnt EXCEPT !.flag = FALSE]
    /\ Goto(w, "wake")
    /\ UNCHANGED <<latest, owed, asleep>>

WakeAll(w) ==
    /\ pc[w] = "wake"
    /\ pc' = [p \in DOMAIN pc |->
                IF p = w THEN "idle" ELSE IF p \in asleep THEN "load" ELSE pc[p]]
    /\ asleep' = {}
    /\ UNCHANGED <<job_cnt, latest, owed>>

-----------------------------------------------------------------------------
Wait(p) ==
    /\ pc[p] = "idle"
    /\ Goto(p, "load")
    /\ UNCHANGED <<job_cnt, latest, owed, asleep>>

\* Fault: a zero whose flag is still to be taken back is good enough.
LooksDoneCount(word) == word.count = 0

LooksDone(word) == word = Zero

\* The load, and the test of the loop.
Load(p) ==
    /\ pc[p] = "load"
    /\ latest' = [latest EXCEPT ![p] = IF LooksDone(job_cnt) THEN Zero ELSE job_cnt]
    /\ Goto(p, IF LooksDone(job_cnt) THEN "return" ELSE "announce")
    /\ UNCHANGED <<job_cnt, owed, asleep>>

\* The flag is there, or the strong CAS puts it there, or the word is loaded
\* again.
Announce(p) ==
    /\ pc[p] = "announce"
    /\ IF latest[p].flag
         THEN UNCHANGED job_cnt /\ Goto(p, "wait")
         ELSE IF job_cnt = latest[p]
                THEN job_cnt' = [job_cnt EXCEPT !.flag = TRUE] /\ Goto(p, "wait")
                ELSE UNCHANGED job_cnt /\ Goto(p, "load")
    /\ UNCHANGED <<latest, owed, asleep>>

\* Fault: the thread sleeps whatever the word is.
StillBlind(p) == TRUE

\* The word is what the thread announced its sleep on.
Still(p) == job_cnt = [latest[p] EXCEPT !.flag = TRUE]

\* Fault: the word is not loaded again after a wait that did not sleep.
FutexWaitOnce(p) ==
    /\ pc[p] = "wait"
    /\ IF Still(p)
         THEN Goto(p, "asleep") /\ asleep' = asleep \union {p}
         ELSE Goto(p, "return") /\ UNCHANGED asleep
    /\ UNCHANGED <<job_cnt, latest, owed>>

\* Futex::Wait.
FutexWait(p) ==
    /\ pc[p] = "wait"
    /\ IF Still(p)
         THEN Goto(p, "asleep") /\ asleep' = asleep \union {p}
         ELSE Goto(p, "load") /\ UNCHANGED asleep
    /\ UNCHANGED <<job_cnt, latest, owed>>

\* Futex::Wait returns for no reason.
WakeForNothing(p) ==
    /\ p \in asleep
    /\ asleep' = asleep \ {p}
    /\ Goto(p, "load")
    /\ UNCHANGED <<job_cnt, latest, owed>>

Return(p) ==
    /\ pc[p] = "return"
    /\ Goto(p, "idle")
    /\ UNCHANGED <<job_cnt, latest, owed, asleep>>

DoneStep(w) == Done(w) \/ ClearFlag(w) \/ WakeAll(w)
WaitStep(p) == Load(p) \/ Announce(p) \/ FutexWait(p) \/ Return(p)

Next ==
    \/ \E w \in Workers : Add(w) \/ DoneStep(w)
    \/ \E p \in Waiters : Wait(p) \/ WaitStep(p) \/ WakeForNothing(p)

Spec == Init /\ [][Next]_vars

\* Every thread goes on; a Done that is owed is called.
FairSpec ==
    /\ Spec
    /\ \A w \in Workers : WF_vars(DoneStep(w))
    /\ \A p \in Waiters : WF_vars(WaitStep(p))

-----------------------------------------------------------------------------
TypeOK ==
    /\ job_cnt \in Words
    /\ pc \in [Workers \union Waiters ->
                 {"idle", "clear", "wake", "load", "announce", "wait", "asleep", "return"}]
    /\ latest \in [Waiters -> Words]
    /\ owed \in 0 .. MaxCount
    /\ asleep \subseteq Waiters

\* Who returns from Wait may destroy the group: no Done will still read or
\* write its word (WaitGroup.cpp 10-14; the test Thread/WaitGroup/Storage.cpp).
StorageIsFree ==
    \A p \in Waiters : pc[p] = "return" =>
        /\ job_cnt = Zero
        /\ \A w \in Workers : pc[w] # "clear"

\* A sleeper has announced itself: the flag is set, or a Done that saw it is on
\* its way to wake.  No wake is lost between the CAS and the sleep
\* (WaitGroup.cpp 21-22).
SleeperIsAnnounced ==
    asleep # {} => \/ job_cnt.flag /\ (job_cnt.count = 0 => \E w \in Workers : pc[w] = "clear")
                   \/ \E w \in Workers : pc[w] = "wake"

\* Every Wait returns once the counter has come to zero.
WaitReturns ==
    \A p \in Waiters : (pc[p] # "idle" /\ job_cnt.count = 0) ~> (pc[p] = "idle")

Promise == INSTANCE WaitGroupSpec
             WITH count <- job_cnt.count,
                  phase <- [p \in Waiters |->
                              CASE pc[p] = "idle" -> "out"
                                [] pc[p] = "return" -> "released"
                                [] OTHER -> "called"]

\* The group keeps the promise of WaitGroupSpec: Wait returns only if the
\* counter was zero during the call (WaitGroup.cpp 18-26).
IsWaitGroup == Promise!Spec

-----------------------------------------------------------------------------
\* The inductive invariant.

\* Workers are in Done, waiters in Wait, and the kernel knows who sleeps.
EverybodyInPlace ==
    /\ \A w \in Workers : pc[w] \in {"idle", "clear", "wake"}
    /\ \A p \in Waiters : pc[p] \notin {"clear", "wake"}
    /\ asleep = {p \in Waiters : pc[p] = "asleep"}

\* The Done that is to take the flag back is alone and finds it; and the flag
\* never stays on a zero without it.
FlagIsTakenBack ==
    /\ \A w \in Workers : pc[w] = "clear" => job_cnt = [flag |-> TRUE, count |-> 0]
    /\ \A v, w \in Workers : pc[v] = "clear" /\ pc[w] = "clear" => v = w
    /\ job_cnt.flag /\ job_cnt.count = 0 => \E w \in Workers : pc[w] = "clear"

\* The flag is set by a waiter that cannot return before it is taken back.
FlagHasWaiter ==
    /\ job_cnt.flag => \E p \in Waiters : pc[p] \in {"load", "announce", "wait", "asleep"}
    /\ \A p \in Waiters : pc[p] = "announce" => latest[p] # Zero
    /\ \A p \in Waiters : pc[p] = "return" => job_cnt = Zero

Inv ==
    /\ TypeOK
    /\ owed = job_cnt.count
    /\ EverybodyInPlace
    /\ FlagIsTakenBack
    /\ FlagHasWaiter
    /\ SleeperIsAnnounced
=============================================================================
