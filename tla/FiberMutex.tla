----------------------------- MODULE FiberMutex -----------------------------
(***************************************************************************)
(* The mutex of Synchronization/FiberAware/Mutex.cpp at the level of its   *)
(* two words and of the awaiters' Next pointers.                           *)
(*                                                                         *)
(* head_ holds kUnlocked, kLocked or the newest awaiter of a stack of      *)
(* waiters linked through Next and ended by kLocked.  The owner moves that *)
(* stack, reversed, to tail_, a list from the oldest waiter to the newest  *)
(* that only the owner touches, and hands the lock to the first of it.     *)
(*                                                                         *)
(* An awaiter lives on the stack of the process (thread or fiber) that     *)
(* waits and a process waits on one awaiter at a time, so a pointer to an  *)
(* awaiter is the process itself.  DoAwait (Synchronization/Awaiters)      *)
(* contributes its contract: the process parks after its awaiter's lambda  *)
(* returned true and goes on after Wake, or at once after false.           *)
(***************************************************************************)
EXTENDS Naturals, Sequences

CONSTANTS
    Procs,      \* the threads and fibers that use the mutex
    kUnlocked,  \* the null pointer: "unlocked" in head_, "no list" in tail_
    kLocked     \* the pointer 1: "locked, nobody waits"

ASSUME PointersAssumption ==
    /\ kUnlocked \notin Procs
    /\ kLocked \notin Procs
    /\ kUnlocked # kLocked

Pointers == Procs \union {kUnlocked, kLocked}

VARIABLES
    head,       \* head_, atomic
    tail,       \* tail_, plain: touched by the owner only
    next,       \* next[p]: Next of the awaiter of p
    pc,         \* pc[p]: where process p is
    expected,   \* expected[p]: the local `expected` of Lock, `expected_head` of Unlock
    curr,       \* curr[p]: the local `curr` of Unlock
    woken       \* the parked processes whose awaiter was woken

(***************************************************************************)
(* History: `order` is the sequence of the parked waiters that have not    *)
(* been handed the lock, in the order of their successful CAS on head_.    *)
(* The first `taken` of them were removed from head_ by an Unlock, and the *)
(* first `unreversed` of these are still to be moved to tail_.             *)
(***************************************************************************)
VARIABLES order, taken, unreversed

code    == <<head, tail, next, pc, expected, curr, woken>>
history == <<order, taken, unreversed>>
vars    == <<head, tail, next, pc, expected, curr, woken, order, taken, unreversed>>

Labels == {"idle", "load", "link", "cas", "parked", "cs",
           "unlock_load", "unlock_cas", "reverse", "pop", "wake"}

Init ==
    /\ head = kUnlocked
    /\ tail = kUnlocked
    /\ next = [p \in Procs |-> kUnlocked]
    /\ pc = [p \in Procs |-> "idle"]
    /\ expected = [p \in Procs |-> kUnlocked]
    /\ curr = [p \in Procs |-> kUnlocked]
    /\ woken = {}
    /\ order = <<>>
    /\ taken = 0
    /\ unreversed = 0

Goto(p, label) == pc' = [pc EXCEPT ![p] = label]

\* A local or an awaiter that goes out of scope has no value.
Forget(var, p) == [var EXCEPT ![p] = kUnlocked]

\* A CAS of p on head_ may succeed.
CasHits(p) == head = expected[p]

-----------------------------------------------------------------------------
\* Lock

\* The strong CAS of the fast path; on failure its `expected` is shadowed.
Lock(p) ==
    /\ pc[p] = "idle"
    /\ IF head = kUnlocked
         THEN head' = kLocked /\ Goto(p, "cs")
         ELSE UNCHANGED head /\ Goto(p, "load")
    /\ UNCHANGED <<tail, next, expected, curr, woken, history>>

\* A failed TryLock returns false and changes nothing.
TryLock(p) ==
    /\ pc[p] = "idle"
    /\ head = kUnlocked
    /\ head' = kLocked
    /\ Goto(p, "cs")
    /\ UNCHANGED <<tail, next, expected, curr, woken, history>>

\* The lambda given to DoAwait: its first load of head_.
AwaitLoad(p) ==
    /\ pc[p] = "load"
    /\ expected' = [expected EXCEPT ![p] = head]
    /\ Goto(p, "link")
    /\ UNCHANGED <<head, tail, next, curr, woken, history>>

\* Fault: Next is set in the first iteration only.
AwaitLinkOnce(p) ==
    /\ pc[p] = "link"
    /\ next' = [next EXCEPT ![p] = IF @ = kUnlocked THEN expected[p] ELSE @]
    /\ Goto(p, "cas")
    /\ UNCHANGED <<head, tail, expected, curr, woken, history>>

\* The body of the loop: the awaiter, still private, is linked.
AwaitLink(p) ==
    /\ pc[p] = "link"
    /\ next' = [next EXCEPT ![p] = expected[p]]
    /\ Goto(p, "cas")
    /\ UNCHANGED <<head, tail, expected, curr, woken, history>>

\* What the lambda installs in head_ for the value it expects there.
NewState(p) == IF expected[p] = kUnlocked THEN kLocked ELSE p

\* The weak CAS of the loop, when it finds what it expects.
AwaitCas(p) ==
    /\ pc[p] = "cas"
    /\ CasHits(p)
    /\ head' = NewState(p)
    /\ IF NewState(p) = p
         THEN Goto(p, "parked") /\ order' = Append(order, p) /\ UNCHANGED next
         ELSE Goto(p, "cs") /\ UNCHANGED order /\ next' = Forget(next, p)
    /\ expected' = Forget(expected, p)
    /\ UNCHANGED <<tail, curr, woken, taken, unreversed>>

\* The weak CAS when head_ has changed, or when it fails spuriously.
AwaitRetry(p) ==
    /\ pc[p] = "cas"
    /\ expected' = [expected EXCEPT ![p] = head]
    /\ Goto(p, "link")
    /\ UNCHANGED <<head, tail, next, curr, woken, history>>

\* DoAwait returns in a woken process, which owns the mutex.
Resume(p) ==
    /\ pc[p] = "parked"
    /\ p \in woken
    /\ woken' = woken \ {p}
    /\ next' = Forget(next, p)
    /\ Goto(p, "cs")
    /\ UNCHANGED <<head, tail, expected, curr, history>>

-----------------------------------------------------------------------------
\* Unlock

\* Fault: the waiters of head_ are collected while tail_ still has older ones.
UnlockCollectsFirst == "unlock_load"

\* The owner's waiters come from tail_ as long as there are any.
UnlockFrom == IF tail = kUnlocked THEN "unlock_load" ELSE "pop"

\* The owner leaves its critical section.
Unlock(p) ==
    /\ pc[p] = "cs"
    /\ Goto(p, UnlockFrom)
    /\ UNCHANGED <<head, tail, next, expected, curr, woken, history>>

UnlockLoad(p) ==
    /\ pc[p] = "unlock_load"
    /\ expected' = [expected EXCEPT ![p] = head]
    /\ Goto(p, "unlock_cas")
    /\ UNCHANGED <<head, tail, next, curr, woken, history>>

\* What Unlock installs in head_ for the value it expects there.
NewHead(p) == IF expected[p] = kLocked THEN kUnlocked ELSE kLocked

\* The weak CAS finds what it expects: the mutex is free, or the whole stack
\* of waiters is the owner's to reverse.
UnlockCas(p) ==
    /\ pc[p] = "unlock_cas"
    /\ CasHits(p)
    /\ head' = NewHead(p)
    /\ IF NewHead(p) = kUnlocked
         THEN Goto(p, "idle") /\ expected' = Forget(expected, p) /\ UNCHANGED <<taken, unreversed>>
         ELSE Goto(p, "reverse") /\ taken' = Len(order) /\ unreversed' = Len(order)
              /\ UNCHANGED expected
    /\ UNCHANGED <<tail, next, curr, woken, order>>

UnlockRetry(p) ==
    /\ pc[p] = "unlock_cas"
    /\ expected' = [expected EXCEPT ![p] = head]
    /\ UNCHANGED <<head, tail, next, pc, curr, woken, history>>

\* One iteration of the loop that reverses the stack into tail_.
Reverse(p) ==
    /\ pc[p] = "reverse"
    /\ expected[p] # kLocked
    /\ expected' = [expected EXCEPT ![p] = next[expected[p]]]
    /\ next' = [next EXCEPT ![expected[p]] = tail]
    /\ tail' = expected[p]
    /\ unreversed' = unreversed - 1
    /\ UNCHANGED <<head, pc, curr, woken, order, taken>>

\* The exit of that loop.  tail_ is not empty: the test that guards the pop
\* holds (TailIsReady in the invariant).
Reversed(p) ==
    /\ pc[p] = "reverse"
    /\ expected[p] = kLocked
    /\ Goto(p, IF tail = kUnlocked THEN "idle" ELSE "pop")
    /\ expected' = Forget(expected, p)
    /\ UNCHANGED <<head, tail, next, curr, woken, history>>

\* Fault: the owner wakes the waiter before it advances tail_.
PopWakesFirst(p) ==
    /\ pc[p] = "pop"
    /\ curr' = [curr EXCEPT ![p] = tail]
    /\ woken' = woken \union {tail}
    /\ Goto(p, "wake")
    /\ order' = Tail(order)
    /\ taken' = taken - 1
    /\ UNCHANGED <<head, tail, next, expected, unreversed>>

\* The oldest waiter leaves tail_: it owns the mutex from here on.
Pop(p) ==
    /\ pc[p] = "pop"
    /\ curr' = [curr EXCEPT ![p] = tail]
    /\ tail' = next[tail]
    /\ Goto(p, "wake")
    /\ order' = Tail(order)
    /\ taken' = taken - 1
    /\ UNCHANGED <<head, next, expected, woken, unreversed>>

\* Wake is the last thing Unlock does: the awaiter may be gone right after.
Wake(p) ==
    /\ pc[p] = "wake"
    /\ woken' = woken \union {curr[p]}
    /\ curr' = Forget(curr, p)
    /\ Goto(p, "idle")
    /\ UNCHANGED <<head, tail, next, expected, history>>

-----------------------------------------------------------------------------
LockStep(p)   == Lock(p) \/ TryLock(p) \/ AwaitLoad(p) \/ AwaitLink(p)
                 \/ AwaitCas(p) \/ AwaitRetry(p) \/ Resume(p)
UnlockStep(p) == Unlock(p) \/ UnlockLoad(p) \/ UnlockCas(p) \/ UnlockRetry(p)
                 \/ Reverse(p) \/ Reversed(p) \/ Pop(p) \/ Wake(p)

Next == \E p \in Procs : LockStep(p) \/ UnlockStep(p)

Spec == Init /\ [][Next]_vars

\* The weak CAS of p does what a strong one would.
CasResolves(p) == AwaitCas(p) \/ (~CasHits(p) /\ AwaitRetry(p))

-----------------------------------------------------------------------------
\* What the code promises.

TypeOK ==
    /\ head \in Pointers
    /\ tail \in Procs \union {kUnlocked}
    /\ next \in [Procs -> Pointers]
    /\ pc \in [Procs -> Labels]
    /\ expected \in [Procs -> Pointers]
    /\ curr \in [Procs -> Pointers]
    /\ woken \in SUBSET Procs
    /\ order \in Seq(Procs)
    /\ taken \in Nat
    /\ unreversed \in Nat

\* The awaiter of p is on p's stack and p cannot return from DoAwait yet.
Live(p) == pc[p] = "parked" /\ p \notin woken

Waiting(p) == \E i \in DOMAIN order : order[i] = p

\* q took the awaiter of p out of tail_ and is about to wake it.
HandsTo(q, p) == pc[q] = "wake" /\ curr[q] = p

\* p owns the mutex: it is between Lock and the end of its Unlock's hold on
\* tail_, or the previous owner has chosen it.
Owns(p) ==
    \/ pc[p] \in {"cs", "unlock_load", "unlock_cas", "reverse", "pop"}
    \/ p \in woken
    \/ \E q \in Procs : HandsTo(q, p)

Locked == \E p \in Procs : Owns(p)

\* At most one process owns the mutex, from the CAS that acquires it or the
\* Unlock that hands it over to the end of its own hold: in particular only
\* one process at a time uses the plain tail_ (Mutex.cpp 35, 47-56).
MutualExclusion == \A p, q \in Procs : Owns(p) /\ Owns(q) => p = q

\* Every pointer that Unlock still follows, from head_, tail_, its own locals
\* or the Next of a waiting awaiter, is an awaiter whose process cannot have
\* returned from DoAwait and popped it off its stack (Mutex.cpp 48-57).
AwaiterAlive ==
    LET followed == {head, tail} \union {expected[p] : p \in {q \in Procs : pc[q] = "reverse"}}
                                 \union {curr[p] : p \in {q \in Procs : pc[q] = "wake"}}
                                 \union {next[order[i]] : i \in DOMAIN order}
    IN  \A p \in followed \intersect Procs : Live(p)

\* A parked process is waiting for its turn, being handed the mutex, or woken;
\* and while any process is parked somebody owns the mutex and will come to
\* its Unlock.  No interleaving of the two CAS loops (Mutex.cpp 23, 43)
\* leaves a waiter behind on a free mutex.
NoLostWaiter ==
    \A p \in Procs : pc[p] = "parked" =>
        /\ Waiting(p) \/ p \in woken \/ \E q \in Procs : HandsTo(q, p)
        /\ Locked /\ head # kUnlocked

\* A process that joined the list of waiters is served in the end.
WaiterIsServed == \A p \in Procs : pc[p] = "parked" ~> pc[p] = "cs"

-----------------------------------------------------------------------------
\* The promise of a fair lock.

NoProc == kUnlocked

Owner == IF Locked THEN CHOOSE p \in Procs : Owns(p) ELSE NoProc

Fair == INSTANCE FifoLock WITH owner <- Owner, queue <- order

\* The mutex is a fair lock: waiters are served in the order of their CAS on
\* head_, whatever is in tail_ meanwhile, and nobody overtakes them
\* (the test Tests/DummyConcurrency/Synchronization/FiberAware/Mutex/Unit.cpp, Fifo).
IsFifoLock == Fair!Spec

-----------------------------------------------------------------------------
\* The inductive invariant: how the pointers spell `order`.

\* head_ is the stack of the waiters not taken yet, newest first.
HeadIsStack ==
    /\ head # kUnlocked =>
          head = IF taken < Len(order) THEN order[Len(order)] ELSE kLocked
    /\ \A i \in DOMAIN order : i > taken =>
          next[order[i]] = IF i = taken + 1 THEN kLocked ELSE order[i - 1]

\* What Reverse still has to move is a stack of the same form.
RestIsStack ==
    /\ \A p \in Procs : pc[p] = "reverse" =>
          expected[p] = IF unreversed > 0 THEN order[unreversed] ELSE kLocked
    /\ \A i \in DOMAIN order : i <= unreversed =>
          next[order[i]] = IF i = 1 THEN kLocked ELSE order[i - 1]

\* tail_ is the list of the taken waiters in the order of their arrival.
TailIsReady ==
    /\ tail = IF unreversed < taken THEN order[unreversed + 1] ELSE kUnlocked
    /\ \A i \in DOMAIN order : i > unreversed /\ i <= taken =>
          next[order[i]] = IF i = taken THEN kUnlocked ELSE order[i + 1]
    /\ \A p \in Procs :
          /\ pc[p] \in {"unlock_load", "unlock_cas"} => taken = 0
          /\ pc[p] \in {"reverse", "pop"} => taken > 0
    /\ unreversed <= taken
    /\ taken <= Len(order)
    /\ unreversed > 0 => \E p \in Procs : pc[p] = "reverse"

\* The waiters are parked, different, and not yet handed the mutex.
WaitersAreParked ==
    /\ \A i \in DOMAIN order : Live(order[i])
    /\ \A i \in DOMAIN order : \A q \in Procs : ~HandsTo(q, order[i])
    /\ \A i, j \in DOMAIN order : order[i] = order[j] => i = j
    /\ \A p \in Procs : pc[p] = "cas" => next[p] = expected[p]

\* The handed-over process is parked until the one Wake it is due.
HandOverIsOnce ==
    /\ \A p \in woken : pc[p] = "parked"
    /\ \A q \in Procs : pc[q] = "wake" => curr[q] \in Procs /\ Live(curr[q])
    /\ \A p, q \in Procs : pc[p] = "wake" /\ pc[q] = "wake" => p = q

\* head_ is kUnlocked exactly when nobody owns the mutex.
FreeIsUnlocked ==
    /\ head = kUnlocked <=> ~Locked
    /\ ~Locked => order = <<>>
    /\ \A p \in Procs : pc[p] = "parked" =>
          Waiting(p) \/ p \in woken \/ \E q \in Procs : HandsTo(q, p)

Inv ==
    /\ TypeOK
    /\ MutualExclusion
    /\ HeadIsStack
    /\ RestIsStack
    /\ TailIsReady
    /\ WaitersAreParked
    /\ HandOverIsOnce
    /\ FreeIsUnlocked
=============================================================================
