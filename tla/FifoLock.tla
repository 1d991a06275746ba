------------------------------ MODULE FifoLock ------------------------------
(***************************************************************************)
(* What a fair mutex promises to its callers, without any of the pointers  *)
(* of Synchronization/FiberAware/Mutex.cpp: one owner at a time, and a     *)
(* queue of waiters served strictly in the order in which they joined it.  *)
(* Ownership is handed over: while somebody waits, a release makes the     *)
(* oldest waiter the owner and nobody can get in between.  FiberMutex is   *)
(* shown to implement this specification.                                  *)
(***************************************************************************)
EXTENDS Naturals, Sequences

CONSTANTS
    Procs,  \* the threads and fibers that use the lock
    NoProc  \* "nobody owns the lock", not a member of Procs

VARIABLES
    owner,  \* the process that owns the lock, or NoProc
    queue   \* the waiting processes, oldest first

vars == <<owner, queue>>

TypeOK ==
    /\ owner \in Procs \union {NoProc}
    /\ queue \in Seq(Procs)

Init ==
    /\ owner = NoProc
    /\ queue = <<>>

\* The lock is free and p gets it without waiting.
Acquire(p) ==
    /\ owner = NoProc
    /\ queue = <<>>
    /\ owner' = p
    /\ UNCHANGED queue

\* The lock is owned by another process and p joins the queue.
Enqueue(p) ==
    /\ owner \notin {NoProc, p}
    /\ \A i \in DOMAIN queue : queue[i] # p
    /\ queue' = Append(queue, p)
    /\ UNCHANGED owner

\* The owner gives the lock up and nobody waits for it.
Free ==
    /\ owner # NoProc
    /\ queue = <<>>
    /\ owner' = NoProc
    /\ UNCHANGED queue

\* The owner hands the lock to the oldest waiter.
HandOver ==
    /\ owner # NoProc
    /\ queue # <<>>
    /\ owner' = Head(queue)
    /\ queue' = Tail(queue)

Next ==
    \/ \E p \in Procs : Acquire(p) \/ Enqueue(p)
    \/ Free
    \/ HandOver

Spec == Init /\ [][Next]_vars

\* Owners are finite in their critical sections.
FairSpec == Spec /\ WF_vars(Free \/ HandOver)
=============================================================================
