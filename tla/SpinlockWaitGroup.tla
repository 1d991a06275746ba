------------------------- MODULE SpinlockWaitGroup --------------------------
(***************************************************************************)
(* SpinlockWaitGroup of Synchronization/FiberAware/WaitGroup.cpp, at the   *)
(* grain of one access to the spinlock or, under it, to the counter or a   *)
(* list.  Wait keeps the spinlock while its fiber is suspended, and the    *)
(* lambda of DoAwait releases it, for a fiber on the stack of the worker.  *)
(* Waiters stand for their awaiters; those of threads hold a ThreadEvent.  *)
(* The lists are wait_queue_ and the local `buffer` of each Done.          *)
(***************************************************************************)
EXTENDS IntrusiveForwardList, ThreadEvent

CONSTANTS
    Workers,    \* the processes that call Add and Done
    Fibers,
    MaxCount    \* bound on the counter

wait_queue_ == "wait_queue_"
Waiters == Threads \union Fibers

ASSUME SpinlockWaitGroupAssumption ==
    /\ Lists = Workers \union {wait_queue_}
    /\ Nodes = Waiters
    /\ IsFiniteSet(Workers) /\ MaxCount \in Nat
    /\ Workers \intersect Waiters = {}
    /\ wait_queue_ \notin Workers
    /\ nullptr \notin Waiters \union Lists

VARIABLES
    lock_,      \* the word of the spinlock
    counter_,
    pc,
    op,         \* op[p]: what p wants the lock for
    moved,      \* moved[w]: the awaiter that Done has in its hands
    owed, room  \* the Done calls nobody has started, and what may be added yet

callers == <<owed, room>>
vars == <<lock_, counter_, pc, op, moved, callers, listVars, eventVars>>

Procs == Workers \union Waiters

Init ==
    /\ lock_ = 0
    /\ counter_ = 0
    /\ pc = [p \in Procs |-> "idle"]
    /\ op = [p \in Procs |-> "none"]
    /\ moved = [w \in Workers |-> nullptr]
    /\ owed = 0
    /\ room = MaxCount
    /\ ListsInit
    /\ EventsInit

Goto(p, label) == pc' = [pc EXCEPT ![p] = label]

-----------------------------------------------------------------------------
\* The spinlock: an exchange that finds 0 has it, else it is read until it is 0.
Call(p, what) ==
    /\ pc[p] = "idle"
    /\ op' = [op EXCEPT ![p] = what]
    /\ Goto(p, "lock")

Lock(p) ==
    /\ pc[p] = "lock"
    /\ lock_' = 1
    /\ IF lock_ = 0
         THEN Goto(p, op[p]) /\ op' = [op EXCEPT ![p] = "none"]
         ELSE Goto(p, "spin") /\ UNCHANGED op
    /\ UNCHANGED <<counter_, moved, callers, listVars, eventVars>>

Spin(p) ==
    /\ pc[p] = "spin"
    /\ lock_ = 0
    /\ Goto(p, "lock")
    /\ UNCHANGED <<lock_, counter_, op, moved, callers, listVars, eventVars>>

\* p gives the lock up and goes on at `label`.
Release(p, label) ==
    /\ lock_' = 0
    /\ Goto(p, label)
    /\ UNCHANGED <<counter_, op, moved, callers, listVars, eventVars>>

Unlock(w) == w \in Workers /\ pc[w] = "unlock" /\ Release(w, "idle")

-----------------------------------------------------------------------------
CallAdd(w) ==
    /\ room > 0
    /\ room' = room - 1
    /\ Call(w, "add")
    /\ UNCHANGED <<lock_, counter_, moved, owed, listVars, eventVars>>

Add(w) ==
    /\ pc[w] = "add"
    /\ counter_' = counter_ + 1
    /\ owed' = owed + 1
    /\ Goto(w, "unlock")
    /\ UNCHANGED <<lock_, op, moved, room, listVars, eventVars>>

CallDone(w) ==
    /\ owed > 0
    /\ owed' = owed - 1
    /\ Call(w, "done")
    /\ UNCHANGED <<lock_, counter_, moved, room, listVars, eventVars>>

Done(w) ==
    /\ pc[w] = "done"
    /\ counter_' = counter_ - 1
    /\ room' = room + 1
    /\ Goto(w, IF counter_ = 1 THEN "drain" ELSE "unlock")
    /\ UNCHANGED <<lock_, op, moved, owed, listVars, eventVars>>

\* The waiters go from wait_queue_ to the buffer, one by one, under the lock.
Take(w) ==
    /\ pc[w] = "drain"
    /\ moved' = [moved EXCEPT ![w] = head_[wait_queue_]]
    /\ PopFront(wait_queue_)
    /\ Goto(w, "put")
    /\ UNCHANGED <<lock_, counter_, op, callers, eventVars>>

Put(w) ==
    /\ pc[w] = "put"
    /\ PushBack(w, moved[w])
    /\ moved' = [moved EXCEPT ![w] = nullptr]
    /\ Goto(w, "drain")
    /\ UNCHANGED <<lock_, counter_, op, callers, eventVars>>

Drained(w) == pc[w] = "drain" /\ IsEmpty(wait_queue_) /\ Release(w, "pop")

Pop(w) ==
    /\ pc[w] = "pop"
    /\ moved' = [moved EXCEPT ![w] = head_[w]]
    /\ IF IsEmpty(w) THEN Goto(w, "idle") /\ UNCHANGED listVars
                     ELSE Goto(w, "wake") /\ PopFront(w)
    /\ UNCHANGED <<lock_, counter_, op, callers, eventVars>>

\* Wake of a fiber's awaiter schedules it, that of a thread's fires its event.
WakeFiber(w) ==
    /\ pc[w] = "wake"
    /\ moved[w] \in Fibers
    /\ pc' = [pc EXCEPT ![w] = "pop", ![moved[w]] = "return"]
    /\ moved' = [moved EXCEPT ![w] = nullptr]
    /\ UNCHANGED <<lock_, counter_, op, callers, listVars, eventVars>>

WakeThread(w) ==
    /\ pc[w] = "wake"
    /\ moved[w] \in Threads
    /\ Store(moved[w])
    /\ Goto(w, "notify")
    /\ UNCHANGED <<lock_, counter_, op, moved, callers, listVars>>

Notify(w) ==
    /\ pc[w] = "notify"
    /\ WakeAll(moved[w])
    /\ moved' = [moved EXCEPT ![w] = nullptr]
    /\ Goto(w, "pop")
    /\ UNCHANGED <<lock_, counter_, op, callers, listVars>>

-----------------------------------------------------------------------------
Wait(p) ==
    /\ Call(p, "wait")
    /\ UNCHANGED <<lock_, counter_, moved, callers, listVars, eventVars>>

\* Fault: the lock is released before the suspension.
TestAndRelease(p) ==
    /\ pc[p] = "wait"
    /\ Goto(p, IF counter_ = 0 THEN "leave" ELSE "push")
    /\ lock_' = IF counter_ = 0 THEN lock_ ELSE 0
    /\ IF p \in Threads THEN NewAwaiter(p) ELSE UNCHANGED eventVars
    /\ UNCHANGED <<counter_, op, moved, callers, listVars>>

\* Under the lock: a zero ends the call, else DoAwait constructs the awaiter.
Test(p) ==
    /\ pc[p] = "wait"
    /\ Goto(p, IF counter_ = 0 THEN "leave" ELSE "push")
    /\ IF p \in Threads THEN NewAwaiter(p) ELSE UNCHANGED eventVars
    /\ UNCHANGED <<lock_, counter_, op, moved, callers, listVars>>

Leave(p) == pc[p] = "leave" /\ Release(p, "return")

\* The lambda, with the fiber suspended.
Push(p) ==
    /\ pc[p] = "push"
    /\ PushBack(wait_queue_, p)
    /\ Goto(p, "publish")
    /\ UNCHANGED <<lock_, counter_, op, moved, callers, eventVars>>

Publish(p) == pc[p] = "publish" /\ Release(p, "parked")

\* A thread looks at its event, sleeps on it, and looks again when it wakes.
Look(t) ==
    /\ pc[t] = "parked"
    /\ Goto(t, IF IsFired(t) THEN "return" ELSE "sleep")
    /\ UNCHANGED <<lock_, counter_, op, moved, callers, listVars, eventVars>>

Sleep(t) ==
    /\ pc[t] = "sleep"
    /\ IF IsFired(t) THEN Goto(t, "parked") /\ UNCHANGED eventVars
                     ELSE Goto(t, "asleep") /\ FutexWait(t)
    /\ UNCHANGED <<lock_, counter_, op, moved, callers, listVars>>

Awake(t) ==
    /\ pc[t] = "asleep"
    /\ t \notin asleep
    /\ Goto(t, "parked")
    /\ UNCHANGED <<lock_, counter_, op, moved, callers, listVars, eventVars>>

\* A signal, say, ends the futex wait.
Interrupt(t) ==
    /\ WakeForNothing(t)
    /\ UNCHANGED <<lock_, counter_, pc, op, moved, callers, listVars>>

Return(p) ==
    /\ pc[p] = "return"
    /\ Goto(p, "idle")
    /\ UNCHANGED <<lock_, counter_, op, moved, callers, listVars, eventVars>>

-----------------------------------------------------------------------------
LockStep(p) == Lock(p) \/ Spin(p)
WorkStep(w) == LockStep(w) \/ Unlock(w) \/ Add(w) \/ Done(w) \/ Take(w) \/ Put(w)
               \/ Drained(w) \/ Pop(w) \/ WakeFiber(w) \/ WakeThread(w) \/ Notify(w)
WaitStep(p) == LockStep(p) \/ Test(p) \/ Leave(p) \/ Push(p) \/ Publish(p) \/ Return(p)
               \/ (p \in Threads /\ (Look(p) \/ Sleep(p) \/ Awake(p)))

Next ==
    \/ \E w \in Workers : CallAdd(w) \/ CallDone(w) \/ WorkStep(w)
    \/ \E p \in Waiters : Wait(p) \/ WaitStep(p)
    \/ \E t \in Threads : Interrupt(t)

-----------------------------------------------------------------------------
Parked(p) == pc[p] \in {"parked", "sleep", "asleep"}
Joined(p) == counter_ > 0 /\ IsIn(p, wait_queue_)

Phase(p) ==
    CASE pc[p] = "idle" -> "out"
      [] pc[p] \in {"lock", "spin", "wait", "push"} -> "called"
      [] pc[p] = "publish" \/ Parked(p) -> IF Joined(p) THEN "joined" ELSE "released"
      [] OTHER -> "released"

Promise == INSTANCE WaitGroupSpec WITH count <- counter_, phase <- [p \in Waiters |-> Phase(p)]

\* The group keeps the promise of WaitGroupSpec with its lists and its lock
\* that another context releases, and everyone that a zero has released
\* returns, even when the lock is taken again at once (WaitGroup.cpp 9-38).
KeepsPromise ==
    /\ Promise!Spec
    /\ \A p \in Waiters : (Parked(p) /\ ~ Joined(p)) ~> (pc[p] = "idle")

TypeOK ==
    /\ lock_ \in 0 .. 1 /\ counter_ \in 0 .. MaxCount
    /\ counter_ + room <= MaxCount /\ owed <= counter_ /\ room \in Nat /\ owed \in Nat
    /\ moved \in [Workers -> Waiters \union {nullptr}]
    /\ next \in [Waiters -> Waiters \union {nullptr}]

\* Whom Done has in its hands, or in its buffer, is still suspended: its awaiter
\* is written to by PopFront and Wake (WaitGroup.cpp 16-24).
AwaiterAlive ==
    /\ TypeOK
    /\ \A w \in Workers : \A p \in Waiters :
          (pc[w] \in {"put", "wake"} /\ moved[w] = p) \/ IsIn(p, w) =>
              Parked(p) /\ (p \in Threads => ~ IsFired(p))
=============================================================================
