# Verification of DummyConcurrency

TLA+ models of the concurrency library under `src/DummyConcurrency` (fibers, a
thread pool, synchronization for fibers and threads, futures, lock-free data),
the TLC runs that check them on small instances, and TLAPS proofs of theorems
that hold for any number of processes. `PROJECT.json` lists the runs, the
source lines behind every definition, the hazards and the theorems.

Paths below are relative to `src/DummyConcurrency`.

## 1. Inventory

| Component | State it keeps | Operations | What makes it correct | Modules |
|---|---|---|---|---|
| Fiber-aware mutex, `Synchronization/FiberAware/Mutex.cpp` | `head_` (atomic: unlocked, locked, or a stack of awaiters), `tail_` (plain list, owner only), `Next` of each awaiter | Lock, TryLock, Unlock (hand-over to the oldest waiter) | exclusion, FIFO, no lost waiter, no use of a dead awaiter | `FiberMutex` |
| Fiber-aware wait group, `FiberAware/WaitGroup.cpp` | one word: counter and stack of awaiters (`BadPointerWaitGroup`), or counter and list under a spinlock (`SpinlockWaitGroup`) | Add, Done, Wait | Wait returns only for a zero of its own call; every zero releases exactly those who joined; reusable | `FiberWaitGroup`, `SpinlockWaitGroup` |
| Fiber-aware event, `FiberAware/Event.cpp` | one atomic word: not fired, stack, fired | Wait, Fire (once) | nobody sleeps through Fire; no dead awaiter followed | `FiberEvent` |
| Awaiters, `Synchronization/Awaiters` | per waiter: handle, Next, switch flag; per thread: `gSwitchFiberBuffer` | DoAwait, Wake, AfterSuspend | each fiber is in one place; Wake finds the handle | `MutexOnWorkers` |
| Fiber core and scheduling, `Fiber/Core`, `Fiber/Scheduling` | `gCurrentFiber`, coroutine and its caller, awaiter, handle, scheduler | Create, Run, Suspend, SwitchTo, Schedule, Destroy, Go, Yield | a coroutine runs on one thread at a time and comes back to the Run that waits for it; destroyed once | `FiberCore`, `MutexOnWorkers` |
| Stacks, `Fiber/Stack` | free list in the stacks' own memory, under a spinlock; `size_`, `leased_amount_` | AllocateStack, FreeStack, Clear | a stack has one user; the counters count | `StackPool` |
| Thread synchronization, `Synchronization/Thread` | futex words | Event, SpinLock, WaitGroup | no lost futex wake; storage may be freed after Wait | `ThreadEvent`, `ThreadWaitGroup` |
| Thread pool and queue, `Runtime/Scheduler/ThreadPool.cpp`, `DataStructures/IntrusiveUnboundedBlockingQueue.hpp` | task list, mutex, condition variable, `closed_`, `stopped_` | Submit, Start, Stop; Push, Pop, Close | each task runs once, Stop drains and joins | `ThreadPool` |
| Invokers, `Runtime/Invoker` | `gCurrentFiberInvoker` | Invoke | tasks go on after the invoking fiber migrates | `ThreadPool` |
| Contracts of concurrent combinators, `Future/State` | the word of `OneAllStateMachine`, values, callback | SetValue / SetResult, SetCallback, Run, delete | one callback with the right result, one deletion by the last party | `OneAllContract` |
| One-producer contract, promises, combinators, terminators, `Future`, `Syntax`, `Result` | `RendezvousStateMachine`, value, callback, scheduler | SetValue, SetCallback, Run, Submit, Get, Detach, Map, Flatten, Via, ... | every value reaches its callback once, on the right scheduler; a pipeline of futures computes what the plain results do | `FuturePipeline` |
| Shared pointers, lock-free stack, `DataStructures` | stamped pointer, split counts | Load, Store, CAS, copies and moves; Push, TryPop | freed once, after the last reference; atomic | `AtomicSharedPtr`, `LockFreeStack` |
| Intrusive list, `Utils/IntrusiveForwardList.hpp` | head, tail, size | PushBack, PushFront, PopFront, Append, ... | behaves as a sequence | `IntrusiveForwardList` |
| Run loop, inline scheduler, `Runtime/Scheduler` | queue, limit, count | Submit, Run, RunAtMost, RunNext | order and limits | inline: `FuturePipeline` |
| Contexts, implementation layer | registers; none | | outside the models, but for the switch (section 8) | |

How they interact. A synchronization primitive never blocks a fiber's thread:
`DoAwait` suspends the fiber with an awaiter on the fiber's own stack, the
worker calls the awaiter's `OnSuspend` off the fiber, and that call publishes
the awaiter in the primitive's lock-free list. Whoever releases the primitive
calls `Wake`, which schedules the fiber on its scheduler or, for the mutex,
switches to it on the spot and leaves the switched-out fiber in a thread-local
buffer. A plain thread goes through the same lists with a futex event for its
awaiter. Contracts are tasks: the party that completes the meeting submits the
contract to a scheduler whose worker calls `Run`, which calls the callback.

What is hard: an awaiter dies as soon as its process is woken, so every pointer
to it must be given up before; a fiber may run on another worker before the
call that published it returns; CAS loops meet words that changed, and changed
back; a primitive is reused while the last round is still waking; objects
delete themselves; a shutdown races submissions.

## 2. The modules

Each abstract specification is what the modules after it are checked against:

| Promise | Kept by |
|---|---|
| `FifoLock`, a fair lock | `FiberMutex` (checked and proved) |
| `WaitGroupSpec`, a reusable wait group | `FiberWaitGroup`, `ThreadWaitGroup`, `SpinlockWaitGroup` (checked and proved) |
| `SharedRegister`, an atomic register | `AtomicSharedPtr` (checked and proved) |
| `LifoStack`, a stack | `LockFreeStack` (checked and proved) |
| `ForwardLists`, lists as sequences | `IntrusiveForwardList` (checked and proved) |
| `ResultPipes`, the combinators of plain results | `FuturePipeline` (the value of a pipeline, checked and proved) |

Compositions: `MutexOnWorkers` runs `FiberMutex` on fibers and workers;
`LockFreeStack` works on the steps of `AtomicSharedPtr`; `SpinlockWaitGroup` uses
the lists and the thread events, `FiberEvent` the thread events; `OneAllContract` works on
`OneAllStateMachine`; `FiberCore` puts fibers on the stacks of `StackPool`.

What a continuation would take up, in this order: the run loop with an invoker on it; exceptions in
flight at a wake.

## 3. The models

All models have one action per access to shared memory (a load, a CAS, a
store, a step along a list); `pc` says where a process is. Sequential
consistency is assumed, which is what the default memory order of
`std::atomic` gives between the atomics. A weak CAS may fail at any time. Definitions
marked `Fault` are variants of the one below them with a plausible bug; no
specification uses them, and each property is checked to fail with one.

**FifoLock.** What the mutex promises: an owner and a queue of waiters. A
release of a contended lock hands it to the head of the queue in one step.

**FiberMutex.** `head`, `tail`, `next` are `head_`, `tail_` and the awaiters'
`Next`; `expected` and `curr` are the locals. An awaiter is identified with
its process, because it lives on its stack and a process waits once at a time.
`Lock`/`TryLock` is the fast path, `AwaitLoad`, `AwaitLink`, `AwaitCas` and
`AwaitRetry` the lambda given to DoAwait, `Unlock` to `Wake` the release.
The history variables `order`, `taken`, `unreversed` record the waiters in the
order of their CAS, and how many of them have left `head_` and are still to be
reversed; they are read by no guard.

**MutexOnWorkers.** Adds the scheduler's run queue, `gCurrentFiber` and
`gSwitchFiberBuffer` of each worker, the awaiter whose OnSuspend a worker
executes, the handles and the destroyed fibers. Its actions wrap those of
`FiberMutex`: a fiber takes the steps of Lock and Unlock on the worker that runs
it, the steps of the lambda are taken by the worker after the fiber was
suspended, `Wake` becomes a symmetric switch, a schedule, or the wake of a
thread. The run queue is FIFO as in the thread pool; a wake by a fiber of a
fiber always switches, since the exception state that forbids it is not modelled.

**WaitGroupSpec.** The promise of a wait group: a counter, and for each waiter
how far its call of Wait has come. `Done` at 1 releases all who have joined.

**FiberWaitGroup.** `state` is the stamped word, `next` the awaiters' `Next`,
`seen` the locals loaded from the word, `cursor` and `follow` the walk of the
last Done. `owed` and `room` keep the callers to the contract that the code asserts (no
Done before an Add, no overflow of the stamp): any worker may add as long as
the stamp has room and call any Done that is owed. The list of a
word is the least set that is closed under `next` (`Chain`, `Closed`).

**ThreadWaitGroup.** `job_cnt` is the futex word, split into its flag and its
counter; `latest` the local of Wait; `asleep` the threads the kernel keeps on
the word. The futex is external: Wait compares and sleeps in one step, a wake
goes by address and reaches those asleep at that moment, a sleeper may also
wake for nothing. Callers make no Done without its Add (`owed`), and add to a
group at zero only when all calls of Wait have returned (`MayAdd`), as the
tests do; a Done may then still be about to wake, by address only.
It implements `WaitGroupSpec` too, without its `Join`: a
waiter looks at the word again after each sleep instead of being released.
`MCThreadWaitGroup` gives its state names of its own, so that one module can hold
the proofs about both wait groups.

**ThreadPool.** `queue` and `at` (who sleeps, who is about to pop) are the
blocking queue; its mutex makes Push, the test in Pop and Close one step each.
`chain[w]` is the call stack of the worker in `Fiber::Run`, innermost fiber
last; `invoker` is the thread-local `gCurrentFiberInvoker`; `task` says which
task runs on which worker or fiber. A fiber that suspends leaves the chain and is
queued (`Yield`) or waits for a `Wake` or a symmetric switch (`Park`, `SwitchTo`);
whichever worker takes it continues it inside its own invoker's fiber, and
`Check` makes the loop end there. Fibers are addresses: a destroyed one
may be created again elsewhere, so that `gCurrentFiberInvoker` may be stale and
match. Steps that only their own worker sees are taken with the next shared
access. `phase` is the pool's life; `Stop` is called when no fiber waits and no
task has a submission or suspension before it (`Busy`), as the assertions on
`stopped_` and `closed_` demand, while tasks may still be queued or running.

**OneAllStateMachine.** The operations of the word as functions from its value
to the new value and to what the caller is told.

**OneAllContract.** The four contracts; `kind` says which. `values` are the
values in the contract (in the order of the list of TryFirst), `chosen` is
`value_`, `error_result_` or `one_result_`. `pc` follows each producer through
its SetValue/SetResult, `consumer` the consumer through SetCallback, `run` the
task. The history `earlier` records which producers had returned when another
one began.

**FuturePipeline.** A thread builds a pipeline of futures from a source (Submit,
Ready, or a promise kept by another thread), its pipes choose the combinators, and it ends
in Get or Detach. Every future is a contract: `word` is its rendezvous word, `value`,
`callback` and `scheduler` its fields. Each thread has a `stack` of frames, since the
inline scheduler runs a contract inside the call that completed it: a callback runs
the user's function, feeds the next contract, whose callback runs deeper, and each contract is
deleted on the way back. The payload of a result is the set of steps that made it,
so that `GetIsResult` can compare it with `ResultPipes` on the same outcomes.

**AtomicSharedPtr.** `ptr` is the stamped word, `count` the strong and basic
counts of an object, `held` and `own` two SharedPtrs of each thread. One action per access to the word or to a
count. A member `next` of an object is a SharedPtr too, and its destructor
runs in the deletion of the object (`Cascade`), and so on down the chain. Objects are addresses
and are used again once deleted. The history `overtaken` counts the stamps that a
flush has charged to the wrong object (section 6).

**LockFreeStack.** Push and TryPop as sequences of calls of those operations.

**IntrusiveForwardList.** Every operation as an action on head, tail, size and
Next, for its users to compose; by itself it is a user that calls them at will.

**ThreadEvent.** The event in the awaiter of a thread. Its word is on the stack of the
waiter, at the same address in call after call, so a Fire that has stored and not yet woken
meets the thread's next wait. `FiberEvent` and `SpinlockWaitGroup` use it for their threads.

**FiberEvent.** `queue_head_` of each event, `next` of each awaiter; a Wait is the
fast path, then the CAS loop inside the suspension; a Fire exchanges the word and walks the
stack. Each event is fired once, as its class says; waiters wait again on
another one.

**SpinlockWaitGroup.** At the grain of one access to the spinlock or, under it,
to the counter or a list. A Wait keeps the spinlock over its suspension; the
lambda of DoAwait releases it. Done splices the queue into its own list, unlocks and wakes.

**StackPool.** `memory` says what is at each address: nothing, a stack in
somebody's hands ("raw"), a node of the pool's list, or a fiber. `hand` is the local of a
caller that holds a stack. Taking and linking under the spinlock are one step each, the
counters are changed apart, and Clear holds the lock over several steps. `InlineStackPool` is the
other initial choice.

**FiberCore.** An activity is a thread or a coroutine, which is known by its stack. `running` says who executes on a
thread; `context` who is saved in each execution context: the
`coro_context_` of each coroutine and the local `caller_context` of each Resume.
SwitchTo and ExitTo save the running activity in one and restore the other. Runs
nest; a symmetric switch exchanges `caller_context_`, so that the fiber that goes back to a
Run need not be the one it resumed. Any fiber that executes may create, run, wake, switch to,
yield, suspend, or finish; those that wait are in `scheduled` or `awaiting`. Destroy moves the
stack out of the fiber and gives it back through the actions of `StackPool`.

## 4. The runs

| Run | Instance | Shows |
|---|---|---|
| `mutex` | 4 processes, symmetric | no dead awaiter followed (`AwaiterAlive`); the inductive invariant of the proofs, with exclusion, hand-over and no lost waiter (`Inv`); implements `FifoLock` |
| `workers` | 3 fibers on 2 workers, or 1 fiber and 1 thread that use the mutex while other fibers yield | a fiber is in one place; Wake finds the handle; waiters get the mutex, ready fibers run |
| `waitgroup` | 2 workers, 2 waiters, stamp at most 3 | exact counter, no dead awaiter followed, implements `WaitGroupSpec`, a zero wakes everybody it took |
| `threadwg` | 2 workers, 3 waiters, counter at most 3 | nobody touches the word after Wait; no wake lost between CAS and sleep; implements `WaitGroupSpec`; the inductive invariant of the proofs |
| `sync` | 2 events with 2 waiters (two threads, or a thread and a fiber); or the spinlock wait group with 2 workers and 2 waiters; or 3 lists of 3 nodes | awaiters are not touched when gone, nobody is woken too early (`WaitersAreRight`) or left waiting (`FiredWaiterReturns`); `KeepsPromise` is the refinement of `WaitGroupSpec`, `IsLists` that of `ForwardLists` |
| `fibers` | 2 threads, 3 stacks, with or without a pool | no stack lost or handed to two (`StackHasOneUser`); each activity in one place, and back to its caller and thread (`ContextIsRight`) |
| `pool` | 2 workers, 2 tasks, 4 fibers, at most 2 steps per task | each task and fiber in one place; nobody sleeps beside work; nesting of at most two; every task ends; Stop returns with nothing left |
| `contracts` | 2 producers, all kinds and results | one callback with the right results, as soon as decided; one deletion, by the last; no leak |
| `futures` | all well-typed pipelines of 2 pipes, all failures, 1 pool worker | a contract runs once with both parts in place; callbacks run where Via has said; the value is that of the plain results; nothing hangs or leaks |
| `shared_ptr` | 2 threads, 2 objects, stamp at most 3, 5 calls, symmetric | nothing is deleted while referenced; what is unreferenced is deleted, but for a known leak; the stamp fits; the register is atomic; the stack is a stack |
| `contracts_first_ok` | 2 producers | expected violation, see section 6 |
| `leased_amount` | 1 thread, 2 stacks, counters modulo 4 | expected violation, see section 6 |

Bounds. The mutex, the wait groups, the lists and the fibers have no bound on
the number of calls. Four processes on the mutex give an owner, a waiter being
handed the lock, one in `tail_` and a new one in `head_` at the same time,
which are all the places a waiter can be; the proofs remove the bound. Two waiters
and a stamp of 3 give a list with an inner node, a Done that is not the last,
and a new round begun while the last Done walks; more rounds repeat these
states because the counter returns to zero. Three waiters on the
futex word give one announced, one asleep and one arriving, while a Done clears the
flag and another thread adds; the proofs remove this bound as well. Two workers are enough for a fiber
to be resumed elsewhere while the worker it left is still in OnSuspend.
Two events and two waiters are enough for a waiter to wait again, at the same address, while
the Fire that released it is still on its way to the futex. Three stacks give
a run nested in a run, or a symmetric switch on one thread while the other thread nests, and, in the pool, a node
behind another one. The counters of the pool are left out of `fibers` (`Modulus`
is 1: no guard reads them); `leased_amount` has them. In
the pool, two tasks of two steps let a fiber migrate, end or suspend
inside another, be switched to, and have its address used again; a fiber per
worker and per task is all that can exist. `MaxSteps` makes tasks end. The
combinators create their contracts for exactly two producers. Two pipes cover every pair of
neighbours; behind a Via, the pair is fed by another thread. With two threads, a
stamp of 3 is the smallest that the code's arithmetic allows (`EnoughStamps`: above the half
there must be room for a Load of every thread); five calls are the most that
fit the time, and enough for an overtaken flush, a re-used address and a chain of deletions.

Deadlock is checked except where the system may end: fibers finish, a pool is
stopped, a contract is deleted, a pipeline or a client is done, each event was fired.

Symmetry is used for `mutex` and `shared_ptr`, over processes, threads and
addresses that are interchangeable; the refinements there are safety properties (an
initial predicate and a step predicate) that treat these alike.

## 5. Fairness

* Wait group: each process takes its next step (weak fairness). Threads
  are preempted but run again. No process is obliged to join; a worker of the group finishes a
  Done that it has begun and begins those owed. A weak CAS may lose to others
  for ever: Wait is lock-free until it has joined the waiters, so return is
  claimed from there on.
* Thread wait group, events: as the wait group. A sleeper is not obliged to wake
  (`WakeForNothing`, `Interrupt` have no fairness), so only WakeAll can be what wakes it. Fire
  finishes once begun.
* Workers: each worker goes on. Fibers cooperate: nothing preempts them, so the
  run assumes (strong fairness) that a fiber that can yield or finish
  again and again does so, and that a fiber leaves its critical section; and
  that a CAS that can succeed again and again does (`CasResolves`), since a thread that locks and unlocks for ever in
  step with a fiber's CAS can hold the worker in OnSuspend, as lock-freedom allows.
* Thread pool: workers run, a task has a bounded number of steps (a task that
  runs for ever would keep its worker), a waiting fiber is woken, and Stop goes
  on once called. Spurious wakes have no fairness, and nobody needs to submit.
* Contracts: who has begun goes on, and the scheduler runs what was submitted.
  Producers need not begin, so `CallbackRuns` really is about early delivery.
* Pipelines: every thread goes on, some worker takes what is in the queue, and the
  promise is kept.
* The spinlock promises no fairness, so no liveness is claimed of the wait group on it.

## 6. What was found

* `contracts_first_ok`: `TryFirstContract::AddResult` stores each success
  unconditionally, so of two successes that come one after the other before the
  consumer, the later is handed over; the comment on `FirstOk` says "First
  success / last error".
* `leased_amount`: `StackPool::AllocateStack` counts a stack as leased only when it is
  new, while `FreeStack` discounts every stack. After one reuse the unsigned
  `leased_amount_` is wrong and wraps; the tests expect 0 of a pool at rest
  (`Tests/DummyConcurrency/Scheduler/FiberInvoker/Unit.cpp:35`), which holds there because no stack is reused.
* Two that no test or comment of the repository speaks about, so no run is about them.
  `RendezvousStateMachine::IsReady` (`Future/State/Rendezvous.hpp:11`) has `|` where
  `&` is meant and is always true; nothing calls it. And a flush in
  `AtomicSharedPtr::Load` (lines 171-180) that is overtaken by a Store and another Store
  of the same pointer charges its object with a stamp that was charged already: that object is never
  deleted. `UnreferencedIsDeleted` is stated so that only such an object may stay.

## 7. Proofs

`MutexProofs` proves of the mutex, for every set of processes:

* `Invariance`: `Spec => []Inv`. The properties are not inductive by
  themselves: that Unlock does not follow a dead pointer depends on what the
  pointers spell. `Inv` therefore says that `head_`, the rest being reversed, and
  `tail_` are exactly the three segments of `order` (`HeadIsStack`,
  `RestIsStack`, `TailIsReady`), each with its terminator, that the waiters in it are parked
  and distinct (`WaitersAreParked`), that a handed-over process is due exactly one
  Wake (`HandOverIsOnce`), and that `head_` is unlocked exactly when nobody owns
  the mutex (`FreeIsUnlocked`).
* `TypeCorrect`, `MutexIsExclusive`, `AwaitersAreAlive`, `WaitersAreNotLost`:
  the safety properties, as consequences.
* `FiberMutexImplementsFifoLock`: every step is a step of `FifoLock` or leaves
  owner and queue alone: the CAS that parks is `Enqueue`, `Pop` is `HandOver`.

Its only assumption is `PointersAssumption`: the two special pointers differ
from each other and from every awaiter (the code: a null pointer, 1, and
aligned addresses).

Its second part is about the fibers that workers and threads use the mutex from, for any workers
and threads and any finite set of fibers (`MutexOnWorkers`):

* `WorkersUseMutex`: `SchedSpec => Spec`. Suspension, hand-over of handles, switches and the
  run queue only restrict when a process takes its next step of the mutex; so everything above
  holds under the scheduler (`MutexOfWorkersIsRight`).
* `FibersAreInOnePlace`: `SchedSpec => []FiberIsInOnePlace`. The property counts places; the
  invariant `SInv` says the same place by place: what a worker runs or keeps in its switch buffer
  is nowhere else (`WorkersApart`, `PlacesApart`), a fiber is queued once (`QueueIsSet`), none
  is lost (`NoneIsLost`). A switch finds the buffer free because whoever runs while the
  buffer is full has not returned from DoAwait yet (`BufferIsTransient`).
* `WakerFindsHandle`: `SchedSpec => []WakeFindsHandle`. It needs both invariants: the
  mutex's says that who is handed the lock is parked and not woken, and `SInv`
  (`SuspendRight`, `HandlesRight`) that a fiber in that state has left its handle, and
  that the worker that ran its OnSuspend has let go of it.

It assumes `WorkersAssumption` besides: fibers are processes, finitely many, and not null. That
the fibers start in the run queue, each once, is a permutation of the finite set in
`SchedInit`; that it has them all takes the library's theorem about injections between
sets of one size.

`FiberCoreProofs` proves of the pool of stacks by itself, for any processes and any finite set of stacks:

* `StacksAreNotShared`: `PoolSpec => []StackHasOneUser`, where `PoolSpec` is the pool used by any
  number of processes. The property says that the nodes outside anybody's hands
  are exactly those of the list, each once. `PoolIInv` adds only which labels have a stack
  in hand and what is in it (`HandsMatchCalls`). The work is in the list: it is a function from `1 .. n`, and each step
  that takes its head or puts a new one shows how it is shifted (`ListLosesHead`,
  `ListGetsHead`), with the library's theorems on cardinality for its length.

It assumes `StackPoolAssumption`: addresses are not null, the heap is finite.

It proves of the fibers, for any threads and any finite heap:

* `FiberStacksAreNotShared`: `StackHasOneUser` again, of the pool whose stacks are under fibers.
  The callers of the pool are now threads and fibers, and a fiber's Destroy gives back the very
  stack that the fiber was on. It cites the lemmas of the pool for the pool's steps.
* `ContextsAreRight`: `Spec => []ContextIsRight`. The property is about contexts; why they are right
  depends on who holds each fiber that waits. The invariant adds who is saved where
  (`SavedRight`), that a waiting fiber is held by one (the scheduler, an awaiter, the switch
  buffer, the Run that it comes back to, or its Destroy: `HeldRight`), and that
  callers are right (`CallersRight`).

That the callers lead to the thread is not said with a path, which would be
recursive: no two fibers have the same caller, each caller is in a Run, and
there is a map of the activities to threads that is the identity on threads,
puts what a thread executes on that thread and agrees along callers. Since
nobody calls what executes, and the heap is finite, the walk from it along the
callers can neither return to where it was nor go on for ever: it ends in a
thread, and the map says in which.

It assumes, besides, `FiberCoreAssumption` (the callers of the pool are threads
and fibers, there is a thread and none is a stack) and `ContextAssumption` (no
context is at null).

`WaitGroupProofs` proves of the wait group of fibers, for any waiters, any finite set of workers
and every width of the stamp:

* `CounterIsRight`: from an account (`CountIsKept`): the stamp is what is owed and the Done
  calls on their way, and with the room left and the units of the Adds on their
  way it makes up `kMaxStamp`. The Adds are counted as a set of pairs (`Units`),
  so that the library's theorems on cardinality apply.
* `AwaitersAreAlive`: the invariant says where pointers lead (`PointersAreLive`: to waiters
  that wait and are not yet woken) and that there is at most one to each
  (`PointersAreUnique`), from the word, from the walk of a Done or from another
  waiter. So the waiter that a Done wakes is known to nobody else when it is gone.
* `FiberWaitGroupImplementsPromise`: the CAS of a waiter is `Join`; the CAS of the last
  Done releases at once all that its walk will reach, since the awaiters that
  wait are those of the one list or of a walk that goes on.

It assumes `WaitGroupAssumption`: no null waiter, nobody on both sides, finitely
many workers, a stamp that can count.

Of the wait group of threads it proves, for all sets of workers and waiters and every
bound of the counter:

* `ThreadGroupInvariance`: `ThreadSpec => []ThreadInv`. That the word is left alone after Wait is
  not inductive: the invariant adds that a Done which is to take the flag back is alone and
  finds flag and zero (`FlagIsTakenBack`), that a set flag always has a waiter
  which cannot return before it is cleared (`FlagHasWaiter`), and that labels
  and sleepers agree (`EverybodyInPlace`).
* `ThreadGroupTypes`, `StorageMayBeFreed`, `NoWakeIsLost`, as consequences.
* `ThreadWaitGroupImplementsPromise`: `Load` of a zero is `Observe`; the steps
  of announcing, sleeping and waking change nothing that is promised.

It assumes `ThreadWaitGroupAssumption`: no thread is on both sides, and the
bound is positive.

`SynchronizationProofs` proves of the events, for any events, threads and fibers:

* `EventWaitersAreRight`: nobody leaves an event that was not fired, and Fire touches no awaiter
  that has left. Fire reads `Next` of an awaiter and then wakes it, after which its storage may be
  gone: what makes this right is that every pointer, from the word, from another awaiter or
  from the walk, leads to an awaiter that still waits (`PointersLive`), and that no two lead to the same
  one (`PointersOnce`). So the awaiter that is woken is known to nobody else.

and of the wait group with the spinlock, for any waiters and any finite set of workers:

* `WaitersAreServedRight`: `MCSpec => []WaitersAreRight`, of both together. Who has the spinlock is
  known by its label, over the suspension in Wait as well (`LockRight`); the
  counter is what is owed and the Done calls on their way (`CountRight`).
  Each awaiter is in one list at most: there is a map `at` of the awaiters to lists with which heads,
  tails and `Next` agree (`Shape`) and which the calls agree with (`Holders`).
  What can be reached from a head is the least set that has the head and is
  closed under `Next`. Those placed in a list are such a set, so nobody else is reached.
* `GroupKeepsPromise`: `MCSpec => Promise!Spec`, the refinement of `WaitGroupSpec`. Done at
  zero releases those that were waiting; so it must find in the queue whoever has joined, and
  when it has left with the queue, no call of Wait may wait that has not been
  released. `QueueRight` adds that the tail of a queue that is not empty is reached from its
  head, so that a PushBack is; that a queue with counter zero is empty or being
  taken over by the Done that brought it there; and that whoever is about
  to push has seen a unit under the lock that he still has.

and of their lists, for any lists and any finite set of nodes:

* `ListsAreSequences`: `MCSpec => IsLists`, the refinement of `ForwardLists`, whether the lists are
  called at will or by the wait group. The invariant `SpellsInv` says that there are sequences that the
  pointers spell (`Spelled`), in which no node is twice (`Apart`), and that a node in none of them has
  no Next (`RestIsReset`), which PushFront on an empty list depends on. Each call leaves the sequences that
  the promise says. What ForEach visits is defined by recursion; that it is such a sequence,
  so that no other is spelled, is shown with the least index at which the two differ
  (`VisitsAre`); that it ends, with the pigeonhole principle (`LengthsBounded`). The wait group
  pushes only who is in no list: `at` says so, and who is in a sequence is reached from its
  head (`InSeqIsIn`).

It assumes `EventConstantsAssumption` (there are events, no event is a waiter, and the two special values
of the word differ and are nobody's address) and `SpinlockWaitGroupAssumption` (each worker has its own
list, besides the queue; no worker waits; no null; finitely many workers), and `ListsAssumption` (finitely
many nodes, none at null).

`OneAllContractProofs` proves, for any finite set of producers and any of the
four contracts:

* `ContractRunsOnce`, `ContractIsDeletedLast`: the word is who has come (`WordIsRight`), and there
  is one token, the right to run, from the meeting on (`OneRunner`), and one, the
  duty to delete, from the end of Run and of all producers on (`OneDeleter`).
  "By nobody" is excluded as well as "by two".
* `CallbackIsServed`: `ValuesAreRight` and `PickIsRight` follow the values into the choice
  that Run loads and delivers.

It assumes `ContractAssumption`: producers are there and finitely many.

`FuturePipelineProofs` proves, for any programs of any length and any workers of the pool:

* `RunsOnce`: `Spec => []ContractRunsOnce`. That the second to come submits the contract, and
  nobody else, is a matter of who may come at all. So the invariant keeps an account of owners
  (`OwnersAreRight`): each contract has one party that is to set its value (`P`) and one that is to subscribe to
  it (`C`), a frame of one thread, a callback, a value, a task of the pool or the user,
  and a state of its own run (`Q`); some such account agrees with the words, the
  stacks, the heap and the pool (`Owned`). A frame is named by its depth from the outermost, so that the
  inline runs that a call starts above it do not move it. Each step of a thread
  replaces its top frame by the calls it makes, and hands what that frame owned
  on to them; all other owners stay (`Stays`).
* `RunsOnItsScheduler`, `GetReturnsTheResult`: with the owners known, what goes along is followed
  from step to step (`ValuesAreTold`): it is the result that the pipeline of plain results has at that
  step (`IsEvaluation`), and the scheduler is the one the nearest Via before has
  told (`ToldToRunOn`). That there is such an evaluation of every length is shown with the least number
  without one, which the library's well-foundedness of inclusion provides (`LeastNumber`).

It assumes `PipelineAssumption`: the programs are sources, pipes and ends of the known kinds, and no worker is
another of the threads.

`LockFreeStackProofs` proves of the shared pointer, under the stack or under a
client that calls every operation at will, for any finite sets of threads and
addresses and any number of calls:

* `ReferencesAreAlive`, `NothingLeaksButTheOvertaken`, `StampsFit`. References are in many places, and
  a count is nowhere complete: a Load takes its reference by raising the stamp of
  the word, a Store takes the stamp out and charges it later, a flush moves a
  stamp in two steps. The invariant (`Balanced`) is the balance of each object: its
  strong count is the register, the calls that have prepared a reference for it,
  those that took it out and are to charge it, and the flushes; its basic count,
  with the stamp in the word and the stamps still to be charged, is at least the
  number of SharedPtrs and members that refer to it, and equal to it unless a
  flush was overtaken (section 6). `LocalInPlace` says what each label
  knows of its locals, `JobsInPlace` what the stack knows of its calls.
* `SharedPtrImplementsRegister`: each step is a Load, a CAS that wins or loses, another
  step of the register, or one that it does not see; what matters is that an
  address in the register or a call was not used again meanwhile, which is the balance.
* `StackIsLastInFirstOut`: `StackSpec => IsStack`, the refinement of `LifoStack`. What a win does to the
  stack depends on what was read before it: TryPop puts in the Next that it read from the node it
  found, Push puts in a node whose Next is what it loaded. `InItsCall` says that this is still so when the call wins,
  since a node that somebody holds is alive and keeps its Next (`TopsKeep`). `Hidden` says that a
  node not yet pushed is referred to by its pusher only, so that no other node leads to it.
  `Contains(s)`, that the pointers lead from `top_` along the sequence `s` of different, live nodes to the
  end, says that the abstract stack is `s` (`ChainIs`, where the recursive definition of what is visited is
  compared with `s` up to the least index at which they would differ). A chain whose nodes keep their Next is alive
  in the next state from its first node on, each kept by the one before it (`LinkedMoves`).

It assumes `SharedPtrAssumption` (no null object; threads and addresses are
finitely many) and `EnoughStamps` (above its half the stamp has room for a Load of
every thread, as the 16 bits of the code have for up to 32768 threads).

`ThreadPoolProofs` proves, for any tasks, any finite sets of workers and fibers and
any number of steps of a task:

* `TasksAndFibersAreInOnePlace`: a fiber waits or is in one chain, once (`FibersInPlace`). That no
  task is lost with its fiber, or put over another one, is not inductive: the
  invariant adds that the fibers that carry a task are those that wait and
  the innermost one of each worker that runs (`TasksInPlace`).
* `FibersDoNotPileUp`: `LoopInPlace` says how long the chain is where in the loop, and that the outer
  one of two fibers is the invoker's. A stale `gCurrentFiberInvoker` may name a fiber that was created
  again; then that fiber takes tasks here, which is why the invariant says nothing of a
  chain of one fiber before it pops.
* `WorkIsNotSleptBeside`: inductive by itself; the steps count the workers that are about to pop.
* `StopLeavesNothing`: the safety part of `StopReturns`. `PhaseRight` says that nothing is pushed from Stop on and
  that a worker has gone only from an empty, closed queue.

It assumes `ThreadPoolAssumption`: a pool has workers, finitely many, and finitely many addresses
of fibers; tasks, workers and fibers are not each other where they are told apart, and none is null.

## 8. What is only model-checked, and what is not modelled

Only model-checked: liveness everywhere, because fairness and ENABLED are beyond the prover (the
safety half of each promise is proved).

Not modelled:

* the registers and the assembler of machine contexts, and the annotations for
  sanitizers: a switch is modelled by what it does;
* exceptions in flight: Yield's early return and the mutex's choice between
  a switch and a schedule depend on `IsSwitchAllowed`, which is taken to be true;
* the run loop: sequential, one thread's queue with a limit and a counter; its tasks, invokers
  and fibers are the same as those of the thread pool and of nested runs in `FiberCore`;
* `Contract::IsReady`, which changes nothing and which nothing calls;
* a SharedPtr assigned from a member of the very object that the assignment releases
  (`AtomicSharedPtr.hpp:94`), which the library does not do;
* calls that the assertions forbid: a counter beyond its width, a Done without its Add, a second
  Fire of one event, a submission after Stop;
* the implementation layer (aliases; the futex and the condition variable are external parts
  of the models); weak memory orders (the code uses the default order);
* tests, benchmarks and examples.
