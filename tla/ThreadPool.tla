----------------------------- MODULE ThreadPool -----------------------------
(***************************************************************************)
(* The thread pool of Runtime/Scheduler/ThreadPool.cpp on its blocking     *)
(* queue, with either of the invokers: the inline one, which runs tasks on *)
(* the worker, or FiberInvoker, which runs them on a fiber so that a task  *)
(* may suspend.  The suspended fiber is a task itself: the worker that     *)
(* takes it runs it inside the fiber of its own invoker.                   *)
(*                                                                         *)
(* The queue's mutex makes Push, the test of Pop and Close single steps;   *)
(* pop_wait_ is the set of the workers that sleep.  What only its own      *)
(* worker can see (gCurrentFiber, gCurrentFiberInvoker, the call stack) is *)
(* changed together with the next shared access.                           *)
(*                                                                         *)
(* Callers stop the pool when nothing more will be submitted: no fiber     *)
(* waits to be woken, and no task will submit or suspend.  Tasks that are  *)
(* queued or running are left to the pool.                                 *)
(***************************************************************************)
EXTENDS Naturals, Sequences, FiniteSets

Seqs == INSTANCE SequencesExt

CONSTANTS
    Workers,    \* the threads of the pool
    Tasks,      \* what Submit may be called with
    Fibers,     \* addresses of fibers; a destroyed one is used again
    nullptr,
    MaxSteps    \* how often a task may submit or suspend

ASSUME ThreadPoolAssumption ==
    /\ Workers # {}
    /\ Tasks \intersect Fibers = {} /\ Workers \intersect Fibers = {}
    /\ IsFiniteSet(Workers) /\ IsFiniteSet(Fibers)
    /\ nullptr \notin Tasks \union Fibers
    /\ MaxSteps \in Nat

VARIABLES
    phase,      \* of the pool: "new", "started", "stopping" (stopped_), "closed" (closed_), "joined"
    onFibers,   \* invoker_ is a FiberInvoker
    queue,      \* queue_
    at,         \* at[w]: where the worker is in its loop
    invoker,    \* invoker[w]: gCurrentFiberInvoker
    chain,      \* chain[w]: the fibers in Fiber::Run on w, the innermost last
    task,       \* task[x]: the task that runs on x, a worker or a fiber
    alive,      \* the fibers that exist
    parked,     \* the fibers that wait to be woken
    left,       \* left[t]: how often t may still submit or suspend
    submitted,  \* the tasks that were submitted
    finished    \* the tasks that have run and deleted themselves

vars == <<phase, onFibers, queue, at, invoker, chain, task, alive, parked, left, submitted, finished>>

Init ==
    /\ phase = "new"
    /\ onFibers \in BOOLEAN
    /\ queue = <<>>
    /\ at = [w \in Workers |-> "off"]
    /\ invoker = [w \in Workers |-> nullptr]
    /\ chain = [w \in Workers |-> <<>>]
    /\ task = [x \in Workers \union Fibers |-> nullptr]
    /\ alive = {}
    /\ parked = {}
    /\ left = [t \in Tasks |-> 0]
    /\ submitted = {}
    /\ finished = {}

Sleepers == {w \in Workers : at[w] = "asleep"}

\* Who executes on w: its innermost fiber, or the worker itself.
Top(w) == IF chain[w] = <<>> THEN w ELSE Seqs!Last(chain[w])

-----------------------------------------------------------------------------
\* The queue.

\* Fault: only a push to an empty queue is notified.
NotifyFirst(a) ==
    IF Sleepers = {} \/ queue # <<>> THEN {a} ELSE {[a EXCEPT ![v] = "pop"] : v \in Sleepers}

\* notify_one: one of the sleepers, if there are any.
NotifyOne(a) ==
    IF Sleepers = {} THEN {a} ELSE {[a EXCEPT ![v] = "pop"] : v \in Sleepers}

\* Push; the workers are then where `a` says, but for the one that is woken.
Push(x, a) ==
    /\ queue' = Append(queue, x)
    /\ at' \in NotifyOne(a)

\* Submit of a task, by a client or by a task.
SubmitTask(t) ==
    /\ t \notin submitted
    /\ submitted' = submitted \union {t}
    /\ Push(t, at)

\* Fault: only one worker is told.
CloseOne ==
    /\ phase = "stopping"
    /\ phase' = "closed"
    /\ at' \in NotifyOne(at)
    /\ UNCHANGED <<onFibers, queue, invoker, chain, task, alive, parked, left, submitted, finished>>

\* Close of the queue, in Stop.
Close ==
    /\ phase = "stopping"
    /\ phase' = "closed"
    /\ at' = [w \in Workers |-> IF w \in Sleepers THEN "pop" ELSE at[w]]
    /\ UNCHANGED <<onFibers, queue, invoker, chain, task, alive, parked, left, submitted, finished>>

-----------------------------------------------------------------------------
\* The pool and its clients.

Start ==
    /\ phase = "new"
    /\ phase' = "started"
    /\ at' = [w \in Workers |-> IF onFibers THEN "invoke" ELSE "pop"]
    /\ UNCHANGED <<onFibers, queue, invoker, chain, task, alive, parked, left, submitted, finished>>

Submit(t) ==
    /\ phase \in {"new", "started"}
    /\ SubmitTask(t)
    /\ \E n \in 0 .. MaxSteps : left' = [left EXCEPT ![t] = n]
    /\ UNCHANGED <<phase, onFibers, invoker, chain, task, alive, parked, finished>>

\* Schedule of a fiber that waits, by whoever wakes it.
Wake(f) ==
    /\ f \in parked
    /\ parked' = parked \ {f}
    /\ Push(f, at)
    /\ UNCHANGED <<phase, onFibers, invoker, chain, task, alive, left, submitted, finished>>

\* The tasks that still may submit or suspend.
Busy == {t \in submitted \ finished : left[t] > 0}

Stop ==
    /\ phase = "started"
    /\ parked = {}
    /\ Busy = {}
    /\ phase' = "stopping"
    /\ UNCHANGED <<onFibers, queue, at, invoker, chain, task, alive, parked, left, submitted, finished>>

Join ==
    /\ phase = "closed"
    /\ \A w \in Workers : at[w] = "gone"
    /\ phase' = "joined"
    /\ UNCHANGED <<onFibers, queue, at, invoker, chain, task, alive, parked, left, submitted, finished>>

-----------------------------------------------------------------------------
\* The workers.

\* Fault: the fiber is created before the loop.
InvokeSame(w) ==
    /\ at[w] = "invoke"
    /\ \E f \in IF invoker[w] = nullptr THEN Fibers \ alive ELSE {invoker[w]} :
          /\ alive' = alive \union {f}
          /\ invoker' = [invoker EXCEPT ![w] = f]
          /\ chain' = [chain EXCEPT ![w] = <<f>>]
    /\ at' = [at EXCEPT ![w] = "pop"]
    /\ UNCHANGED <<phase, onFibers, queue, task, parked, left, submitted, finished>>

\* Fiber::Create, on a free stack, which may be that of a destroyed fiber.
Create(f) == f \notin alive /\ alive' = alive \union {f}

\* Fiber::Destroy.
Destroy(f) == alive' = alive \ {f}

\* FiberInvoker::Invoke: a new fiber begins FiberBody.
Invoke(w) ==
    /\ at[w] = "invoke"
    /\ \E f \in Fibers :
          /\ Create(f)
          /\ invoker' = [invoker EXCEPT ![w] = f]
          /\ chain' = [chain EXCEPT ![w] = <<f>>]
    /\ at' = [at EXCEPT ![w] = "pop"]
    /\ UNCHANGED <<phase, onFibers, queue, task, parked, left, submitted, finished>>

\* Fault: Invoke does not begin again after a suspension.
LeftForGood(w, inv) == IF Len(chain[w]) > 1 THEN "check" ELSE "gone"

\* Where the worker goes on when the innermost fiber has left it: in the
\* FiberBody that ran it, or in the loop of Invoke.
Left(w, inv) ==
    IF Len(chain[w]) > 1 THEN "check" ELSE IF inv = nullptr THEN "gone" ELSE "invoke"

\* The body of the innermost fiber returns, and Fiber::Run destroys it.
Complete(w, inv) ==
    /\ Destroy(Top(w))
    /\ chain' = [chain EXCEPT ![w] = Seqs!Front(@)]
    /\ invoker' = [invoker EXCEPT ![w] = inv]
    /\ at' = [at EXCEPT ![w] = Left(w, inv)]

\* The task, or the suspended fiber, at the head of the queue runs.
Take(w) ==
    /\ at[w] = "pop"
    /\ queue # <<>>
    /\ queue' = Tail(queue)
    /\ IF Head(queue) \in Tasks
         THEN task' = [task EXCEPT ![Top(w)] = Head(queue)] /\ UNCHANGED chain
         ELSE chain' = [chain EXCEPT ![w] = Append(@, Head(queue))] /\ UNCHANGED task
    /\ at' = [at EXCEPT ![w] = "run"]
    /\ UNCHANGED <<phase, onFibers, invoker, alive, parked, left, submitted, finished>>

\* pop_wait_.wait.
Sleep(w) ==
    /\ at[w] = "pop"
    /\ queue = <<>> /\ phase # "closed"
    /\ at' = [at EXCEPT ![w] = "asleep"]
    /\ UNCHANGED <<phase, onFibers, queue, invoker, chain, task, alive, parked, left, submitted, finished>>

WakeForNothing(w) ==
    /\ w \in Sleepers
    /\ at' = [at EXCEPT ![w] = "pop"]
    /\ UNCHANGED <<phase, onFibers, queue, invoker, chain, task, alive, parked, left, submitted, finished>>

Drained == queue = <<>> /\ phase = "closed"

\* Pop returns nullptr: the loop of tasks ends for good.
Leave(w) ==
    /\ at[w] = "pop"
    /\ Drained
    /\ IF chain[w] = <<>>
         THEN at' = [at EXCEPT ![w] = "gone"] /\ UNCHANGED <<invoker, chain, alive>>
         ELSE Complete(w, nullptr)
    /\ UNCHANGED <<phase, onFibers, queue, task, parked, left, submitted, finished>>

-----------------------------------------------------------------------------
\* What a task does.

Running(w) == at[w] = "run"

MayStep(w) == Running(w) /\ left[task[Top(w)]] > 0

SubmitFromTask(w) ==
    /\ MayStep(w)
    /\ \E t \in Tasks, n \in 0 .. MaxSteps :
          /\ SubmitTask(t)
          /\ left' = [left EXCEPT ![task[Top(w)]] = @ - 1, ![t] = n]
    /\ UNCHANGED <<phase, onFibers, invoker, chain, task, alive, parked, finished>>

\* Fiber::Suspend: Run returns on the worker.
Suspend(w) ==
    /\ onFibers
    /\ MayStep(w)
    /\ left' = [left EXCEPT ![task[Top(w)]] = @ - 1]
    /\ chain' = [chain EXCEPT ![w] = Seqs!Front(@)]
    /\ UNCHANGED <<phase, onFibers, invoker, task, alive, submitted, finished>>

Yield(w) ==
    /\ Suspend(w)
    /\ Push(Top(w), [at EXCEPT ![w] = Left(w, invoker[w])])
    /\ UNCHANGED parked

Park(w) ==
    /\ Suspend(w)
    /\ parked' = parked \union {Top(w)}
    /\ at' = [at EXCEPT ![w] = Left(w, invoker[w])]
    /\ UNCHANGED queue

\* A fiber wakes another by a symmetric switch and is scheduled by it.
SwitchTo(w) ==
    /\ onFibers
    /\ Running(w)
    /\ \E f \in parked :
          /\ parked' = parked \ {f}
          /\ chain' = [chain EXCEPT ![w] = Append(Seqs!Front(@), f)]
    /\ Push(Top(w), at)
    /\ UNCHANGED <<phase, onFibers, invoker, task, alive, left, submitted, finished>>

\* The task returns.
Finish(w) ==
    /\ Running(w)
    /\ finished' = finished \union {task[Top(w)]}
    /\ task' = [task EXCEPT ![Top(w)] = nullptr]
    /\ at' = [at EXCEPT ![w] = "check"]
    /\ UNCHANGED <<phase, onFibers, queue, invoker, chain, alive, parked, left, submitted>>

\* Fault: FiberBody does not look where its task has taken it.
GoesOnAnywhere(w) == TRUE

\* The fiber is still the one of this worker's invoker.
GoesOn(w) == Top(w) \in {w, invoker[w]}

\* After task->Run().
Check(w) ==
    /\ at[w] = "check"
    /\ IF GoesOn(w)
         THEN at' = [at EXCEPT ![w] = "pop"] /\ UNCHANGED <<invoker, chain, alive>>
         ELSE Complete(w, invoker[w])
    /\ UNCHANGED <<phase, onFibers, queue, task, parked, left, submitted, finished>>

Loop(w)     == Invoke(w) \/ Take(w) \/ Sleep(w) \/ Leave(w) \/ Check(w)
TaskDoes(w) == SubmitFromTask(w) \/ Yield(w) \/ Park(w) \/ SwitchTo(w) \/ Finish(w)

Next ==
    \/ Start \/ Stop \/ Close \/ Join
    \/ \E t \in Tasks : Submit(t)
    \/ \E f \in Fibers : Wake(f)
    \/ \E w \in Workers : Loop(w) \/ TaskDoes(w) \/ WakeForNothing(w)

Spec == Init /\ [][Next]_vars

\* The workers run and Stop goes on.  A task does not run for ever and a fiber
\* that waits is woken; nobody needs to submit, or to stop the pool.
FairSpec ==
    /\ Spec
    /\ \A w \in Workers : WF_vars(Loop(w) \/ TaskDoes(w))
    /\ \A f \in Fibers : WF_vars(Wake(f))
    /\ WF_vars(Close \/ Join)

-----------------------------------------------------------------------------
TypeOK ==
    /\ phase \in {"new", "started", "stopping", "closed", "joined"}
    /\ onFibers \in BOOLEAN
    /\ queue \in Seq(Tasks \union Fibers)
    /\ at \in [Workers -> {"off", "invoke", "pop", "asleep", "run", "check", "gone"}]
    /\ invoker \in [Workers -> Fibers \union {nullptr}]
    /\ chain \in [Workers -> Seq(Fibers)]
    /\ task \in [Workers \union Fibers -> Tasks \union {nullptr}]
    /\ alive \subseteq Fibers
    /\ parked \subseteq alive
    /\ left \in [Tasks -> 0 .. MaxSteps]
    /\ finished \subseteq submitted /\ submitted \subseteq Tasks
    /\ \A w \in Workers : Running(w) => task[Top(w)] # nullptr

QueuedTimes(x) == Cardinality({i \in DOMAIN queue : queue[i] = x})

TaskPlaces(t) == QueuedTimes(t) + Cardinality({x \in DOMAIN task : task[x] = t})

FiberPlaces(f) ==
    QueuedTimes(f) + Cardinality({f} \intersect parked)
    + Cardinality({c \in Workers \X (1 .. Cardinality(Fibers)) :
                     c[2] \in DOMAIN chain[c[1]] /\ chain[c[1]][c[2]] = f})

\* A submitted task waits in the queue once or runs on one worker or fiber until
\* it is finished; a fiber that exists runs on one worker, is queued once or
\* waits to be woken.  None is lost, run twice or left over.
EverythingIsInOnePlace ==
    /\ TypeOK
    /\ \A t \in Tasks : TaskPlaces(t) = IF t \in submitted \ finished THEN 1 ELSE 0
    /\ \A f \in Fibers : FiberPlaces(f) = IF f \in alive THEN 1 ELSE 0

\* Nobody sleeps while there is work that no waking worker will take, although
\* each Push notifies only one (IntrusiveUnboundedBlockingQueue.hpp 17).
NobodySleepsBesideWork ==
    Sleepers # {} => Len(queue) <= Cardinality({w \in Workers : at[w] = "pop"})

\* A fiber that was moved to a worker runs inside the fiber of the worker's
\* invoker and goes no deeper, and the latter is the only one that takes tasks
\* (FiberInvoker.cpp 20-22).
NestingIsShallow ==
    \A w \in Workers :
        /\ Len(chain[w]) <= 2
        /\ onFibers /\ at[w] \in {"pop", "asleep"} => chain[w] = <<invoker[w]>>

\* Every submitted task of a pool that is started comes to its end.
TaskRuns == \A t \in Tasks : (t \in submitted /\ phase # "new") ~> (t \in finished)

\* Stop returns, and no sooner than when every task has run and every fiber is
\* destroyed (IntrusiveUnboundedBlockingQueue.hpp 21-27, 30-34).
Drains == submitted = finished /\ queue = <<>> /\ alive = {}
StopReturns == [](phase = "joined" => Drains) /\ ((phase = "stopping") ~> (phase = "joined"))
=============================================================================
