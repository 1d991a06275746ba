--------------------------- MODULE MutexOnWorkers ---------------------------
(***************************************************************************)
(* The mutex used by fibers that the workers of a scheduler run, and by    *)
(* plain threads: Fiber/Core, Fiber/Scheduling and Synchronization/        *)
(* Awaiters put together with FiberMutex.                                  *)
(*                                                                         *)
(* A worker takes a fiber from the run queue (Fiber::Run) and executes it  *)
(* until it suspends; the awaiter's OnSuspend then runs on the worker, off *)
(* the fiber, and hands the fiber's handle to whoever will wake it.  Wake  *)
(* of a waiting fiber by a fiber switches to it on the spot: the worker    *)
(* keeps the switched-out fiber in gSwitchFiberBuffer until the other one  *)
(* has scheduled it.  An awaiter lives on its fiber's stack, so its handle *)
(* is recorded as the membership of the fiber in `handles`.                *)
(*                                                                         *)
(* Every fiber that waits is woken by a symmetric switch if possible:      *)
(* ContextSwitchAwailable is true wherever Suspend itself may switch.      *)
(***************************************************************************)
EXTENDS FiberMutex, FiniteSets

Seqs == INSTANCE SequencesExt

CONSTANTS
    Fibers,     \* the fibers; the other processes are plain threads
    Workers,    \* the worker threads of the scheduler
    nullptr     \* no fiber

ASSUME WorkersAssumption ==
    /\ Fibers \subseteq Procs
    /\ IsFiniteSet(Fibers)
    /\ nullptr \notin Procs

Threads == Procs \ Fibers

VARIABLES
    queue,      \* the run queue of the scheduler
    current,    \* current[w]: gCurrentFiber of the worker
    buffer,     \* buffer[w]: gSwitchFiberBuffer of the worker
    onSuspend,  \* onSuspend[w]: the fiber whose awaiter's OnSuspend the worker runs
    handles,    \* the suspended fibers whose awaiter holds a valid handle_
    inAwait,    \* the fibers between Suspend and AfterSuspend of DoAwait
    finished    \* the fibers whose coroutine is completed: destroyed

sched   == <<queue, current, buffer, onSuspend, handles, inAwait, finished>>
allVars == <<vars, sched>>

SchedTypeOK ==
    /\ queue \in Seq(Fibers)
    /\ current \in [Workers -> Fibers \union {nullptr}]
    /\ buffer \in [Workers -> Fibers \union {nullptr}]
    /\ onSuspend \in [Workers -> Fibers \union {nullptr}]
    /\ handles \subseteq Fibers
    /\ inAwait \subseteq Fibers
    /\ finished \subseteq Fibers

\* Go was called for every fiber.
SchedInit ==
    /\ Init
    /\ queue \in Seqs!SetToSeqs(Fibers)
    /\ current = [w \in Workers |-> nullptr]
    /\ buffer = [w \in Workers |-> nullptr]
    /\ onSuspend = [w \in Workers |-> nullptr]
    /\ handles = {}
    /\ inAwait = {}
    /\ finished = {}

\* The worker is back in its loop and may take the next task.
Free(w) == current[w] = nullptr /\ onSuspend[w] = nullptr

\* f executes its own code on w.
RunsOn(f, w) == current[w] = f /\ f \in Fibers \ inAwait

-----------------------------------------------------------------------------
\* Fiber::Run: resume the next fiber of the queue.
RunNext(w) ==
    /\ Free(w)
    /\ queue # <<>>
    /\ current' = [current EXCEPT ![w] = Head(queue)]
    /\ queue' = Tail(queue)
    /\ UNCHANGED <<vars, buffer, onSuspend, handles, inAwait, finished>>

\* Fault: OnSuspend runs before the handle is stored.
SuspendKeepsHandle(w) ==
    /\ RunsOn(current[w], w)
    /\ pc[current[w]] = "load"
    /\ current' = [current EXCEPT ![w] = nullptr]
    /\ onSuspend' = [onSuspend EXCEPT ![w] = current[w]]
    /\ inAwait' = inAwait \union {current[w]}
    /\ UNCHANGED <<vars, queue, buffer, handles, finished>>

\* DoAwait suspends the fiber: its handle goes to the awaiter, whose
\* OnSuspend the worker runs next.
Suspend(w) ==
    /\ RunsOn(current[w], w)
    /\ pc[current[w]] = "load"
    /\ current' = [current EXCEPT ![w] = nullptr]
    /\ onSuspend' = [onSuspend EXCEPT ![w] = current[w]]
    /\ handles' = handles \union {current[w]}
    /\ inAwait' = inAwait \union {current[w]}
    /\ UNCHANGED <<vars, queue, buffer, finished>>

\* The lambda of Lock, on the worker.  Once its CAS has parked the fiber the
\* worker touches neither the awaiter nor the fiber again.
OnSuspend(w) ==
    LET f == onSuspend[w] IN
    /\ f # nullptr
    /\ AwaitLoad(f) \/ AwaitLink(f) \/ AwaitCas(f) \/ AwaitRetry(f)
    /\ onSuspend' = [onSuspend EXCEPT ![w] = IF pc'[f] = "parked" THEN nullptr ELSE f]
    /\ UNCHANGED <<queue, current, buffer, handles, inAwait, finished>>

\* Schedule of a handle: the fiber goes to the end of the run queue.
ScheduleHandle(f) ==
    /\ queue' = Append(queue, f)
    /\ handles' = handles \ {f}

\* The lambda returned false: the fiber owns the mutex and is scheduled.
OnSuspendSchedules(w) ==
    LET f == onSuspend[w] IN
    /\ f # nullptr
    /\ pc[f] = "cs"
    /\ ScheduleHandle(f)
    /\ onSuspend' = [onSuspend EXCEPT ![w] = nullptr]
    /\ UNCHANGED <<vars, current, buffer, inAwait, finished>>

\* Fault: the switched-out fiber is left in gSwitchFiberBuffer.
ScheduleNothing(w) == UNCHANGED <<queue, buffer>>

\* Fault: the handle is copied, not released.
ScheduleBufferTwice(w) ==
    IF buffer[w] = nullptr
      THEN UNCHANGED <<queue, buffer>>
      ELSE queue' = Append(queue, buffer[w]) /\ UNCHANGED buffer

\* IFiberAwaiter::AfterSuspend.
ScheduleBuffer(w) ==
    IF buffer[w] = nullptr
      THEN UNCHANGED <<queue, buffer>>
      ELSE queue' = Append(queue, buffer[w]) /\ buffer' = [buffer EXCEPT ![w] = nullptr]

\* The end of DoAwait, on the fiber.
AfterSuspend(w) ==
    LET f == current[w] IN
    /\ f \in inAwait
    /\ ScheduleBuffer(w)
    /\ inAwait' = inAwait \ {f}
    /\ IF pc[f] = "parked" THEN Resume(f) ELSE UNCHANGED vars
    /\ UNCHANGED <<current, onSuspend, handles, finished>>

\* Handle::Switch and Fiber::SwitchTo.
Switch(w, q) ==
    /\ buffer' = [buffer EXCEPT ![w] = current[w]]
    /\ current' = [current EXCEPT ![w] = q]
    /\ handles' = handles \ {q}
    /\ UNCHANGED queue

\* Wake by a fiber: a switch to a waiting fiber, Fire for a waiting thread.
WakeFromFiber(w) ==
    LET p == current[w] IN
    /\ RunsOn(p, w)
    /\ Wake(p)
    /\ IF curr[p] \in Fibers
         THEN Switch(w, curr[p])
         ELSE UNCHANGED <<queue, current, buffer, handles>>
    /\ UNCHANGED <<onSuspend, inAwait, finished>>

\* Wake by a thread: a waiting fiber is scheduled.
WakeFromThread(t) ==
    /\ Wake(t)
    /\ IF curr[t] \in Fibers THEN ScheduleHandle(curr[t]) ELSE UNCHANGED <<queue, handles>>
    /\ UNCHANGED <<current, buffer, onSuspend, inAwait, finished>>

\* fiber::Yield: the fiber is suspended and scheduled by YieldAwaiter.
Yield(w) ==
    /\ RunsOn(current[w], w)
    /\ pc[current[w]] \in {"idle", "cs"}
    /\ queue' = Append(queue, current[w])
    /\ current' = [current EXCEPT ![w] = nullptr]
    /\ UNCHANGED <<vars, buffer, onSuspend, handles, inAwait, finished>>

\* The body of the fiber returns: Fiber::Run destroys it.
Finish(w) ==
    /\ RunsOn(current[w], w)
    /\ pc[current[w]] = "idle"
    /\ finished' = finished \union {current[w]}
    /\ current' = [current EXCEPT ![w] = nullptr]
    /\ UNCHANGED <<vars, queue, buffer, onSuspend, handles, inAwait>>

\* The calls of Lock and TryLock, at the will of the caller.
Call(p) == Lock(p) \/ TryLock(p)

\* The rest of Lock and Unlock that runs on the process itself.
Step(p) == Unlock(p) \/ UnlockLoad(p) \/ UnlockCas(p) \/ UnlockRetry(p)
           \/ Reverse(p) \/ Reversed(p) \/ Pop(p)

ThreadAwaits(t) == AwaitLoad(t) \/ AwaitLink(t) \/ AwaitCas(t) \/ AwaitRetry(t) \/ Resume(t)

FiberCalls(w)  == RunsOn(current[w], w) /\ Call(current[w]) /\ UNCHANGED sched
FiberSteps(w)  == RunsOn(current[w], w) /\ Step(current[w]) /\ UNCHANGED sched
ThreadCalls(t) == Call(t) /\ UNCHANGED sched
ThreadSteps(t) == (Step(t) \/ ThreadAwaits(t)) /\ UNCHANGED sched

Runtime(w) == RunNext(w) \/ Suspend(w) \/ OnSuspend(w) \/ OnSuspendSchedules(w)
              \/ AfterSuspend(w) \/ WakeFromFiber(w) \/ FiberSteps(w)

SchedNext ==
    \/ \E w \in Workers : Runtime(w) \/ FiberCalls(w) \/ Yield(w) \/ Finish(w)
    \/ \E t \in Threads : WakeFromThread(t) \/ ThreadCalls(t) \/ ThreadSteps(t)

SchedSpec == SchedInit /\ [][SchedNext]_allVars

(***************************************************************************)
(* Workers and threads keep going; no weak CAS fails spuriously for ever;  *)
(* fibers cooperate: one that can yield or finish again and again does so  *)
(* in the end, as nothing preempts it; and a fiber that is resumed again   *)
(* and again inside its critical section leaves it.                        *)
(***************************************************************************)
SchedFairness ==
    /\ \A w \in Workers :
          /\ WF_allVars(Runtime(w))
          /\ SF_allVars(onSuspend[w] # nullptr /\ CasResolves(onSuspend[w]) /\ OnSuspend(w))
          /\ SF_allVars(Yield(w) \/ Finish(w))
    /\ \A f \in Fibers : SF_allVars(\E w \in Workers : current[w] = f /\ FiberSteps(w))
    /\ \A t \in Threads :
          /\ WF_allVars(WakeFromThread(t) \/ ThreadSteps(t))
          /\ SF_allVars(ThreadSteps(t) /\ CasResolves(t))

SchedFairSpec == SchedSpec /\ SchedFairness

-----------------------------------------------------------------------------
Places(f) ==
    Cardinality({w \in Workers : current[w] = f}) + Cardinality({w \in Workers : buffer[w] = f})
    + Cardinality({i \in DOMAIN queue : queue[i] = f}) + Cardinality({f} \intersect handles)

\* The switched-out fiber of a worker is always about to be scheduled by the
\* fiber that was switched to: the next switch finds the buffer free.
BufferIsTransient ==
    \A w \in Workers : buffer[w] # nullptr => current[w] # nullptr /\ current[w] \in inAwait

\* A fiber is in exactly one place: it runs on one worker, or waits in the run
\* queue once, or in one worker's gSwitchFiberBuffer, or in its awaiter's handle.
\* A destroyed one is nowhere.  Two workers never run one coroutine, no fiber is
\* dropped by a switch that overwrites the buffer, none is scheduled twice.
FiberIsInOnePlace ==
    /\ SchedTypeOK
    /\ \A f \in Fibers : Places(f) = IF f \in finished THEN 0 ELSE 1
    /\ BufferIsTransient

\* A waiting fiber's handle is valid whenever somebody may wake it: from the
\* moment its CAS has published the awaiter until the Wake (Fiber/Core/Awaiter.hpp 14, 18).
WakeFindsHandle ==
    \A p, q \in Procs : HandsTo(p, q) /\ q \in Fibers => q \in handles

\* No fiber is stuck: a fiber in the run queue or switched out runs again.
ReadyFiberRuns ==
    \A f \in Fibers :
        (f \in Seqs!ToSet(queue) \/ \E w \in Workers : buffer[w] = f) ~> (\E w \in Workers : current[w] = f)
=============================================================================
