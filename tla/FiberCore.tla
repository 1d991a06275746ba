----------------------------- MODULE FiberCore ------------------------------
(***************************************************************************)
(* The life of fibers: Fiber/Core on the stacks of StackPool and on the    *)
(* execution contexts of Context/.  A fiber and its coroutine are known by *)
(* the stack they are constructed on.                                      *)
(*                                                                         *)
(* An activity is a thread or a coroutine.  Fiber::Run may be called by a  *)
(* thread, or by a coroutine that an invoker or the inline scheduler makes *)
(* run tasks, so runs nest; Resume keeps the context of its caller in a    *)
(* local, and a symmetric switch leaves that local to another coroutine.   *)
(* An execution context stands for registers and exception state, which    *)
(* are switched together.  Steps that only their thread can see are taken  *)
(* together with the next one that others can.                             *)
(***************************************************************************)
EXTENDS StackPool

CONSTANT Threads

ASSUME FiberCoreAssumption ==
    /\ Procs = Threads \union Stacks
    /\ Threads \intersect Stacks = {} /\ Threads # {}

Activities == Threads \union Stacks

\* The contexts: coro_context_ of each coroutine, and the local of Resume.
coro_context(s)   == <<"coro", s>>
caller_context(x) == <<"caller", x>>
Contexts == {coro_context(s) : s \in Stacks} \union {caller_context(x) : x \in Activities}

ASSUME ContextAssumption == nullptr \notin Contexts

VARIABLES
    context,            \* context[k]: the activity that is saved in k, if any
    running,            \* running[w]: the activity that executes on w
    caller_context_,    \* caller_context_[s]: where s suspends to
    completed_,         \* the coroutines that have run to their end
    gCurrentFiber,      \* gCurrentFiber[w]
    initial,            \* initial[x]: the local of the Fiber::Run that x is in
    gSwitchFiberBuffer, \* gSwitchFiberBuffer[w]
    scheduled,          \* the fibers that were submitted to the scheduler
    awaiting            \* the fibers whose handle is with an awaiter

coroVars  == <<context, running, caller_context_, completed_>>
fiberVars == <<gCurrentFiber, initial, gSwitchFiberBuffer, scheduled, awaiting>>
vars      == <<poolVars, coroVars, fiberVars>>

Init ==
    /\ PoolInit
    /\ context = [k \in Contexts |-> nullptr]
    /\ running = [w \in Threads |-> w]
    /\ caller_context_ = [s \in Stacks |-> nullptr]
    /\ completed_ = {}
    /\ gCurrentFiber = [w \in Threads |-> nullptr]
    /\ initial = [x \in Activities |-> nullptr]
    /\ gSwitchFiberBuffer = [w \in Threads |-> nullptr]
    /\ scheduled = {}
    /\ awaiting = {}

\* x executes code of its own on w.
InBody(x, w) == running[w] = x /\ pc[x] = "body"

\* SwitchTo and ExitTo of ExecutionContext.
SwitchContext(w, from, to) ==
    /\ context' = [context EXCEPT ![from] = running[w], ![to] = nullptr]
    /\ running' = [running EXCEPT ![w] = context[to]]

-----------------------------------------------------------------------------
\* Go, Fiber::Create first.
Go(x, w) ==
    /\ InBody(x, w)
    /\ AllocateStack(x)
    /\ UNCHANGED <<poolState, coroVars, fiberVars>>

\* The coroutine and the fiber are constructed, and the fiber is scheduled.
Create(x) ==
    LET s == hand[x] IN
    /\ pc[x] = "got"
    /\ memory' = [memory EXCEPT ![s] = "fiber"]
    /\ hand' = [hand EXCEPT ![x] = nullptr]
    /\ Goto(x, "body")
    /\ context' = [context EXCEPT ![coro_context(s)] = s]
    /\ scheduled' = scheduled \union {s}
    /\ UNCHANGED <<pooling, next, stack_of_stack_, lock_, counters, running, caller_context_, completed_,
                   gCurrentFiber, initial, gSwitchFiberBuffer, awaiting>>

\* Fiber::Run and Resume.
Run(x, w, f) ==
    /\ InBody(x, w)
    /\ f \in scheduled
    /\ scheduled' = scheduled \ {f}
    /\ initial' = [initial EXCEPT ![x] = gCurrentFiber[w]]
    /\ gCurrentFiber' = [gCurrentFiber EXCEPT ![w] = f]
    /\ caller_context_' = [caller_context_ EXCEPT ![f] = caller_context(x)]
    /\ SwitchContext(w, caller_context(x), coro_context(f))
    /\ Goto(x, "run")
    /\ UNCHANGED <<poolState, completed_, gSwitchFiberBuffer, awaiting>>

\* The coroutine goes back to its caller_context_; its label tells Run why.
Leave(f, w, label) ==
    /\ f \in Stacks
    /\ InBody(f, w)
    /\ SwitchContext(w, coro_context(f), caller_context_[f])
    /\ Goto(f, label)
    /\ UNCHANGED <<poolState, caller_context_, fiberVars>>

Yield(f, w)   == Leave(f, w, "yield") /\ UNCHANGED completed_
Suspend(f, w) == Leave(f, w, "await") /\ UNCHANGED completed_
Finish(f, w)  == Leave(f, w, "end") /\ completed_' = completed_ \union {f}

\* The rest of Run, with the fiber that has come back: it is destroyed, or its
\* handle goes to its awaiter, and nothing of it is touched any more.
Returned(x, w) ==
    LET f == gCurrentFiber[w] IN
    /\ running[w] = x
    /\ pc[x] = "run"
    /\ gCurrentFiber' = [gCurrentFiber EXCEPT ![w] = initial[x]]
    /\ initial' = [initial EXCEPT ![x] = nullptr]
    /\ IF f \in completed_
         THEN /\ pc' = [pc EXCEPT ![x] = "destroy"]
              /\ hand' = [hand EXCEPT ![x] = f]
              /\ UNCHANGED <<scheduled, awaiting>>
         ELSE /\ pc' = [pc EXCEPT ![x] = "body", ![f] = IF @ = "yield" THEN "body" ELSE "resumed"]
              /\ scheduled' = scheduled \union (IF pc[f] = "yield" THEN {f} ELSE {})
              /\ awaiting' = awaiting \union (IF pc[f] = "await" THEN {f} ELSE {})
              /\ UNCHANGED hand
    /\ UNCHANGED <<pooling, memory, next, stack_of_stack_, lock_, counters, coroVars, gSwitchFiberBuffer>>

\* Destroy: the stack is moved out before the fiber and the coroutine end on it.
Destroy(x) ==
    LET s == hand[x] IN
    /\ pc[x] = "destroy"
    /\ memory' = [memory EXCEPT ![s] = "raw"]
    /\ context' = [context EXCEPT ![coro_context(s)] = nullptr]
    /\ caller_context_' = [caller_context_ EXCEPT ![s] = nullptr]
    /\ completed_' = completed_ \ {s}
    /\ pc' = [pc EXCEPT ![x] = "free", ![s] = "body"]
    /\ UNCHANGED <<pooling, next, stack_of_stack_, lock_, counters, hand, running, fiberVars>>

-----------------------------------------------------------------------------
\* Schedule of an awaiting fiber's handle.
Wake(x, w, f) ==
    /\ InBody(x, w)
    /\ f \in awaiting
    /\ awaiting' = awaiting \ {f}
    /\ scheduled' = scheduled \union {f}
    /\ UNCHANGED <<poolVars, coroVars, gCurrentFiber, initial, gSwitchFiberBuffer>>

\* Fault: the callers are not exchanged.
KeepCallers(f, g) == UNCHANGED caller_context_

SwapCallers(f, g) ==
    caller_context_' = [caller_context_ EXCEPT ![f] = caller_context_[g], ![g] = caller_context_[f]]

\* Switch of an awaiting fiber's handle, by a fiber.
SwitchTo(f, w, g) ==
    /\ f \in Stacks
    /\ InBody(f, w)
    /\ g \in awaiting
    /\ awaiting' = awaiting \ {g}
    /\ gSwitchFiberBuffer' = [gSwitchFiberBuffer EXCEPT ![w] = f]
    /\ gCurrentFiber' = [gCurrentFiber EXCEPT ![w] = g]
    /\ SwapCallers(f, g)
    /\ SwitchContext(w, coro_context(f), coro_context(g))
    /\ UNCHANGED <<poolVars, completed_, initial, scheduled>>

\* The end of DoAwait on a fiber that is back: whom it was switched from is scheduled.
AfterSuspend(f, w) ==
    /\ running[w] = f
    /\ pc[f] = "resumed"
    /\ scheduled' = scheduled \union ({gSwitchFiberBuffer[w]} \ {nullptr})
    /\ gSwitchFiberBuffer' = [gSwitchFiberBuffer EXCEPT ![w] = nullptr]
    /\ Goto(f, "body")
    /\ UNCHANGED <<poolState, coroVars, gCurrentFiber, initial, awaiting>>

\* The owner of the pool is a thread.
ClearPool(w) == InBody(w, w) /\ Clear(w) /\ UNCHANGED <<coroVars, fiberVars>>

Next ==
    \/ \E w \in Threads, x \in Activities :
          \/ Go(x, w) \/ Returned(x, w)
          \/ Yield(x, w) \/ Suspend(x, w) \/ Finish(x, w) \/ AfterSuspend(x, w)
          \/ \E f \in Stacks : Run(x, w, f) \/ Wake(x, w, f) \/ SwitchTo(x, w, f)
    \/ \E w \in Threads : ClearPool(w)
    \/ \E x \in Activities : Create(x) \/ Destroy(x) \/ (PoolStep(x) /\ UNCHANGED <<coroVars, fiberVars>>)

Spec == Init /\ [][Next]_vars

-----------------------------------------------------------------------------
TypeOK ==
    /\ PoolTypeOK
    /\ context \in [Contexts -> Activities \union {nullptr}]
    /\ caller_context_ \in [Stacks -> Contexts \union {nullptr}]
    /\ scheduled \subseteq Stacks /\ awaiting \subseteq Stacks /\ completed_ \subseteq Stacks
    /\ initial \in [Activities -> Stacks \union {nullptr}]

CallerOf(x) == IF x \in Threads \/ caller_context_[x] = nullptr THEN x ELSE caller_context_[x][2]

\* The fibers that execute or wait in a Run for one that does.
Active == {s \in Stacks : memory[s] = "fiber" /\ context[coro_context(s)] # s}

\* A thread for each activity: what a thread executes and, through the callers,
\* what this goes back to is on the thread itself.
IsHome(home) ==
    /\ \A w \in Threads : home[w] = w /\ home[running[w]] = w
    /\ \A s \in Active : home[s] = home[CallerOf(s)]

\* Every activity executes on one thread or is saved in one context; a fiber that
\* is active will come back to the Run that waits for it, and no other does to the
\* same, so that following the callers from what a thread executes leads to that
\* very thread; gCurrentFiber is the fiber that executes (Coroutine.cpp 13-39,
\* Fiber.cpp 44-67, Context.cpp 15-38).
ContextIsRight ==
    /\ TypeOK
    /\ \A f \in scheduled \union awaiting : context[coro_context(f)] = f /\ f \notin completed_
    /\ \A x \in Activities :
          Cardinality({w \in Threads : running[w] = x}) + Cardinality({k \in Contexts : context[k] = x})
             = IF x \in Threads \/ memory[x] = "fiber" THEN 1 ELSE 0
    /\ \A s \in Active : LET y == CallerOf(s) IN context[caller_context(y)] = y /\ pc[y] = "run"
    /\ \A s, t \in Active : CallerOf(s) = CallerOf(t) => s = t
    /\ \E home \in [Activities -> Threads] : IsHome(home)
    /\ \A w \in Threads :
          LET x == running[w] IN
          /\ x \in Activities
          /\ pc[x] # "run" => gCurrentFiber[w] = IF x \in Stacks THEN x ELSE nullptr

\* LeasedAmount is 0 when no stack is in use and no call is under way, as
\* Tests/DummyConcurrency/Scheduler/FiberInvoker/Unit.cpp:35 expects after a run.
NothingIsLeased ==
    (\A x \in Activities : pc[x] = "body" /\ hand[x] = nullptr) /\ (\A s \in Stacks : memory[s] # "fiber")
        => leased_amount_ = 0
=============================================================================
