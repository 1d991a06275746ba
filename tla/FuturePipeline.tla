--------------------------- MODULE FuturePipeline ----------------------------
(***************************************************************************)
(* Futures: Future.hpp, Make.hpp, Terminators.hpp, the sequential          *)
(* combinators and their pipes, on the contract of one producer and one    *)
(* consumer (State/Contract.hpp, State/Rendezvous.hpp).                    *)
(*                                                                         *)
(* A thread builds a pipeline and waits in Get, or detaches; a promise is  *)
(* kept on a second thread, and the workers of a pool run what is          *)
(* submitted to them.  The inline scheduler runs a contract at once, deep  *)
(* inside the call that completed it, so every thread has a stack of       *)
(* frames.                                                                 *)
(***************************************************************************)
EXTENDS Naturals, Sequences, FiniteSets

CONSTANTS
    Workers,    \* the threads of the pool
    Programs    \* [source, failing, pipes, end]: the pipelines to look at

R == INSTANCE ResultPipes
Seqs == INSTANCE SequencesExt

\* What operator| takes.  In `arg`: what the user's function returns, the
\* scheduler of Via, or whether AsTryFuture meets a value or a Result.
Pipes ==
    [pipe : {"Map", "MapOk"}, arg : {"value"}]
    \union [pipe : {"FlatMap"}, arg : {"future", "tryfuture"}]
    \union [pipe : {"AndThen", "OrElse"}, arg : {"future"}]
    \union [pipe : {"Via"}, arg : {"Pool", "Inline"}]
    \union [pipe : {"AsTryFuture"}, arg : {"value", "result"}]

FlatMap(arg) == << [pipe |-> "Map", arg |-> arg], [pipe |-> "Flatten", arg |-> "future"] >>

\* A TryFuture is one already.
AsTryFuture(arg) == IF arg = "result" THEN <<>> ELSE << [pipe |-> "AsTryFuture", arg |-> arg] >>

\* The combinators that a pipe calls.
Pipe(p) ==
    CASE p.pipe = "FlatMap"     -> FlatMap(p.arg)
      [] p.pipe = "AsTryFuture" -> AsTryFuture(p.arg)
      [] OTHER                  -> <<p>>

Builder  == "builder"
Promiser == "promiser"
Threads  == Workers \union {Builder, Promiser}
Nobody   == "nobody"

ASSUME PipelineAssumption ==
    /\ Workers \intersect {Builder, Promiser, Nobody} = {}
    /\ \A p \in Programs :
          /\ p.source \in {"Ready", "Contract", "Submit"}
          /\ p.pipes \in Seq(Pipes)
          /\ p.failing \subseteq 0 .. 2 * Len(p.pipes)
          /\ p.end \in {"Get", "Detach"}

\* The contract that step k makes, and the one that the user's function of step
\* k makes.  The callback that feeds Outer(k), from either, has the same name.
Outer(k) == <<k, "outer">>
Inner(k) == <<k, "inner">>
None     == <<0, "none">>

VARIABLES
    program,    \* [source, failing]
    steps,      \* its combinators in order, the last one Get or Detach
    built,      \* the next step of the builder, 0 for the source
    future,     \* the builder's Future: its state_ and its scheduler_
    promise,    \* the state_ of the Promise
    heap,       \* the contracts and the SubmitTasks that exist
    word,       \* word[c]: the state_ of the rendezvous of contract c
    value,      \* value[c]: value_
    callback,   \* callback[c]: callback_
    scheduler,  \* scheduler[c]: scheduler_
    task,       \* task[c]: what the function of the SubmitTask for c returns
    pool,       \* what waits in the pool
    stack,      \* stack[t]: what thread t is doing, innermost first
    box,        \* value_container of Get
    fired,      \* the event of Get
    got,        \* what Get returned
    ranOn       \* history: ranOn[k]: where the user's function of step k ran

vars == <<program, steps, built, future, promise, heap, word, value, callback, scheduler,
          task, pool, stack, box, fired, got, ranOn>>

N == Len(steps)

Nothing    == [tag |-> "Nothing", by |-> <<>>]  \* no object is constructed
AFuture(k) == [tag |-> "Future", by |-> <<k>>]  \* the Future of Inner(k)

\* What the function of step k makes of a value, an error or nothing at all.
Outcome(k, v) ==
    IF k \in program.failing THEN R!Failure(Append(v.by, k)) ELSE R!Ok(Append(v.by, k))

-----------------------------------------------------------------------------
\* Frames.

Frame(at, c, v)  == [at |-> at, c |-> c, v |-> v, cb |-> None, on |-> "Inline"]
SetValue(c, v)   == Frame("set", c, v)
Consume(c, k, on) == [Frame("attach", c, Nothing) EXCEPT !.cb = Outer(k), !.on = on]
Await(c, k)      == [Frame("attach", c, Nothing) EXCEPT !.cb = Inner(k)]
CallUser(k, v)   == Frame("user", Inner(k), v)

Idle(t)      == stack[t] = <<>>
Top(t)       == Head(stack[t])
At(t, label) == ~ Idle(t) /\ Top(t).at = label

\* The innermost call of t goes on with the frames fs; t makes the calls fs.
Then(t, fs)  == stack' = [stack EXCEPT ![t] = fs \o Tail(@)]
Enter(t, fs) == stack' = [stack EXCEPT ![t] = fs]

\* The inline scheduler runs it here and now.
SubmitInline(t, c) == Then(t, <<Frame("run", c, Nothing)>>) /\ UNCHANGED pool
SubmitToPool(t, c) == Then(t, <<>>) /\ pool' = pool \union {<<"contract", c>>}

SubmitContract(t, c) ==
    IF scheduler[c] = "Inline" THEN SubmitInline(t, c) ELSE SubmitToPool(t, c)

\* RendezvousStateMachine: one fetch_or tells each party whether it came second.
\* Fault: the test is the wrong way round.
MeetsFirst(w, other) == w # {other}

Meets(w, other) == w = {other}

Meet(t, me, other) ==
    LET c == Top(t).c IN
    /\ word' = [word EXCEPT ![c] = @ \union {me}]
    /\ IF Meets(word[c], other) THEN SubmitContract(t, c)
                                ELSE Then(t, <<>>) /\ UNCHANGED pool

\* ContractState::SetValue.
ConstructValue(t) ==
    /\ At(t, "set")
    /\ value' = [value EXCEPT ![Top(t).c] = Top(t).v]
    /\ Then(t, <<Frame("produce", Top(t).c, Nothing)>>)
    /\ UNCHANGED <<program, steps, built, future, promise, heap, word, callback, scheduler,
                   task, pool, box, fired, got, ranOn>>

Produce(t) ==
    /\ At(t, "produce")
    /\ Meet(t, "Produced", "Consumed")
    /\ UNCHANGED <<program, steps, built, future, promise, heap, value, callback, scheduler,
                   task, box, fired, got, ranOn>>

\* ContractState::SetCallback.
SetCallback(t) ==
    /\ At(t, "attach")
    /\ callback' = [callback EXCEPT ![Top(t).c] = Top(t).cb]
    /\ scheduler' = [scheduler EXCEPT ![Top(t).c] = Top(t).on]
    /\ Then(t, <<Frame("consume", Top(t).c, Nothing)>>)
    /\ UNCHANGED <<program, steps, built, future, promise, heap, word, value, task, pool,
                   box, fired, got, ranOn>>

ConsumeWord(t) ==
    /\ At(t, "consume")
    /\ Meet(t, "Consumed", "Produced")
    /\ UNCHANGED <<program, steps, built, future, promise, heap, value, callback, scheduler,
                   task, box, fired, got, ranOn>>

-----------------------------------------------------------------------------
\* The lambda that step k leaves with the future it consumes, called on v: the
\* calls it makes.

MapLambda(k, v) ==
    LET returned == IF steps[k].arg = "tryfuture" /\ k \in program.failing
                      THEN Outcome(k, v) ELSE AFuture(k)
    IN  IF steps[k].arg = "value"
          THEN <<SetValue(Outer(k), R!Ok(Append(v.by, k)))>>
          ELSE (IF returned.tag = "Future" THEN <<CallUser(k, v)>> ELSE <<>>)
               \o <<SetValue(Outer(k), returned)>>

FlattenLambda(k, v) ==
    <<IF v.tag = "Future" THEN Await(Inner(v.by[1]), k) ELSE SetValue(Outer(k), v)>>

MapOkLambda(k, v) == <<SetValue(Outer(k), R!Map(v, R!Ok(Append(v.by, k))))>>

\* Fault: an error is not passed on.
AndThenLambdaDrops(k, v) ==
    IF R!IsOk(v) THEN <<CallUser(k, v), Await(Inner(k), k)>> ELSE <<>>

AndThenLambda(k, v) ==
    IF R!IsOk(v) THEN <<CallUser(k, v), Await(Inner(k), k)>> ELSE <<SetValue(Outer(k), v)>>

\* Fault: the handler is called on a value, too.
OrElseLambdaAlways(k, v) == <<CallUser(k, v), Await(Inner(k), k)>>

OrElseLambda(k, v) ==
    IF R!IsOk(v) THEN <<SetValue(Outer(k), v)>> ELSE <<CallUser(k, v), Await(Inner(k), k)>>

AsTryFutureLambda(k, v) == <<SetValue(Outer(k), v)>>

GetLambda(k, v) == <<Frame("box", None, v), Frame("fire", None, Nothing)>>

DetachLambda(k, v) == <<>>

Lambda(k, v) ==
    CASE steps[k].pipe = "Map"         -> MapLambda(k, v)
      [] steps[k].pipe = "Flatten"     -> FlattenLambda(k, v)
      [] steps[k].pipe = "MapOk"       -> MapOkLambda(k, v)
      [] steps[k].pipe = "AndThen"     -> AndThenLambda(k, v)
      [] steps[k].pipe = "OrElse"      -> OrElseLambda(k, v)
      [] steps[k].pipe = "AsTryFuture" -> AsTryFutureLambda(k, v)
      [] steps[k].pipe = "Get"         -> GetLambda(k, v)
      [] steps[k].pipe = "Detach"      -> DetachLambda(k, v)

\* Whether that lambda calls the user's function.
Calls(k, v) ==
    \/ steps[k].pipe = "Map"
    \/ steps[k].pipe \in {"MapOk", "AndThen"} /\ R!IsOk(v)
    \/ steps[k].pipe = "OrElse" /\ ~ R!IsOk(v)

\* (*callback_.Get())(value_.Move()), and then delete this.
CallBack(t, c, calls) == Then(t, Append(calls, Frame("delete", c, Nothing)))

\* ContractState::Run.
Run(t) ==
    /\ At(t, "run")
    /\ LET c == Top(t).c
           k == callback[c][1]
           v == value[c]
       IN  /\ IF callback[c] = Inner(k)
                THEN CallBack(t, c, <<SetValue(Outer(k), v)>>) /\ UNCHANGED ranOn
                ELSE /\ CallBack(t, c, Lambda(k, v))
                     /\ ranOn' = IF Calls(k, v) THEN [ranOn EXCEPT ![k] = t] ELSE ranOn
           /\ value' = [value EXCEPT ![c] = Nothing]
    /\ UNCHANGED <<program, steps, built, future, promise, heap, word, callback, scheduler,
                   task, pool, box, fired, got>>

\* The end of ContractState::Run and of SubmitTask::Run: delete this.
Delete(t) ==
    /\ At(t, "delete") \/ At(t, "free")
    /\ heap' = heap \ {<<IF At(t, "free") THEN "task" ELSE "contract", Top(t).c>>}
    /\ Then(t, <<>>)
    /\ UNCHANGED <<program, steps, built, future, promise, word, value, callback, scheduler,
                   task, pool, box, fired, got, ranOn>>

\* NFuture::Submit: a contract, and a task that will set its value to v.
Submit(c, v) ==
    /\ heap' = heap \union {<<"contract", c>>, <<"task", c>>}
    /\ task' = [task EXCEPT ![c] = v]
    /\ pool' = pool \union {<<"task", c>>}

\* A user's function that returns a future has it from Submit.
User(t) ==
    /\ At(t, "user")
    /\ LET k == Top(t).c[1] IN
       Submit(Inner(k), Outcome(k, Top(t).v))
    /\ Then(t, <<>>)
    /\ UNCHANGED <<program, steps, built, future, promise, word, value, callback, scheduler,
                   box, fired, got, ranOn>>

\* The callback of Get: the value first, then the event.
ConstructBox(t) ==
    /\ At(t, "box")
    /\ box' = Top(t).v
    /\ Then(t, <<>>)
    /\ UNCHANGED <<program, steps, built, future, promise, heap, word, value, callback,
                   scheduler, task, pool, fired, got, ranOn>>

Fire(t) ==
    /\ At(t, "fire")
    /\ fired' = TRUE
    /\ Then(t, <<>>)
    /\ UNCHANGED <<program, steps, built, future, promise, heap, word, value, callback,
                   scheduler, task, pool, box, got, ranOn>>

\* A worker of the pool takes a task or a contract.
Work(w) ==
    /\ Idle(w)
    /\ \E job \in pool :
          /\ pool' = pool \ {job}
          /\ Enter(w, IF job[1] = "contract"
                        THEN <<Frame("run", job[2], Nothing)>>
                        ELSE <<SetValue(job[2], task[job[2]]), Frame("free", job[2], Nothing)>>)
          /\ ranOn' = IF job = <<"task", Outer(0)>> THEN [ranOn EXCEPT ![0] = w] ELSE ranOn
    /\ UNCHANGED <<program, steps, built, future, promise, heap, word, value, callback,
                   scheduler, task, box, fired, got>>

-----------------------------------------------------------------------------
\* The builder.

Now(k) == built = k /\ Idle(Builder) /\ built' = k + 1

FutureOf(c, s) == [state |-> c, scheduler |-> s]

\* The futures that are made are all consumed inline, unless Via says otherwise.
Make(kind) ==
    /\ Now(0)
    /\ program.source = kind
    /\ future' = FutureOf(Outer(0), "Inline")
    /\ UNCHANGED <<program, steps, word, value, callback, scheduler, box, fired, got, ranOn>>

Create(c) == heap' = heap \union {<<"contract", c>>}

\* Ready, and Value, Ok, Failure and the others that call it.
MakeReady ==
    /\ Make("Ready")
    /\ Create(Outer(0))
    /\ Enter(Builder, <<SetValue(Outer(0), Outcome(0, Nothing))>>)
    /\ UNCHANGED <<promise, task, pool>>

MakeContract ==
    /\ Make("Contract")
    /\ Create(Outer(0))
    /\ promise' = Outer(0)
    /\ UNCHANGED <<stack, task, pool>>

MakeSubmitted ==
    /\ Make("Submit")
    /\ Submit(Outer(0), Outcome(0, Nothing))
    /\ UNCHANGED <<stack, promise>>

Via(k) ==
    /\ Now(k)
    /\ steps[k].pipe = "Via"
    /\ future' = FutureOf(future.state, steps[k].arg)
    /\ UNCHANGED <<program, steps, promise, heap, word, value, callback, scheduler, task, pool,
                   stack, box, fired, got, ranOn>>

\* Fault: the combinator forgets the scheduler of Via.
PassOnInline(k) == FutureOf(Outer(k), "Inline")

\* What a combinator returns: the new contract on the scheduler of the old.
PassOn(k) == FutureOf(Outer(k), future.scheduler)

\* Flatten, Get and Detach consume inline, the others where Via has said.
ConsumesOn(k) ==
    IF steps[k].pipe \in {"Flatten", "Get", "Detach"} THEN "Inline" ELSE future.scheduler

Combine(k) ==
    /\ Now(k)
    /\ steps[k].pipe \notin {"Via", "Get", "Detach"}
    /\ Create(Outer(k))
    /\ Enter(Builder, <<Consume(future.state, k, ConsumesOn(k))>>)
    /\ future' = PassOn(k)
    /\ UNCHANGED <<program, steps, promise, word, value, callback, scheduler, task, pool, box,
                   fired, got, ranOn>>

Terminate(k) ==
    /\ Now(k)
    /\ steps[k].pipe \in {"Get", "Detach"}
    /\ Enter(Builder, <<Consume(future.state, k, ConsumesOn(k))>>)
    /\ future' = FutureOf(None, "Inline")
    /\ UNCHANGED <<program, steps, promise, heap, word, value, callback, scheduler, task, pool,
                   box, fired, got, ranOn>>

\* Get comes back from the wait and moves the value out.
Return ==
    /\ built = N + 1 /\ Idle(Builder) /\ steps[N].pipe = "Get"
    /\ fired /\ got = Nothing
    /\ got' = box
    /\ box' = Nothing
    /\ UNCHANGED <<program, steps, built, future, promise, heap, word, value, callback,
                   scheduler, task, pool, stack, fired, ranOn>>

\* Promise::Set.
Set ==
    /\ promise # None
    /\ promise' = None
    /\ Enter(Promiser, <<SetValue(promise, Outcome(0, Nothing))>>)
    /\ UNCHANGED <<program, steps, built, future, heap, word, value, callback, scheduler, task,
                   pool, box, fired, got, ranOn>>

-----------------------------------------------------------------------------
\* The combinators that a row of pipes calls, in order.
Flat(ps) == Seqs!FlattenSeq([i \in DOMAIN ps |-> Pipe(ps[i])])

Init ==
    /\ \E p \in Programs :
          /\ program = [source |-> p.source, failing |-> p.failing]
          /\ steps = Append(Flat(p.pipes), [pipe |-> p.end, arg |-> "value"])
    /\ built = 0
    /\ future = FutureOf(None, "Inline")
    /\ promise = None
    /\ heap = {}
    /\ word = [c \in (0 .. N) \X {"outer", "inner"} |-> {}]
    /\ value = [c \in DOMAIN word |-> Nothing]
    /\ callback = [c \in DOMAIN word |-> None]
    /\ scheduler = [c \in DOMAIN word |-> "Inline"]
    /\ task = [c \in DOMAIN word |-> Nothing]
    /\ pool = {}
    /\ stack = [t \in Threads |-> <<>>]
    /\ box = Nothing
    /\ fired = FALSE
    /\ got = Nothing
    /\ ranOn = [k \in 0 .. N |-> Nobody]

Step(t) ==
    \/ ConstructValue(t) \/ Produce(t) \/ SetCallback(t) \/ ConsumeWord(t)
    \/ Run(t) \/ Delete(t) \/ User(t) \/ ConstructBox(t) \/ Fire(t)

Build ==
    \/ MakeReady \/ MakeContract \/ MakeSubmitted
    \/ \E k \in 1 .. N : Via(k) \/ Combine(k) \/ Terminate(k)
    \/ Return

Next ==
    \/ \E t \in Threads : Step(t)
    \/ \E w \in Workers : Work(w)
    \/ Build \/ Set

Spec == Init /\ [][Next]_vars

\* Every thread goes on, every promise is kept (Make.hpp asserts it) and the
\* pool takes what it is given.
FairSpec ==
    /\ Spec
    /\ \A t \in Threads : WF_vars(Step(t))
    /\ WF_vars(\E w \in Workers : Work(w))
    /\ WF_vars(Build)
    /\ WF_vars(Set)

-----------------------------------------------------------------------------
TypeOK ==
    /\ built \in 0 .. N + 1
    /\ {future.state, promise} \subseteq DOMAIN word \union {None}
    /\ heap \subseteq {"contract", "task"} \X DOMAIN word
    /\ word \in [DOMAIN word -> SUBSET {"Produced", "Consumed"}]
    /\ callback \in [DOMAIN word -> DOMAIN word \union {None}]
    /\ scheduler \in [DOMAIN word -> {"Inline", "Pool"}]
    /\ pool \subseteq heap
    /\ ranOn \in [0 .. N -> Threads \union {Nobody}]

Runners(c) ==
    {t \in Threads : \E i \in DOMAIN stack[t] :
        stack[t][i].at \in {"run", "delete"} /\ stack[t][i].c = c}

\* The party that comes second, and no other, submits the contract: it runs
\* once, with value_ and callback_ in place, and whatever a thread is about to
\* touch, its own frames further out included, is not deleted before
\* (Contract.hpp 17-37; Rendezvous.hpp 9-10).
ContractRunsOnce ==
    /\ TypeOK
    /\ \A c \in DOMAIN word :
          /\ Cardinality(Runners(c)) + (IF <<"contract", c>> \in pool THEN 1 ELSE 0) <= 1
          /\ <<"contract", c>> \in pool \/ (\E t \in Threads : At(t, "run") /\ Top(t).c = c)
                => value[c] # Nothing /\ callback[c] # None
    /\ \A t \in Threads : \A i \in DOMAIN stack[t] :
          LET f == stack[t][i] IN
          f.at \in {"set", "produce", "attach", "consume", "run", "delete"} =>
              \/ <<"contract", f.c>> \in heap
              \/ f.c[2] = "inner" /\ \E j \in 1 .. i - 1 : stack[t][j].at = "user"

\* The scheduler of step k: the nearest Via before it, or inline.
ToldToRunOn(k) ==
    LET vias == {j \in 1 .. k - 1 : steps[j].pipe = "Via"}
    IN  IF vias = {} THEN "Inline"
        ELSE steps[CHOOSE j \in vias : \A i \in vias : i <= j].arg

\* A user's function runs where Via has said, however many combinators, inner
\* futures and inline runs are between (Via.hpp 8-11 and the GetScheduler() that
\* every combinator passes on; Tests/DummyConcurrency/Future/Unit.cpp 263-300).
RunsWhereTold ==
    \A k \in 1 .. N : ToldToRunOn(k) = "Pool" => ranOn[k] \in Workers \union {Nobody}

\* The pipeline of results that the futures stand for.
Evaluate(k, v) ==
    CASE steps[k].pipe = "MapOk" -> R!Pipe(v, "Map", Outcome(k, v))
      [] steps[k].pipe \in {"AndThen", "OrElse"} -> R!Pipe(v, steps[k].pipe, Outcome(k, v))
      [] steps[k].pipe = "Map" /\ steps[k].arg = "value" -> R!Ok(Append(v.by, k))
      [] steps[k].pipe = "Map" /\ steps[k].arg # "value" -> Outcome(k, v)
      [] OTHER -> v

Evaluated[k \in 0 .. N] == IF k = 0 THEN Outcome(0, Nothing) ELSE Evaluate(k, Evaluated[k - 1])

\* Get returns what the same pipeline of plain results computes, whichever
\* threads its parts met on (Terminators.hpp 11-22, Result/Combinators.hpp).
GetIsResult == got # Nothing => got = Evaluated[N]

\* Get returns, a detached pipeline runs to its end, and in the end nothing is
\* left on the heap.
PipelineFinishes ==
    <>[](heap = {} /\ built = N + 1 /\ (steps[N].pipe = "Get" => got # Nothing))
=============================================================================
