-------------------------- MODULE MCFuturePipeline --------------------------
(* All well-typed pipelines of MaxPipes pipes, from all sources. *)
EXTENDS FuturePipeline

CONSTANT MaxPipes

\* Whether the future before a pipe has a Result in it, and the one after it.
Fits(p, result) ==
    CASE p.pipe \in {"MapOk", "AndThen", "OrElse"} -> result
      [] p.pipe = "AsTryFuture" -> result = (p.arg = "result")
      [] OTHER -> TRUE

HasResult(p, before) ==
    CASE p.pipe = "Map" -> FALSE
      [] p.pipe = "Via" -> before
      [] OTHER -> TRUE

\* The pipelines of n pipes: what they are and whether they end in a Result.
RECURSIVE Pipelines(_, _)
Pipelines(n, result) ==
    IF n = 0 THEN {[pipes |-> <<>>, result |-> result]}
    ELSE UNION {{[pipes |-> Append(q.pipes, p), result |-> HasResult(p, q.result)] :
                    p \in {x \in Pipes : Fits(x, q.result)}} : q \in Pipelines(n - 1, result)}

\* The steps whose function may fail.
MayFail(pipes, result) ==
    LET flat == Flat(pipes) IN
    (IF result THEN {0} ELSE {})
    \union {k \in DOMAIN flat :
              flat[k].pipe \in {"AndThen", "OrElse"} \/ (flat[k].pipe = "Map" /\ flat[k].arg # "value")}

\* A submitted pipeline is waited for, one that is ready is detached, and one
\* that waits for a promise is moved to the pool first.
ViaPool == <<[pipe |-> "Via", arg |-> "Pool"]>>

Sources ==
    {[source |-> "Submit",   first |-> <<>>,    end |-> "Get"],
     [source |-> "Ready",    first |-> <<>>,    end |-> "Detach"],
     [source |-> "Contract", first |-> ViaPool, end |-> "Get"]}

MCPrograms ==
    UNION {UNION {{[source |-> s.source, failing |-> f, pipes |-> s.first \o q.pipes, end |-> s.end] :
                      f \in SUBSET MayFail(s.first \o q.pipes, r)} :
                  s \in Sources, q \in Pipelines(MaxPipes, r)} : r \in BOOLEAN}
=============================================================================
