--------------------------- MODULE OneAllContract ---------------------------
(***************************************************************************)
(* The contracts behind the concurrent combinators of futures: Both        *)
(* (BothContract.hpp), First (FirstContract.hpp), BothOk                   *)
(* (TryBothContract.hpp) and FirstOk (TryFirstContract.hpp).               *)
(*                                                                         *)
(* Every producer brings one result and the consumer one callback; the one *)
(* who completes the meeting submits the contract to the scheduler, Run    *)
(* hands a result to the callback, and whoever comes last, Run or a        *)
(* producer, deletes the contract.                                         *)
(***************************************************************************)
EXTENDS Naturals, Sequences, FiniteSets

CONSTANTS
    Producers,  \* the producers of one contract
    Kinds       \* the kinds of contract to look at

None == "none"

ASSUME ContractAssumption ==
    /\ IsFiniteSet(Producers)
    /\ Producers # {}
    /\ None \notin Producers
    /\ Kinds \subseteq {"Both", "First", "TryBoth", "TryFirst"}

INSTANCE OneAllStateMachine WITH producer_count_ <- Cardinality(Producers)

VARIABLES
    kind,       \* which of the contracts it is
    failed,     \* the producers that bring an error
    state,      \* state_
    values,     \* the producers whose value is in the contract, oldest first
    chosen,     \* value_ of First, error_result_ of TryBoth, one_result_ of TryFirst
    pc,         \* pc[p]: where producer p is
    consumer,   \* where the consumer is in SetCallback
    submitted,  \* how often the contract is in the scheduler's queue
    run,        \* where Run is
    picked,     \* the local of Run that was loaded from `chosen`
    delivered,  \* the producers whose results the callback got
    deleted,    \* the contract is deleted
    earlier     \* history: earlier[p]: who had returned with a value when p began

code == <<kind, failed, state, values, chosen, pc, consumer, submitted, run, picked,
          delivered, deleted>>
vars == <<kind, failed, state, values, chosen, pc, consumer, submitted, run, picked,
          delivered, deleted, earlier>>

Init ==
    /\ kind \in Kinds
    /\ failed \in IF kind \in {"TryBoth", "TryFirst"} THEN SUBSET Producers ELSE {{}}
    /\ state = InitialState
    /\ values = <<>>
    /\ chosen = None
    /\ pc = [p \in Producers |-> "start"]
    /\ consumer = "start"
    /\ submitted = 0
    /\ run = "idle"
    /\ picked = None
    /\ delivered = {}
    /\ deleted = FALSE
    /\ earlier = [p \in Producers |-> {}]

Goto(p, label) == pc' = [pc EXCEPT ![p] = label]

-----------------------------------------------------------------------------
\* The producers.

\* p begins, and has its value in the contract.
Begin(p, label) ==
    /\ pc[p] = "start"
    /\ values' = Append(values, p)
    /\ earlier' = [earlier EXCEPT ![p] = {q \in Producers \ failed : pc[q] = "done"}]
    /\ Goto(p, label)
    /\ UNCHANGED <<kind, failed, state, consumer, submitted, run, picked, delivered, deleted>>

\* BothContract: the value is constructed in its place.
SetValueBoth(p) == kind = "Both" /\ Begin(p, "produce") /\ UNCHANGED chosen

\* PlainFirstContract::SetValuePtr: the first CAS wins.
SetValueFirst(p) ==
    /\ kind = "First"
    /\ Begin(p, "produce")
    /\ chosen' = IF chosen = None THEN p ELSE chosen

\* Fault: the error is not recorded.
SetResultTryBothUnmarked(p) == kind = "TryBoth" /\ Begin(p, "produce") /\ UNCHANGED chosen

\* TryBothContract: an error is recorded before it is produced.
SetResultTryBoth(p) ==
    /\ kind = "TryBoth"
    /\ Begin(p, IF p \in failed THEN "mark" ELSE "produce")
    /\ UNCHANGED chosen

\* TryFirstContract::AddResult: the result is pushed, a value recorded as well.
AddResult(p) ==
    /\ kind = "TryFirst"
    /\ Begin(p, IF p \in failed THEN "produce" ELSE "mark")
    /\ UNCHANGED chosen

\* The store to error_result_ or one_result_.
Mark(p) ==
    /\ pc[p] = "mark"
    /\ chosen' = p
    /\ Goto(p, "produce")
    /\ UNCHANGED <<kind, failed, state, values, consumer, submitted, run, picked,
                   delivered, deleted, earlier>>

\* Whether the result of p alone decides the contract.
Decides(p) ==
    \/ kind = "First"
    \/ kind = "TryBoth" /\ p \in failed
    \/ kind = "TryFirst" /\ p \notin failed

After(result) ==
    CASE result = "Rendezvous" -> "submit"
      [] result = "Completed" -> "delete"
      [] OTHER -> "done"

Produce(p) ==
    /\ pc[p] = "produce"
    /\ IF Decides(p)
         THEN state' = ProduceOne(state) /\ Goto(p, After(ProduceOneResult(state)))
         ELSE state' = ProduceAll(state) /\ Goto(p, After(ProduceAllResult(state)))
    /\ UNCHANGED <<kind, failed, values, chosen, consumer, submitted, run, picked,
                   delivered, deleted, earlier>>

Submit(p) ==
    /\ pc[p] = "submit"
    /\ submitted' = submitted + 1
    /\ Goto(p, "done")
    /\ UNCHANGED <<kind, failed, state, values, chosen, consumer, run, picked,
                   delivered, deleted, earlier>>

Delete(p) ==
    /\ pc[p] = "delete"
    /\ deleted' = TRUE
    /\ Goto(p, "done")
    /\ UNCHANGED <<kind, failed, state, values, chosen, consumer, submitted, run, picked,
                   delivered, earlier>>

-----------------------------------------------------------------------------
\* The consumer.

\* The callback and the scheduler are put in place.
SetCallback ==
    /\ consumer = "start"
    /\ consumer' = "consume"
    /\ UNCHANGED <<kind, failed, state, values, chosen, pc, submitted, run, picked,
                   delivered, deleted, earlier>>

ConsumerConsumes ==
    /\ consumer = "consume"
    /\ state' = Consume(state)
    /\ consumer' = After(ConsumeResult(state))
    /\ UNCHANGED <<kind, failed, values, chosen, pc, submitted, run, picked,
                   delivered, deleted, earlier>>

ConsumerSubmits ==
    /\ consumer = "submit"
    /\ submitted' = submitted + 1
    /\ consumer' = "done"
    /\ UNCHANGED <<kind, failed, state, values, chosen, pc, run, picked,
                   delivered, deleted, earlier>>

-----------------------------------------------------------------------------
\* Run, on whatever thread the scheduler chooses.

\* The scheduler runs the contract, which first loads `chosen`.
Run ==
    /\ submitted > 0
    /\ run \in {"idle", "over"}
    /\ submitted' = submitted - 1
    /\ run' = "call"
    /\ picked' = chosen
    /\ UNCHANGED <<kind, failed, state, values, chosen, pc, consumer, delivered, deleted,
                   earlier>>

\* What the callback gets: the tuple of all, or the result of one producer.
Choice ==
    IF picked # None THEN {picked}
    ELSE IF kind = "TryFirst" THEN {values[Len(values)]}
    ELSE Producers

Callback ==
    /\ run = "call"
    /\ delivered' = Choice
    /\ run' = "finish"
    /\ UNCHANGED <<kind, failed, state, values, chosen, pc, consumer, submitted, picked,
                   deleted, earlier>>

RunFinishes ==
    /\ run = "finish"
    /\ state' = Finish(state)
    /\ run' = IF FinishResult(state) = "Completed" THEN "delete" ELSE "over"
    /\ UNCHANGED <<kind, failed, values, chosen, pc, consumer, submitted, picked,
                   delivered, deleted, earlier>>

RunDeletes ==
    /\ run = "delete"
    /\ deleted' = TRUE
    /\ run' = "over"
    /\ UNCHANGED <<kind, failed, state, values, chosen, pc, consumer, submitted, picked,
                   delivered, earlier>>

-----------------------------------------------------------------------------
SetResult(p)    == SetValueBoth(p) \/ SetValueFirst(p) \/ SetResultTryBoth(p) \/ AddResult(p)
ProducerStep(p) == Mark(p) \/ Produce(p) \/ Submit(p) \/ Delete(p)
ConsumerStep    == ConsumerConsumes \/ ConsumerSubmits
RunStep         == Run \/ Callback \/ RunFinishes \/ RunDeletes

Next ==
    \/ \E p \in Producers : SetResult(p) \/ ProducerStep(p)
    \/ SetCallback \/ ConsumerStep
    \/ RunStep

Spec == Init /\ [][Next]_vars

\* Nobody has to begin: a promise may never be kept.  Who has begun goes on,
\* and the scheduler runs what was submitted.
FairSpec ==
    /\ Spec
    /\ \A p \in Producers : WF_vars(ProducerStep(p))
    /\ WF_vars(ConsumerStep)
    /\ WF_vars(RunStep)

-----------------------------------------------------------------------------
TypeOK ==
    /\ kind \in Kinds
    /\ failed \subseteq Producers
    /\ state \in States
    /\ values \in Seq(Producers)
    /\ chosen \in Producers \union {None}
    /\ pc \in [Producers -> {"start", "mark", "produce", "submit", "delete", "done"}]
    /\ consumer \in {"start", "consume", "submit", "delete", "done"}
    /\ submitted \in Nat
    /\ run \in {"idle", "call", "finish", "delete", "over"}
    /\ picked \in Producers \union {None}
    /\ delivered \subseteq Producers
    /\ deleted \in BOOLEAN
    /\ earlier \in [Producers -> SUBSET Producers]

\* Exactly one party finds the meeting complete: the contract is submitted once
\* and its callback runs once, however the producers and the consumer race
\* (OneAllStateMachine.hpp 46, 65, 83).
RunsOnce ==
    /\ TypeOK
    /\ Cardinality({p \in Producers : pc[p] = "submit"})
       + (IF consumer = "submit" THEN 1 ELSE 0)
       + submitted
       + (IF run = "idle" THEN 0 ELSE 1) <= 1

\* The contract is deleted once, by the last one to touch it: nobody is still
\* to produce, consume, submit or run when somebody is about to delete it or
\* has deleted it (OneAllStateMachine.hpp 54, 62, 86).
DeletedLast ==
    LET deleters == {p \in Producers : pc[p] = "delete"}
                    \union (IF run = "delete" THEN {"run"} ELSE {})
    IN  deleted \/ deleters # {} =>
          /\ \A p \in Producers : pc[p] \in {"delete", "done"}
          /\ consumer = "done"
          /\ submitted = 0
          /\ run \in {"delete", "over"}
          /\ Cardinality(deleters) + (IF deleted THEN 1 ELSE 0) = 1

\* The callback finds what it is given: Run is entered with the callback in
\* place, and with the results that the kind of contract calls for: all of
\* them, the result of a producer before which no other had finished SetValue, an error or all values, a value or the last of nothing
\* but errors (the comments of Combinators/Concurrent; TryBothContract.hpp 64,
\* TryFirstContract.hpp 45).
CallbackGetsItsDue ==
    LET known == {values[i] : i \in DOMAIN values} IN
    delivered # {} =>
        /\ state.consumed
        /\ delivered \subseteq known
        /\ kind = "Both" => delivered = Producers
        /\ kind = "First" => \E p \in Producers : delivered = {p} /\ earlier[p] = {}
        /\ kind = "TryBoth" =>
              \/ failed = {} /\ delivered = Producers
              \/ \E p \in failed : delivered = {p}
        /\ kind = "TryFirst" =>
              \/ \E p \in Producers \ failed : delivered = {p}
              \/ failed = Producers /\ delivered = {values[Len(values)]}

\* The comment on FirstOk promises the first success
\* (Combinators/Concurrent/FirstOk.hpp 9): a success that came when another one
\* was already in the contract is not the first.
FirstSuccess ==
    kind = "TryFirst" => \A p \in delivered \ failed : earlier[p] = {}

\* The callback runs as soon as the results that are there decide the contract,
\* even if other producers never come (OneAllStateMachine.hpp 20-22).
CallbackRuns == (state.consumed /\ HasProduced(state)) ~> (delivered # {})

\* Once all producers have come the contract is deleted: none is leaked, by
\* whatever order of the last producer and Run.
ContractIsReclaimed == (state.consumed /\ HasProducedAll(state)) ~> deleted
=============================================================================
