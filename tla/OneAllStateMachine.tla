------------------------- MODULE OneAllStateMachine -------------------------
(***************************************************************************)
(* Future/State/OneAllStateMachine.hpp: the word in which the producers of *)
(* a contract, its consumer and the task that runs its callback meet.      *)
(* Each operation is one atomic read-modify-write; the loop of ProduceOne  *)
(* has no other effect.  Every bit is added once, so the word is a record. *)
(*                                                                         *)
(* For each operation, Xxxx(s) is the new value of the word and            *)
(* XxxxResult what the caller is told.                                     *)
(***************************************************************************)
EXTENDS Naturals

CONSTANT producer_count_    \* a positive number

States == [consumed : BOOLEAN, finished : BOOLEAN, one : BOOLEAN, all : 0 .. producer_count_]

Results == {"InProgress", "Rendezvous", "Finishing", "Completed"}

InitialState == [consumed |-> FALSE, finished |-> FALSE, one |-> FALSE, all |-> 0]

HasProducedAll(s) == s.all = producer_count_
HasProduced(s)    == s.one \/ HasProducedAll(s)

\* Fault: a pending or running callback is not waited for.
IsCompletedEarly(s) == HasProducedAll(s)

IsCompleted(s)    == HasProducedAll(s) /\ s.finished

-----------------------------------------------------------------------------
Consume(s) == [s EXCEPT !.consumed = TRUE]

\* Fault: only the slow path is recognised.
ConsumeResultAll(s) == IF HasProducedAll(Consume(s)) THEN "Rendezvous" ELSE "InProgress"

ConsumeResult(s) == IF HasProduced(Consume(s)) THEN "Rendezvous" ELSE "InProgress"

Finish(s) == [s EXCEPT !.finished = TRUE]

FinishResult(s) == IF IsCompleted(Finish(s)) THEN "Completed" ELSE "Finishing"

ProduceAll(s) == [s EXCEPT !.all = @ + 1]

\* Fault: a contract that was met by ProduceOne is met again.
ProduceAllResultTwice(s) ==
    LET new == ProduceAll(s) IN
    IF IsCompleted(new) THEN "Completed"
    ELSE IF new.consumed /\ HasProducedAll(new) THEN "Rendezvous"
    ELSE IF ~ new.consumed THEN "InProgress"
    ELSE "Finishing"

ProduceAllResult(s) ==
    LET new == ProduceAll(s) IN
    IF IsCompleted(new) THEN "Completed"
    ELSE IF new.consumed /\ ~ new.one /\ HasProducedAll(new) THEN "Rendezvous"
    ELSE IF ~ new.consumed THEN "InProgress"
    ELSE "Finishing"

ProduceOne(s) == [s EXCEPT !.one = TRUE, !.all = @ + 1]

\* Fault: the last producer leaves the contract to Finish, which is over.
ProduceOneResultLeaks(s) ==
    IF ~ s.consumed THEN "InProgress"
    ELSE IF ~ s.one THEN "Rendezvous"
    ELSE "Finishing"

ProduceOneResult(s) ==
    IF ~ s.consumed THEN "InProgress"
    ELSE IF ~ s.one THEN "Rendezvous"
    ELSE IF IsCompleted(ProduceOne(s)) THEN "Completed"
    ELSE "Finishing"
=============================================================================
