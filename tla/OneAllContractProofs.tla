------------------------ MODULE OneAllContractProofs ------------------------
(***************************************************************************)
(* Proofs about the contracts of the concurrent combinators, for any       *)
(* number of producers and any choice of those that fail: the contract     *)
(* runs once, is deleted once and last, and the callback gets what its     *)
(* kind of contract promises.                                              *)
(*                                                                         *)
(* The word says how far everybody is: who has added to it, and so whether *)
(* the meeting is complete.  From then on there is one token, the right to *)
(* run the contract, that wanders from who completed the meeting to the    *)
(* scheduler and to Run; and once Run is over and all producers have come  *)
(* there is one more, the duty to delete it.                               *)
(***************************************************************************)
EXTENDS OneAllContract, FiniteSetTheorems, TLAPS

USE ContractAssumption DEF None

Produced == {p \in Producers : pc[p] \in {"submit", "delete", "done"}}
Known    == {values[i] : i \in DOMAIN values}

\* The meeting of producers and consumer is complete.
Met == state.consumed /\ HasProduced(state)

\* The word tells what everybody has done.
WordIsRight ==
    /\ state.all = Cardinality(Produced)
    /\ state.one <=> \E p \in Produced : Decides(p)
    /\ state.consumed <=> consumer \in {"submit", "done"}
    /\ consumer # "delete"
    /\ state.finished <=> run \in {"delete", "over"}

\* The right to run the contract is with one, from the meeting on.
OneRunner ==
    /\ \A p, q \in Producers : pc[p] = "submit" /\ pc[q] = "submit" => p = q
    /\ \A p \in Producers : pc[p] = "submit" => consumer # "submit" /\ submitted = 0 /\ run = "idle"
    /\ consumer = "submit" => submitted = 0 /\ run = "idle"
    /\ submitted \in {0, 1}
    /\ submitted = 1 => run = "idle"
    /\ Met <=> \/ \E p \in Producers : pc[p] = "submit"
               \/ consumer = "submit" \/ submitted = 1 \/ run # "idle"

\* The duty to delete it is with one, from the completion on.
OneDeleter ==
    /\ \A p, q \in Producers : pc[p] = "delete" /\ pc[q] = "delete" => p = q
    /\ \A p \in Producers : pc[p] = "delete" => run # "delete" /\ ~ deleted
    /\ run = "delete" => ~ deleted
    /\ IsCompleted(state) <=> deleted \/ run = "delete" \/ \E p \in Producers : pc[p] = "delete"

\* Who has begun is in `values`, and who is past its mark has left a choice.
ValuesAreRight ==
    /\ kind \in {"Both", "First"} => failed = {}
    /\ \A p \in Producers : pc[p] # "start" <=> p \in Known
    /\ \A p \in Producers : pc[p] = "mark" => kind \in {"TryBoth", "TryFirst"} /\ Decides(p)
    /\ chosen # None => Decides(chosen) /\ pc[chosen] # "start"
    /\ chosen = None => \A p \in Producers : pc[p] \notin {"start", "mark"} => ~ Decides(p)
    /\ kind = "First" /\ chosen # None => earlier[chosen] = {}

\* What Run has loaded, and what it has given to the callback.
PickIsRight ==
    /\ run = "idle" => picked = None /\ delivered = {}
    /\ run = "call" => delivered = {}
    /\ run # "idle" /\ picked # None =>
          Decides(picked) /\ pc[picked] # "start" /\ (kind = "First" => earlier[picked] = {})
    /\ run # "idle" /\ picked = None =>
          Produced = Producers /\ \A p \in Producers : ~ Decides(p)
    /\ run \in {"finish", "delete", "over"} => delivered = Choice

IInv == TypeOK /\ WordIsRight /\ OneRunner /\ OneDeleter /\ ValuesAreRight /\ PickIsRight

-----------------------------------------------------------------------------
\* A count of producers that reaches their number has counted all of them.
LEMMA CountOfProducers ==
  /\ Cardinality(Producers) \in Nat \ {0}
  /\ \A S \in SUBSET Producers :
        /\ Cardinality(S) \in 0 .. Cardinality(Producers)
        /\ Cardinality(S) = Cardinality(Producers) <=> S = Producers
        /\ \A p \in Producers \ S : Cardinality(S \union {p}) = Cardinality(S) + 1
  <1>1. Cardinality(Producers) \in Nat
    BY FS_CardinalityType
  <1>2. Cardinality(Producers) # 0
    BY FS_EmptySet
  <1>3. ASSUME NEW S \in SUBSET Producers
        PROVE  /\ Cardinality(S) \in 0 .. Cardinality(Producers)
               /\ Cardinality(S) = Cardinality(Producers) <=> S = Producers
               /\ \A p \in Producers \ S : Cardinality(S \union {p}) = Cardinality(S) + 1
    <2>1. IsFiniteSet(S)
      BY FS_Subset
    <2>2. Cardinality(S) \in Nat
      BY <2>1, FS_CardinalityType
    <2>3. Cardinality(S) <= Cardinality(Producers) /\ (Cardinality(S) = Cardinality(Producers) => S = Producers)
      BY FS_Subset
    <2>4. \A p \in Producers \ S : Cardinality(S \union {p}) = Cardinality(S) + 1
      BY <2>1, FS_AddElement
    <2> QED BY <1>1, <2>2, <2>3, <2>4
  <1> QED BY <1>1, <1>2, <1>3

\* Append adds one to the elements of a sequence, and it is the last.
LEMMA AppendFacts ==
  ASSUME NEW S, NEW s \in Seq(S), NEW e \in S
  PROVE  /\ Append(s, e) \in Seq(S)
         /\ {Append(s, e)[i] : i \in DOMAIN Append(s, e)} = {s[i] : i \in DOMAIN s} \union {e}
  <1> DEFINE t == Append(s, e)
  <1>1. t \in Seq(S) /\ Len(t) = Len(s) + 1 /\ t[Len(s) + 1] = e /\ Len(s) \in Nat
    OBVIOUS
  <1>2. DOMAIN t = 1 .. Len(s) + 1 /\ DOMAIN s = 1 .. Len(s) /\ \A i \in 1 .. Len(s) : t[i] = s[i]
    OBVIOUS
  <1>3. {t[i] : i \in DOMAIN t} \subseteq {s[i] : i \in DOMAIN s} \union {e}
    BY <1>1, <1>2
  <1>4. {s[i] : i \in DOMAIN s} \union {e} \subseteq {t[i] : i \in DOMAIN t}
    BY <1>1, <1>2
  <1> QED BY <1>1, <1>3, <1>4

\* The last of the values is that of a producer.
LEMMA LastIsKnown ==
  ASSUME values \in Seq(Producers), Known # {}
  PROVE  values[Len(values)] \in Producers /\ values[Len(values)] \in Known
  <1>1. Len(values) \in Nat /\ DOMAIN values = 1 .. Len(values)
    OBVIOUS
  <1>2. Len(values) # 0
    BY <1>1 DEF Known
  <1>3. Len(values) \in DOMAIN values
    BY <1>1, <1>2
  <1> QED BY <1>3 DEF Known

-----------------------------------------------------------------------------
\* Nobody has done anything.
LEMMA InitIInv == Init => IInv
  <1> SUFFICES ASSUME Init PROVE IInv
    OBVIOUS
  <1>1. Produced = {} /\ Cardinality(Produced) = 0
    BY FS_EmptySet DEF Init, Produced
  <1>2. Known = {}
    BY DEF Init, Known
  <1>3. 0 # Cardinality(Producers) /\ Cardinality(Producers) \in Nat
    BY CountOfProducers
  <1>4. TypeOK
    <2>1. failed \subseteq Producers /\ state \in States
      BY <1>3 DEF Init, InitialState, States
    <2>2. values \in Seq(Producers) /\ pc \in [Producers -> {"start"}] /\ earlier \in [Producers -> {{}}]
      BY DEF Init
    <2> QED BY <2>1, <2>2 DEF Init, TypeOK
  <1>5. WordIsRight
    BY <1>1 DEF Init, WordIsRight, InitialState
  <1>6. OneRunner /\ OneDeleter
    BY <1>3 DEF Init, OneRunner, OneDeleter, InitialState, Met, HasProduced, HasProducedAll, IsCompleted
  <1>7. ValuesAreRight /\ PickIsRight
    BY <1>2 DEF Init, ValuesAreRight, PickIsRight
  <1> QED BY <1>4, <1>5, <1>6, <1>7 DEF IInv

\* A producer begins: only the values, and what they decide, can change.
LEMMA BeginIInv ==
  ASSUME IInv, NEW p \in Producers, SetResult(p)
  PROVE  IInv'
  <1> USE DEF IInv
  <1>1. PICK label \in {"mark", "produce"} : Begin(p, label)
    BY DEF SetResult, SetValueBoth, SetValueFirst, SetResultTryBoth, AddResult
  <1>2. /\ pc[p] = "start" /\ pc' = [pc EXCEPT ![p] = label]
        /\ UNCHANGED <<kind, failed, state, consumer, submitted, run, picked, delivered, deleted>>
        /\ values' = Append(values, p)
        /\ earlier' = [earlier EXCEPT ![p] = {q \in Producers \ failed : pc[q] = "done"}]
    BY <1>1 DEF Begin, Goto
  <1>3. Produced' = Produced /\ p \notin Produced
    BY <1>2 DEF Produced, TypeOK
  <1>4. values' \in Seq(Producers) /\ Known' = Known \union {p}
    BY <1>2, AppendFacts DEF Known, TypeOK
  <1>5. \A q \in Producers : Decides(q)' <=> Decides(q)
    BY <1>2 DEF Decides
  <1>6. /\ chosen' = (IF kind = "First" /\ chosen = None THEN p ELSE chosen)
        /\ label = "mark" => kind \in {"TryBoth", "TryFirst"} /\ Decides(p)
        /\ label # "mark" => kind = "First" \/ ~ Decides(p)
    <2>1. CASE SetValueBoth(p)
      BY <2>1, <1>2 DEF SetValueBoth, Begin, Goto, Decides, TypeOK
    <2>2. CASE SetValueFirst(p)
      BY <2>2, <1>2 DEF SetValueFirst, Begin, Goto, Decides, TypeOK
    <2>3. CASE SetResultTryBoth(p)
      BY <2>3, <1>2 DEF SetResultTryBoth, Begin, Goto, Decides, TypeOK
    <2>4. CASE AddResult(p)
      BY <2>4, <1>2 DEF AddResult, Begin, Goto, Decides, TypeOK
    <2> QED BY <2>1, <2>2, <2>3, <2>4 DEF SetResult
  <1>7. TypeOK'
    BY <1>2, <1>4, <1>6 DEF TypeOK
  <1>8. WordIsRight'
    BY <1>2, <1>3, <1>5 DEF WordIsRight, Produced
  <1>9. OneRunner' /\ OneDeleter'
    BY <1>2 DEF OneRunner, OneDeleter, Met, HasProduced, HasProducedAll, IsCompleted, TypeOK
  <1>10. ValuesAreRight'
    BY <1>2, <1>4, <1>5, <1>6 DEF ValuesAreRight, TypeOK, Decides
  <1>11. PickIsRight'
    BY <1>2, <1>3, <1>5 DEF PickIsRight, TypeOK, Choice, Produced, Decides
  <1> QED BY <1>7, <1>8, <1>9, <1>10, <1>11

\* The store to `chosen`: the choice of p is as good as the one before it.
LEMMA MarkIInv ==
  ASSUME IInv, NEW p \in Producers, Mark(p)
  PROVE  IInv'
  <1> USE DEF IInv
  <1>1. /\ pc[p] = "mark" /\ pc' = [pc EXCEPT ![p] = "produce"] /\ chosen' = p
        /\ UNCHANGED <<kind, failed, state, values, consumer, submitted, run, picked, delivered,
                       deleted, earlier>>
    BY DEF Mark, Goto
  <1>2. Produced' = Produced /\ Known' = Known /\ p \notin Produced
    BY <1>1 DEF Produced, Known, TypeOK
  <1>3. \A q \in Producers : Decides(q)' <=> Decides(q)
    BY <1>1 DEF Decides
  <1>4. TypeOK'
    BY <1>1 DEF TypeOK
  <1>5. WordIsRight'
    BY <1>1, <1>2, <1>3 DEF WordIsRight, Produced
  <1>6. OneRunner' /\ OneDeleter'
    BY <1>1 DEF OneRunner, OneDeleter, Met, HasProduced, HasProducedAll, IsCompleted, TypeOK
  <1>7. ValuesAreRight'
    BY <1>1, <1>2, <1>3 DEF ValuesAreRight, TypeOK
  <1>8. PickIsRight'
    BY <1>1, <1>2, <1>3 DEF PickIsRight, TypeOK, Choice, Produced, Decides
  <1> QED BY <1>4, <1>5, <1>6, <1>7, <1>8

\* What the word and the caller's answer are after the addition of a producer.
LEMMA ProduceFacts ==
  ASSUME IInv, NEW p \in Producers, Produce(p)
  PROVE  /\ p \notin Produced /\ Produced' = Produced \union {p}
         /\ state' = [state EXCEPT !.one = @ \/ Decides(p), !.all = @ + 1]
         /\ state'.all = Cardinality(Produced')
         /\ ~ HasProducedAll(state)
         /\ HasProducedAll(state') <=> Produced' = Producers
         /\ \E label \in {"submit", "delete", "done"} :
               /\ pc' = [pc EXCEPT ![p] = label]
               /\ label = "submit" <=> Met' /\ ~ Met
               /\ label = "delete" <=> IsCompleted(state')
  <1> USE DEF IInv
  <1>1. pc[p] = "produce"
    BY DEF Produce
  <1>2. PICK label \in {"submit", "delete", "done"} : pc' = [pc EXCEPT ![p] = label]
    BY DEF Produce, Goto, After
  <1>3. p \notin Produced /\ Produced' = Produced \union {p} /\ Produced \in SUBSET Producers
    BY <1>1, <1>2 DEF Produced, TypeOK
  <1>4. /\ Cardinality(Produced') = Cardinality(Produced) + 1
        /\ Cardinality(Produced) # Cardinality(Producers)
        /\ Cardinality(Produced') = Cardinality(Producers) <=> Produced' = Producers
    BY <1>3, CountOfProducers
  <1>5. state' = [state EXCEPT !.one = @ \/ Decides(p), !.all = @ + 1]
    BY DEF Produce, ProduceOne, ProduceAll, TypeOK, States
  <1>6. state'.all = Cardinality(Produced') /\ ~ HasProducedAll(state)
    BY <1>4, <1>5 DEF HasProducedAll, WordIsRight, TypeOK, States
  <1>7. HasProducedAll(state') <=> Produced' = Producers
    BY <1>4, <1>6 DEF HasProducedAll
  <1>8. state.finished => Met
    BY DEF WordIsRight, OneRunner
  <1>9. label = "submit" <=> Met' /\ ~ Met
    <2>1. CASE Decides(p)
      <3>1. After(ProduceOneResult(state)) = label
        BY <1>1, <1>2, <2>1 DEF Produce, Goto, TypeOK
      <3> QED BY <3>1, <2>1, <1>5, <1>6 DEF Met, HasProduced, ProduceOneResult, After, TypeOK, States
    <2>2. CASE ~ Decides(p)
      <3>1. After(ProduceAllResult(state)) = label
        BY <1>1, <1>2, <2>2 DEF Produce, Goto, TypeOK
      <3>2. state' = ProduceAll(state)
        BY <2>2 DEF Produce
      <3> QED BY <3>1, <3>2, <2>2, <1>5, <1>6, <1>8 DEF Met, HasProduced, IsCompleted, ProduceAllResult, After, TypeOK, States
    <2> QED BY <2>1, <2>2
  <1>10. label = "delete" <=> IsCompleted(state')
    <2>1. CASE Decides(p)
      <3>1. After(ProduceOneResult(state)) = label
        BY <1>1, <1>2, <2>1 DEF Produce, Goto, TypeOK
      <3>2. state' = ProduceOne(state)
        BY <2>1 DEF Produce
      <3> QED BY <3>1, <3>2, <2>1, <1>5, <1>6, <1>8
            DEF Met, HasProduced, IsCompleted, ProduceOneResult, After, TypeOK, States
    <2>2. CASE ~ Decides(p)
      <3>1. After(ProduceAllResult(state)) = label
        BY <1>1, <1>2, <2>2 DEF Produce, Goto, TypeOK
      <3>2. state' = ProduceAll(state)
        BY <2>2 DEF Produce
      <3> QED BY <3>1, <3>2 DEF ProduceAllResult, After
    <2> QED BY <2>1, <2>2
  <1> QED BY <1>2, <1>3, <1>5, <1>6, <1>7, <1>9, <1>10

\* The addition of a producer: who completes the meeting has the right to run
\* the contract, who finds Run over and is the last has the duty to delete it.
LEMMA ProduceIInv ==
  ASSUME IInv, NEW p \in Producers, Produce(p)
  PROVE  IInv'
  <1> USE DEF IInv
  <1>1. PICK label \in {"submit", "delete", "done"} :
           /\ pc' = [pc EXCEPT ![p] = label]
           /\ label = "submit" <=> Met' /\ ~ Met
           /\ label = "delete" <=> IsCompleted(state')
    BY ProduceFacts
  <1>2. /\ p \notin Produced /\ Produced' = Produced \union {p}
        /\ state' = [state EXCEPT !.one = @ \/ Decides(p), !.all = @ + 1]
        /\ state'.all = Cardinality(Produced')
        /\ ~ HasProducedAll(state)
        /\ HasProducedAll(state') <=> Produced' = Producers
    BY ProduceFacts
  <1>3. /\ pc[p] = "produce"
        /\ UNCHANGED <<kind, failed, values, chosen, consumer, submitted, run, picked, delivered,
                       deleted, earlier>>
    BY DEF Produce
  <1>4. Known' = Known /\ \A q \in Producers : Decides(q)' <=> Decides(q)
    BY <1>3 DEF Known, Decides
  <1>5. Met => Met'
    BY <1>2 DEF Met, HasProduced, HasProducedAll, TypeOK, States
  <1>6. ~ IsCompleted(state)
    BY <1>2 DEF IsCompleted
  <1>7. TypeOK'
    <2>1. Produced' \in SUBSET Producers
      BY <1>2 DEF Produced
    <2>2. state'.all \in 0 .. Cardinality(Producers)
      BY <1>2, <2>1, CountOfProducers
    <2>3. state' \in States
      BY <1>2, <2>2 DEF TypeOK, States
    <2> QED BY <1>1, <1>3, <2>3 DEF TypeOK
  <1>8. WordIsRight'
    <2>1. state'.one <=> state.one \/ Decides(p)
      BY <1>2 DEF TypeOK, States
    <2>2. (\E q \in Produced' : Decides(q)') <=> Decides(p) \/ \E q \in Produced : Decides(q)
      BY <1>2, <1>4 DEF Produced
    <2>3. state'.one <=> \E q \in Produced' : Decides(q)'
      BY <2>1, <2>2 DEF WordIsRight
    <2> QED BY <1>2, <1>3, <2>3 DEF WordIsRight, TypeOK, States
  <1>9. OneRunner'
    <2>1. CASE label = "submit"
      BY <1>1, <1>3, <2>1 DEF OneRunner, TypeOK
    <2>2. CASE label # "submit"
      <3>1. Met' <=> Met
        BY <1>1, <1>5, <2>2
      <3>2. \A q \in Producers : pc'[q] = "submit" <=> pc[q] = "submit"
        BY <1>1, <1>3, <2>2 DEF TypeOK
      <3> QED BY <1>3, <3>1, <3>2 DEF OneRunner
    <2> QED BY <2>1, <2>2
  <1>10. OneDeleter'
    <2>1. CASE label = "delete"
      BY <1>1, <1>3, <1>6, <2>1 DEF OneDeleter, TypeOK
    <2>2. CASE label # "delete"
      <3>1. \A q \in Producers : pc'[q] = "delete" <=> pc[q] = "delete"
        BY <1>1, <1>3, <2>2 DEF TypeOK
      <3> QED BY <1>1, <1>3, <1>6, <2>2, <3>1 DEF OneDeleter
    <2> QED BY <2>1, <2>2
  <1>11. ValuesAreRight'
    BY <1>1, <1>3, <1>4 DEF ValuesAreRight, TypeOK
  <1>12. PickIsRight'
    BY <1>1, <1>2, <1>3, <1>4 DEF PickIsRight, TypeOK, Choice, Produced, Decides
  <1> QED BY <1>7, <1>8, <1>9, <1>10, <1>11, <1>12

\* The one who completed the meeting gives the contract to the scheduler.
LEMMA SubmitIInv ==
  ASSUME IInv, NEW p \in Producers, Submit(p)
  PROVE  IInv'
  <1> USE DEF IInv
  <1>1. /\ pc[p] = "submit" /\ pc' = [pc EXCEPT ![p] = "done"] /\ submitted' = submitted + 1
        /\ UNCHANGED <<kind, failed, state, values, chosen, consumer, run, picked, delivered,
                       deleted, earlier>>
    BY DEF Submit, Goto
  <1>2. Produced' = Produced /\ Known' = Known
    BY <1>1 DEF Produced, Known, TypeOK
  <1>3. \A q \in Producers : Decides(q)' <=> Decides(q)
    BY <1>1 DEF Decides
  <1>4. TypeOK'
    BY <1>1 DEF TypeOK
  <1>5. WordIsRight'
    BY <1>1, <1>2, <1>3 DEF WordIsRight, Produced
  <1>6. OneRunner'
    <2>1. Met' /\ Met
      BY <1>1 DEF OneRunner, Met, HasProduced, HasProducedAll
    <2> QED BY <1>1, <2>1 DEF OneRunner, TypeOK
  <1>7. OneDeleter'
    BY <1>1 DEF OneDeleter, IsCompleted, HasProducedAll, TypeOK
  <1>8. ValuesAreRight'
    BY <1>1, <1>2, <1>3 DEF ValuesAreRight, TypeOK
  <1>9. PickIsRight'
    BY <1>1, <1>2, <1>3 DEF PickIsRight, TypeOK, Choice, Produced, Decides
  <1> QED BY <1>4, <1>5, <1>6, <1>7, <1>8, <1>9

\* The last producer deletes the contract.
LEMMA DeleteIInv ==
  ASSUME IInv, NEW p \in Producers, Delete(p)
  PROVE  IInv'
  <1> USE DEF IInv
  <1>1. /\ pc[p] = "delete" /\ pc' = [pc EXCEPT ![p] = "done"] /\ deleted' = TRUE
        /\ UNCHANGED <<kind, failed, state, values, chosen, consumer, submitted, run, picked,
                       delivered, earlier>>
    BY DEF Delete, Goto
  <1>2. Produced' = Produced /\ Known' = Known
    BY <1>1 DEF Produced, Known, TypeOK
  <1>3. \A q \in Producers : Decides(q)' <=> Decides(q)
    BY <1>1 DEF Decides
  <1>4. TypeOK'
    BY <1>1 DEF TypeOK
  <1>5. WordIsRight'
    BY <1>1, <1>2, <1>3 DEF WordIsRight, Produced
  <1>6. OneRunner'
    BY <1>1 DEF OneRunner, Met, HasProduced, HasProducedAll, TypeOK
  <1>7. OneDeleter'
    BY <1>1 DEF OneDeleter, IsCompleted, HasProducedAll, TypeOK
  <1>8. ValuesAreRight'
    BY <1>1, <1>2, <1>3 DEF ValuesAreRight, TypeOK
  <1>9. PickIsRight'
    BY <1>1, <1>2, <1>3 DEF PickIsRight, TypeOK, Choice, Produced, Decides
  <1> QED BY <1>4, <1>5, <1>6, <1>7, <1>8, <1>9

-----------------------------------------------------------------------------
\* What neither the consumer nor Run changes.
LEMMA ProducersStay ==
  ASSUME IInv, UNCHANGED <<kind, failed, values, chosen, pc, earlier>>
  PROVE  /\ Produced' = Produced
         /\ \A q \in Producers : Decides(q)' <=> Decides(q)
         /\ ValuesAreRight'
  <1>1. Produced' = Produced /\ Known' = Known
    BY DEF Produced, Known
  <1>2. \A q \in Producers : Decides(q)' <=> Decides(q)
    BY DEF Decides
  <1> QED BY <1>1, <1>2 DEF IInv, ValuesAreRight, TypeOK

\* The consumer consumes: it completes the meeting, or a producer will.
LEMMA ConsumerIInv ==
  ASSUME IInv, SetCallback \/ ConsumerStep
  PROVE  IInv'
  <1> USE DEF IInv
  <1>1. UNCHANGED <<kind, failed, values, chosen, pc, run, picked, delivered, deleted, earlier>>
    BY DEF SetCallback, ConsumerStep, ConsumerConsumes, ConsumerSubmits
  <1>2. ValuesAreRight' /\ Produced' = Produced /\ \A q \in Producers : Decides(q)' <=> Decides(q)
    BY <1>1, ProducersStay
  <1>3. PickIsRight'
    BY <1>1, <1>2 DEF PickIsRight, TypeOK, Choice, Decides
  <1>4. CASE SetCallback
    <2>1. consumer = "start" /\ consumer' = "consume" /\ UNCHANGED <<state, submitted>>
      BY <1>4 DEF SetCallback
    <2>2. TypeOK' /\ WordIsRight'
      BY <1>1, <1>2, <2>1 DEF TypeOK, WordIsRight, Produced
    <2>3. OneRunner' /\ OneDeleter'
      BY <1>1, <2>1 DEF OneRunner, OneDeleter, Met, HasProduced, HasProducedAll, IsCompleted
    <2> QED BY <1>2, <1>3, <2>2, <2>3
  <1>5. CASE ConsumerConsumes
    <2>1. /\ consumer = "consume" /\ state' = [state EXCEPT !.consumed = TRUE] /\ UNCHANGED submitted
          /\ consumer' = IF HasProduced(state') THEN "submit" ELSE "done"
      BY <1>5 DEF ConsumerConsumes, Consume, ConsumeResult, After
    <2>2. TypeOK'
      BY <1>1, <2>1 DEF TypeOK, States
    <2>3. WordIsRight'
      BY <1>1, <1>2, <2>1 DEF WordIsRight, Produced, TypeOK, States
    <2>4. ~ Met /\ (Met' <=> consumer' = "submit")
      BY <2>1 DEF Met, WordIsRight, TypeOK, States
    <2>5. OneRunner'
      BY <1>1, <2>1, <2>4 DEF OneRunner
    <2>6. OneDeleter'
      BY <1>1, <2>1 DEF OneDeleter, IsCompleted, HasProducedAll, TypeOK, States
    <2> QED BY <1>2, <1>3, <2>2, <2>3, <2>5, <2>6
  <1>6. CASE ConsumerSubmits
    <2>1. consumer = "submit" /\ consumer' = "done" /\ submitted' = submitted + 1 /\ UNCHANGED state
      BY <1>6 DEF ConsumerSubmits
    <2>2. TypeOK' /\ WordIsRight'
      BY <1>1, <1>2, <2>1 DEF TypeOK, WordIsRight, Produced
    <2>3. Met' /\ Met
      BY <2>1 DEF OneRunner, Met, HasProduced, HasProducedAll
    <2>4. OneRunner' /\ OneDeleter'
      BY <1>1, <2>1, <2>3 DEF OneRunner, OneDeleter, HasProducedAll, IsCompleted
    <2> QED BY <1>2, <1>3, <2>2, <2>4
  <1> QED BY <1>4, <1>5, <1>6 DEF ConsumerStep

\* Run loads a choice if there is one; if there is none all producers have come.
LEMMA RunIInv ==
  ASSUME IInv, Run
  PROVE  IInv'
  <1> USE DEF IInv
  <1>1. /\ submitted = 1 /\ submitted' = 0 /\ run = "idle" /\ run' = "call" /\ picked' = chosen
        /\ UNCHANGED <<kind, failed, state, values, chosen, pc, consumer, delivered, deleted, earlier>>
    BY DEF Run, OneRunner
  <1>2. ValuesAreRight' /\ Produced' = Produced /\ \A q \in Producers : Decides(q)' <=> Decides(q)
    BY <1>1, ProducersStay
  <1>3. TypeOK' /\ WordIsRight'
    BY <1>1, <1>2 DEF TypeOK, WordIsRight, Produced
  <1>4. Met /\ Met'
    BY <1>1 DEF OneRunner, Met, HasProduced, HasProducedAll
  <1>5. OneRunner' /\ OneDeleter'
    BY <1>1, <1>4 DEF OneRunner, OneDeleter, HasProducedAll, IsCompleted
  <1>6. chosen = None => Produced = Producers /\ \A p \in Producers : ~ Decides(p)
    <2>1. SUFFICES ASSUME chosen = None PROVE Produced = Producers /\ \A p \in Producers : ~ Decides(p)
      OBVIOUS
    <2>2. \A p \in Produced : ~ Decides(p)
      BY <2>1 DEF ValuesAreRight, Produced
    <2>3. HasProducedAll(state)
      BY <1>4, <2>2 DEF WordIsRight, Met, HasProduced
    <2>4. Produced = Producers
      BY <2>3, CountOfProducers DEF WordIsRight, HasProducedAll, Produced
    <2> QED BY <2>2, <2>4
  <1>7. PickIsRight'
    BY <1>1, <1>2, <1>6 DEF PickIsRight, ValuesAreRight, TypeOK
  <1> QED BY <1>2, <1>3, <1>5, <1>7

\* The callback is called with what Run has loaded.
LEMMA CallbackIInv ==
  ASSUME IInv, Callback
  PROVE  IInv'
  <1> USE DEF IInv
  <1>1. /\ run = "call" /\ run' = "finish" /\ delivered' = Choice
        /\ UNCHANGED <<kind, failed, state, values, chosen, pc, consumer, submitted, picked, deleted, earlier>>
    BY DEF Callback
  <1>2. ValuesAreRight' /\ Produced' = Produced /\ \A q \in Producers : Decides(q)' <=> Decides(q)
    BY <1>1, ProducersStay
  <1>3. Choice \subseteq Producers /\ Choice' = Choice
    <2>1. picked = None => Known # {}
      BY <1>1 DEF PickIsRight, ValuesAreRight, Produced
    <2>2. picked = None => values[Len(values)] \in Producers
      BY <2>1, LastIsKnown DEF TypeOK
    <2> QED BY <1>1, <2>2 DEF Choice, TypeOK
  <1>4. TypeOK' /\ WordIsRight'
    BY <1>1, <1>2, <1>3 DEF TypeOK, WordIsRight, Produced
  <1>5. OneRunner' /\ OneDeleter'
    BY <1>1 DEF OneRunner, OneDeleter, Met, HasProduced, HasProducedAll, IsCompleted
  <1>6. PickIsRight'
    BY <1>1, <1>2, <1>3 DEF PickIsRight, TypeOK
  <1> QED BY <1>2, <1>4, <1>5, <1>6

\* Run is over: if all producers have come it deletes the contract.
LEMMA RunFinishesIInv ==
  ASSUME IInv, RunFinishes
  PROVE  IInv'
  <1> USE DEF IInv
  <1>1. /\ run = "finish" /\ state' = [state EXCEPT !.finished = TRUE]
        /\ run' = IF IsCompleted(state') THEN "delete" ELSE "over"
        /\ UNCHANGED <<kind, failed, values, chosen, pc, consumer, submitted, picked, delivered, deleted, earlier>>
    BY DEF RunFinishes, Finish, FinishResult
  <1>2. ValuesAreRight' /\ Produced' = Produced /\ \A q \in Producers : Decides(q)' <=> Decides(q)
    BY <1>1, ProducersStay
  <1>3. TypeOK'
    BY <1>1 DEF TypeOK, States
  <1>4. WordIsRight'
    BY <1>1, <1>2 DEF WordIsRight, Produced, TypeOK, States
  <1>5. OneRunner'
    BY <1>1 DEF OneRunner, Met, HasProduced, HasProducedAll, TypeOK, States
  <1>6. ~ IsCompleted(state)
    BY <1>1 DEF IsCompleted, WordIsRight
  <1>7. OneDeleter'
    BY <1>1, <1>6 DEF OneDeleter
  <1>8. PickIsRight'
    BY <1>1, <1>2 DEF PickIsRight, TypeOK, Choice
  <1> QED BY <1>2, <1>3, <1>4, <1>5, <1>7, <1>8

LEMMA RunDeletesIInv ==
  ASSUME IInv, RunDeletes
  PROVE  IInv'
  <1> USE DEF IInv
  <1>1. /\ run = "delete" /\ run' = "over" /\ deleted' = TRUE
        /\ UNCHANGED <<kind, failed, state, values, chosen, pc, consumer, submitted, picked, delivered, earlier>>
    BY DEF RunDeletes
  <1>2. ValuesAreRight' /\ Produced' = Produced /\ \A q \in Producers : Decides(q)' <=> Decides(q)
    BY <1>1, ProducersStay
  <1>3. TypeOK' /\ WordIsRight'
    BY <1>1, <1>2 DEF TypeOK, WordIsRight, Produced
  <1>4. OneRunner' /\ OneDeleter'
    BY <1>1 DEF OneRunner, OneDeleter, Met, HasProduced, HasProducedAll, IsCompleted
  <1>5. PickIsRight'
    BY <1>1, <1>2 DEF PickIsRight, TypeOK, Choice
  <1> QED BY <1>2, <1>3, <1>4, <1>5

LEMMA StutterIInv == ASSUME IInv, UNCHANGED vars PROVE IInv'
  BY DEF IInv, vars, TypeOK, WordIsRight, OneRunner, OneDeleter, ValuesAreRight, PickIsRight,
         Produced, Known, Decides, Met, HasProduced, HasProducedAll, IsCompleted, Choice

-----------------------------------------------------------------------------
\* The inductive invariant, for any producers.
LEMMA Invariance == Spec => []IInv
  <1>1. ASSUME IInv, [Next]_vars PROVE IInv'
    BY <1>1, BeginIInv, MarkIInv, ProduceIInv, SubmitIInv, DeleteIInv, ConsumerIInv, RunIInv,
       CallbackIInv, RunFinishesIInv, RunDeletesIInv, StutterIInv
       DEF Next, ProducerStep, RunStep
  <1> QED BY <1>1, InitIInv, PTL DEF Spec

\* Exactly one party finds the meeting complete: the contract is submitted and
\* run at most once (OneAllStateMachine.hpp 46, 65, 83).
THEOREM ContractRunsOnce == Spec => []RunsOnce
  <1>1. ASSUME IInv PROVE RunsOnce
    <2> DEFINE holders == {p \in Producers : pc[p] = "submit"}
    <2>1. holders = {} \/ \E p \in holders : holders = {p}
      BY <1>1 DEF IInv, OneRunner
    <2>2. CASE holders = {}
      BY <1>1, <2>2, FS_EmptySet DEF IInv, OneRunner, RunsOnce
    <2>3. ASSUME NEW p \in holders, holders = {p} PROVE RunsOnce
      <3>1. Cardinality(holders) = 1
        BY <2>3, FS_Singleton
      <3>2. consumer # "submit" /\ submitted = 0 /\ run = "idle" /\ TypeOK
        BY <1>1 DEF IInv, OneRunner
      <3> QED BY <3>1, <3>2 DEF RunsOnce
    <2> QED BY <2>1, <2>2, <2>3
  <1> QED BY <1>1, Invariance, PTL

\* Whoever deletes the contract is the last to touch it, and is one
\* (OneAllStateMachine.hpp 54, 62, 86).
THEOREM ContractIsDeletedLast == Spec => []DeletedLast
  <1>1. ASSUME IInv PROVE DeletedLast
    <2> DEFINE deleters == {p \in Producers : pc[p] = "delete"}
                           \union (IF run = "delete" THEN {"run"} ELSE {})
    <2>1. SUFFICES ASSUME deleted \/ deleters # {}
                   PROVE  /\ \A p \in Producers : pc[p] \in {"delete", "done"}
                          /\ consumer = "done"
                          /\ submitted = 0
                          /\ run \in {"delete", "over"}
                          /\ Cardinality(deleters) + (IF deleted THEN 1 ELSE 0) = 1
      BY DEF DeletedLast
    <2>2. IsCompleted(state)
      BY <1>1, <2>1 DEF IInv, OneDeleter
    <2>3. Produced = Producers
      BY <1>1, <2>2, CountOfProducers DEF IInv, WordIsRight, IsCompleted, HasProducedAll, Produced
    <2>4. run \in {"delete", "over"}
      BY <1>1, <2>2 DEF IInv, WordIsRight, IsCompleted
    <2>5. (\A p \in Producers : pc[p] # "submit") /\ consumer # "submit" /\ submitted = 0 /\ Met
      BY <1>1, <2>4 DEF IInv, OneRunner
    <2>6. consumer = "done"
      BY <1>1, <2>5 DEF IInv, WordIsRight, Met
    <2>7. \A p \in Producers : pc[p] \in {"delete", "done"}
      BY <2>3, <2>5 DEF Produced
    <2>8. Cardinality(deleters) + (IF deleted THEN 1 ELSE 0) = 1
      <3>1. CASE deleted
        <4>1. deleters = {}
          BY <1>1, <3>1 DEF IInv, OneDeleter
        <4> QED BY <3>1, <4>1, FS_EmptySet
      <3>2. CASE ~ deleted
        <4>1. \A p, q \in Producers : pc[p] = "delete" /\ pc[q] = "delete" => p = q /\ run # "delete"
          BY <1>1 DEF IInv, OneDeleter
        <4>2. PICK d : deleters = {d}
          <5>1. CASE run = "delete"
            BY <4>1, <5>1
          <5>2. CASE run # "delete"
            BY <2>1, <3>2, <4>1, <5>2
          <5> QED BY <5>1, <5>2
        <4>3. Cardinality(deleters) = 1
          BY <4>2, FS_Singleton
        <4> HIDE DEF deleters
        <4> QED BY <3>2, <4>3
      <3> QED BY <3>1, <3>2
    <2> QED BY <2>4, <2>5, <2>6, <2>7, <2>8
  <1> QED BY <1>1, Invariance, PTL

\* The callback gets what its kind of contract calls for: all results, the result
\* of a producer that no other had overtaken, an error or all values, a value or
\* the last of nothing but errors (Future/State/*Contract.hpp).
THEOREM CallbackIsServed == Spec => []CallbackGetsItsDue
  <1>1. ASSUME IInv PROVE CallbackGetsItsDue
    <2> DEFINE known == {values[i] : i \in DOMAIN values}
    <2>1. SUFFICES ASSUME delivered # {}
                   PROVE  /\ state.consumed
                          /\ delivered \subseteq known
                          /\ kind = "Both" => delivered = Producers
                          /\ kind = "First" => \E p \in Producers : delivered = {p} /\ earlier[p] = {}
                          /\ kind = "TryBoth" =>
                                \/ failed = {} /\ delivered = Producers
                                \/ \E p \in failed : delivered = {p}
                          /\ kind = "TryFirst" =>
                                \/ \E p \in Producers \ failed : delivered = {p}
                                \/ failed = Producers /\ delivered = {values[Len(values)]}
      BY DEF CallbackGetsItsDue
    <2>2. run \in {"finish", "delete", "over"} /\ delivered = Choice
      BY <1>1, <2>1 DEF IInv, PickIsRight, TypeOK
    <2>3. state.consumed
      BY <1>1, <2>2 DEF IInv, OneRunner, Met
    <2>4. CASE picked # None
      <3>1. delivered = {picked} /\ Decides(picked) /\ picked \in known /\ picked \in Producers
        BY <1>1, <2>2, <2>4 DEF IInv, PickIsRight, ValuesAreRight, Known, Choice, TypeOK
      <3>2. kind = "First" => earlier[picked] = {}
        BY <1>1, <2>2, <2>4 DEF IInv, PickIsRight
      <3> QED BY <2>3, <3>1, <3>2 DEF Decides
    <2>5. CASE picked = None
      <3>1. Produced = Producers /\ \A p \in Producers : ~ Decides(p)
        BY <1>1, <2>2, <2>5 DEF IInv, PickIsRight
      <3>2. known = Producers
        BY <1>1, <3>1 DEF IInv, ValuesAreRight, Produced, Known, TypeOK
      <3>3. values[Len(values)] \in known
        BY <1>1, <3>2, LastIsKnown DEF IInv, Known, TypeOK
      <3>4. kind # "First" /\ (kind = "TryBoth" => failed = {}) /\ (kind = "TryFirst" => failed = Producers)
        BY <1>1, <3>1 DEF IInv, TypeOK, Decides
      <3> QED BY <2>2, <2>3, <2>5, <3>2, <3>3, <3>4 DEF Choice
    <2> QED BY <2>4, <2>5
  <1> QED BY <1>1, Invariance, PTL

=============================================================================
