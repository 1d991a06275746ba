------------------------ MODULE FuturePipelineProofs ------------------------
(***************************************************************************)
(* Proofs about the pipeline of futures, for any programs, of any length,  *)
(* and any workers of the pool.                                            *)
(*                                                                         *)
(* Owners.  Each side of a contract is in the hands of one party: of a     *)
(* frame of one thread's stack (its depth counted from below, so that a    *)
(* call above does not move it), of a step that is still to be reached, of *)
(* a callback or value that holds the other end, or of the user.  P says   *)
(* who is to set the value of each contract, C who is to subscribe to it,  *)
(* and Q how far its rendezvous, run and deletion have come.  Some P, C    *)
(* and Q always agree with the stacks and the words (Owned), and nobody    *)
(* else can run a contract, so it runs once.  A thread's step replaces its *)
(* top frames; what is below stays owned as it was (Stays).                *)
(*                                                                         *)
(* Values.  Let E be the results of the steps, one after the other, as     *)
(* plain values.  Whatever is on its way, in a frame, in a contract or in  *)
(* a task of the pool, is E of its step, and the scheduler that goes with  *)
(* it is the one told to that step (Tells): Get returns E of the last.     *)
(***************************************************************************)
EXTENDS FuturePipeline, FiniteSetTheorems, TLAPS

-----------------------------------------------------------------------------
\* Induction over a number and over a row of pipes.

\* A set of numbers that is not empty has a least member: by the well-foundedness
\* of strict inclusion on finite sets, applied to the sets 1 .. m.
LEMMA LeastNumber ==
  ASSUME NEW M, M \subseteq Nat, M # {}
  PROVE  \E m \in M : \A k \in M : m <= k
  <1> DEFINE O == StrictSubsetOrdering(Nat)
             S == FiniteSubsetsOf(Nat)
             T == {1 .. m : m \in M}
  <1>1. IsWellFoundedOn(O, S)
    BY FS_StrictSubsetOrderingWellFounded
  <1>2. T \subseteq S /\ T # {}
    <2>1. \A m \in M : IsFiniteSet(1 .. m) /\ 1 .. m \subseteq Nat
      BY FS_Interval
    <2> QED BY <2>1 DEF FiniteSubsetsOf
  <1>3. \E x \in T : \A y \in T : <<y, x>> \notin O
    <2> HIDE DEF O, S, T
    <2> QED BY <1>1, <1>2, WFMin
  <1>4. PICK m \in M : \A k \in M : <<1 .. k, 1 .. m>> \notin O
    BY <1>3
  <1>5. \A k \in M : m <= k
    <2> SUFFICES ASSUME NEW k \in M, k < m PROVE FALSE
      OBVIOUS
    <2>1. 1 .. k \subseteq 1 .. m /\ 1 .. k # 1 .. m
      <3>1. m \in 1 .. m /\ m \notin 1 .. k
        OBVIOUS
      <3> QED BY <3>1
    <2>2. <<1 .. k, 1 .. m>> \in O
      BY <2>1 DEF StrictSubsetOrdering
    <2> QED BY <1>4, <2>2
  <1> QED BY <1>5

LEMMA SameRow ==
  ASSUME NEW S, NEW x \in Seq(S), NEW y \in Seq(S), Len(x) = Len(y),
         \A i \in 1 .. Len(x) : x[i] = y[i]
  PROVE  x = y
  <1>1. x \in [1 .. Len(x) -> S] /\ y \in [1 .. Len(x) -> S]
    OBVIOUS
  <1> QED BY <1>1

LEMMA RowsOfCalls ==
  ASSUME NEW a, NEW b, NEW c
  PROVE  /\ <<a>> \o <<b>> = <<a, b>>
         /\ Append(<<a>>, c) = <<a, c>>
         /\ Append(<<a, b>>, c) = <<a, b, c>>
  <1> DEFINE S == {a, b, c}
  <1>0. <<a>> \in Seq(S) /\ <<b>> \in Seq(S) /\ <<a, b>> \in Seq(S) /\ <<a, c>> \in Seq(S) /\ <<a, b, c>> \in Seq(S)
    OBVIOUS
  <1>1. <<a>> \o <<b>> = <<a, b>>
    <2> DEFINE x == <<a>> \o <<b>>
               y == <<a, b>>
    <2>1. x \in Seq(S) /\ Len(x) = 2 /\ x[1] = a /\ x[2] = b
      BY <1>0
    <2>2. y \in Seq(S) /\ Len(y) = 2 /\ y[1] = a /\ y[2] = b
      BY <1>0
    <2> HIDE DEF x, y
    <2>3. x = y
      BY <2>1, <2>2, SameRow
    <2> QED BY <2>3 DEF x, y
  <1>4. Append(<<a>>, c) = <<a, c>>
    <2> DEFINE x == Append(<<a>>, c)
               y == <<a, c>>
    <2>1. x \in Seq(S) /\ Len(x) = 2 /\ x[1] = a /\ x[2] = c
      BY <1>0
    <2>2. y \in Seq(S) /\ Len(y) = 2 /\ y[1] = a /\ y[2] = c
      BY <1>0
    <2> HIDE DEF x, y
    <2>3. x = y
      BY <2>1, <2>2, SameRow
    <2> QED BY <2>3 DEF x, y
  <1>5. Append(<<a, b>>, c) = <<a, b, c>>
    <2> DEFINE x == Append(<<a, b>>, c)
               y == <<a, b, c>>
    <2>1. x \in Seq(S) /\ Len(x) = 3 /\ x[1] = a /\ x[2] = b /\ x[3] = c
      BY <1>0
    <2>2. y \in Seq(S) /\ Len(y) = 3 /\ y[1] = a /\ y[2] = b /\ y[3] = c
      BY <1>0
    <2> HIDE DEF x, y
    <2>3. x = y
      BY <2>1, <2>2, SameRow
    <2> QED BY <2>3 DEF x, y
  <1> QED BY <1>1, <1>4, <1>5

\* What the pipes are made of.
Combinators  == {"Map", "Flatten", "MapOk", "AndThen", "OrElse", "Via", "AsTryFuture"}
Combinations == [pipe : Combinators,
                 arg  : {"value", "result", "future", "tryfuture", "Pool", "Inline"}]

GivesFuture(s) == s.pipe = "Map" /\ s.arg # "value"

\* A function that returns a future is followed by the Flatten that waits for
\* it, and no Flatten is anywhere else.
Paired(sq) ==
    /\ sq \in Seq(Combinations)
    /\ \A k \in 1 .. Len(sq) : sq[k].pipe = "Via" => sq[k].arg \in {"Pool", "Inline"}
    /\ \A k \in 1 .. Len(sq) :
          GivesFuture(sq[k]) => k < Len(sq) /\ sq[k + 1].pipe = "Flatten"
    /\ \A k \in 1 .. Len(sq) :
          sq[k].pipe = "Flatten" => k > 1 /\ GivesFuture(sq[k - 1])

LEMMA PipeIsPaired ==
  ASSUME NEW p \in Pipes
  PROVE  Paired(Pipe(p))
  <1>1. CASE p.pipe = "FlatMap"
    <2> DEFINE sq == FlatMap(p.arg)
    <2>1. Pipe(p) = sq /\ p.arg \in {"future", "tryfuture"}
      BY <1>1 DEF Pipe, Pipes
    <2>2. sq \in Seq(Combinations) /\ Len(sq) = 2
      BY <2>1 DEF FlatMap, Combinations, Combinators
    <2>3. GivesFuture(sq[1]) /\ sq[2].pipe = "Flatten" /\ sq[1].pipe = "Map"
      BY <2>1 DEF FlatMap, GivesFuture
    <2> HIDE DEF sq
    <2>4. \A k \in 1 .. Len(sq) : k = 1 \/ k = 2
      BY <2>2
    <2> QED BY <2>1, <2>2, <2>3, <2>4 DEF Paired, GivesFuture
  <1>2. CASE p.pipe = "AsTryFuture"
    <2>1. CASE p.arg = "result"
      BY <1>2, <2>1 DEF Pipe, Pipes, AsTryFuture, Paired
    <2>2. CASE p.arg # "result"
      <3>1. Pipe(p) = <<[pipe |-> "AsTryFuture", arg |-> p.arg]>> /\ p.arg = "value"
        BY <1>2, <2>2 DEF Pipe, Pipes, AsTryFuture
      <3> QED BY <3>1 DEF Paired, GivesFuture, Combinations, Combinators
    <2> QED BY <2>1, <2>2
  <1>3. CASE p.pipe \notin {"FlatMap", "AsTryFuture"}
    <2>1. Pipe(p) = <<p>> /\ p \in Combinations
      BY <1>3 DEF Pipe, Pipes, Combinations, Combinators
    <2>2. /\ p.pipe = "Via" => p.arg \in {"Pool", "Inline"}
          /\ ~ GivesFuture(p) /\ p.pipe # "Flatten"
      BY <1>3 DEF Pipes, GivesFuture
    <2> QED BY <2>1, <2>2 DEF Paired
  <1> QED BY <1>1, <1>2, <1>3

LEMMA ConcatIsPaired ==
  ASSUME NEW s, NEW r, Paired(s), Paired(r)
  PROVE  Paired(s \o r)
  <1> DEFINE q == s \o r
  <1>1. s \in Seq(Combinations) /\ r \in Seq(Combinations)
    BY DEF Paired
  <1>2. /\ q \in Seq(Combinations) /\ Len(q) = Len(s) + Len(r)
        /\ \A k \in 1 .. Len(s) : q[k] = s[k]
        /\ \A k \in 1 .. Len(r) : q[Len(s) + k] = r[k]
    BY <1>1
  <1>3. Len(s) \in Nat /\ Len(r) \in Nat
    BY <1>1
  <1> HIDE DEF q
  <1>4. ASSUME NEW k \in 1 .. Len(q)
        PROVE  /\ q[k].pipe = "Via" => q[k].arg \in {"Pool", "Inline"}
               /\ GivesFuture(q[k]) => k < Len(q) /\ q[k + 1].pipe = "Flatten"
               /\ q[k].pipe = "Flatten" => k > 1 /\ GivesFuture(q[k - 1])
    <2>1. CASE k \in 1 .. Len(s)
      <3>1. q[k] = s[k]
        BY <1>2, <2>1
      <3>2. GivesFuture(q[k]) => k < Len(q) /\ q[k + 1].pipe = "Flatten"
        <4>1. k < Len(s) => q[k + 1] = s[k + 1] /\ k < Len(q)
          <5>1. k < Len(s) => k + 1 \in 1 .. Len(s)
            BY <1>3, <2>1
          <5> QED BY <1>2, <1>3, <2>1, <5>1
        <4>2. GivesFuture(s[k]) => k < Len(s) /\ s[k + 1].pipe = "Flatten"
          BY <2>1 DEF Paired
        <4> QED BY <3>1, <4>1, <4>2
      <3>3. q[k].pipe = "Flatten" => k > 1 /\ GivesFuture(q[k - 1])
        BY <1>2, <1>3, <2>1, <3>1 DEF Paired
      <3> QED BY <2>1, <3>1, <3>2, <3>3 DEF Paired
    <2>2. CASE k \notin 1 .. Len(s)
      <3>1. k - Len(s) \in 1 .. Len(r)
        BY <1>2, <1>3, <2>2
      <3> DEFINE i == k - Len(s)
      <3>2. i \in 1 .. Len(r) /\ k = Len(s) + i
        BY <1>2, <1>3, <3>1
      <3> HIDE DEF i
      <3>3. q[k] = r[i]
        BY <1>2, <3>2
      <3>4. GivesFuture(q[k]) => k < Len(q) /\ q[k + 1].pipe = "Flatten"
        <4>1. i < Len(r) => q[k + 1] = r[i + 1]
          BY <1>2, <1>3, <3>2
        <4> QED BY <1>2, <1>3, <3>2, <3>3, <4>1 DEF Paired
      <3>5. q[k].pipe = "Flatten" => k > 1 /\ GivesFuture(q[k - 1])
        <4>1. i > 1 => q[k - 1] = r[i - 1]
          BY <1>2, <1>3, <3>2
        <4> QED BY <1>2, <1>3, <3>2, <3>3, <4>1 DEF Paired
      <3> QED BY <3>2, <3>3, <3>4, <3>5 DEF Paired
    <2> QED BY <2>1, <2>2
  <1>5. Paired(q)
    BY <1>2, <1>4 DEF Paired
  <1> QED BY <1>5 DEF q

\* By induction on the number of rows.
LEMMA FlattenIsPaired ==
  ASSUME NEW ss, NEW n \in Nat, DOMAIN ss = 1 .. n, ss \in Seq(Seq(Combinations)),
         \A i \in 1 .. n : Paired(ss[i])
  PROVE  Paired(Seqs!FlattenSeq(ss))
  <1> DEFINE Is(g, m) == /\ g = [i \in 1 .. m |-> IF i = 1 THEN ss[i] ELSE g[i - 1] \o ss[i]]
                         /\ \A i \in 1 .. m : Paired(g[i])
             M == {m \in 0 .. n : ~ \E g : Is(g, m)}
  <1> HIDE DEF Is
  <1>1. M = {}
    <2> SUFFICES ASSUME M # {} PROVE FALSE
      OBVIOUS
    <2>1. PICK m \in M : \A k \in M : m <= k
      <3>1. M \subseteq Nat
        OBVIOUS
      <3> HIDE DEF M
      <3> QED BY <3>1, LeastNumber
    <2>2. m # 0
      <3>1. Is([i \in 1 .. 0 |-> ss[i]], 0)
        BY DEF Is
      <3> QED BY <2>1, <3>1
    <2>3. PICK g : Is(g, m - 1)
      <3>1. m \in Nat /\ m - 1 \in 0 .. n
        BY <2>2
      <3>2. m - 1 \notin M
        <4> HIDE DEF M
        <4> QED BY <2>1, <3>1
      <3> QED BY <3>1, <3>2
    <2> DEFINE h == [i \in 1 .. m |-> IF i # m THEN g[i]
                                      ELSE IF m = 1 THEN ss[m] ELSE g[m - 1] \o ss[m]]
    <2>4. ASSUME NEW i \in 1 .. m
          PROVE  h[i] = (IF i = 1 THEN ss[i] ELSE h[i - 1] \o ss[i]) /\ Paired(h[i])
      <3>1. CASE i # m
        <4>1. i \in 1 .. (m - 1) /\ h[i] = g[i] /\ Paired(g[i])
          BY <2>2, <2>3, <3>1 DEF Is
        <4>2. g[i] = IF i = 1 THEN ss[i] ELSE g[i - 1] \o ss[i]
          BY <2>3, <4>1 DEF Is
        <4>3. i # 1 => h[i - 1] = g[i - 1]
          BY <2>2, <4>1
        <4> QED BY <4>1, <4>2, <4>3
      <3>2. CASE i = m
        <4>1. h[i] = IF m = 1 THEN ss[m] ELSE g[m - 1] \o ss[m]
          BY <3>2
        <4>2. m # 1 => h[m - 1] = g[m - 1] /\ Paired(g[m - 1])
          BY <2>2, <2>3 DEF Is
        <4>3. Paired(ss[m])
          BY <2>2
        <4> QED BY <3>2, <4>1, <4>2, <4>3, ConcatIsPaired
      <3> QED BY <3>1, <3>2
    <2>5. Is(h, m)
      <3>1. h = [i \in 1 .. m |-> h[i]]
        OBVIOUS
      <3> HIDE DEF h
      <3>2. h = [i \in 1 .. m |-> IF i = 1 THEN ss[i] ELSE h[i - 1] \o ss[i]]
        BY <2>4, <3>1
      <3> QED BY <2>4, <3>2 DEF Is
    <2> QED BY <2>1, <2>5
  <1>2. PICK g : Is(g, n)
    <2>1. n \in 0 .. n
      OBVIOUS
    <2>2. n \notin M
      <3> HIDE DEF M
      <3> QED BY <1>1
    <2> QED BY <2>1, <2>2
  <1>3. Len(ss) = n
    OBVIOUS
  <1>4. CASE n = 0
    BY <1>3, <1>4 DEF Seqs!FlattenSeq, Paired
  <1>5. CASE n # 0
    <2> DEFINE Body(f) == f = [i \in 1 .. Len(ss) |-> IF i = 1 THEN ss[i] ELSE f[i - 1] \o ss[i]]
               e == CHOOSE f : Body(f)
    <2>1. Seqs!FlattenSeq(ss) = e[Len(ss)]
      BY <1>3, <1>5 DEF Seqs!FlattenSeq
    <2>2. Body(g)
      BY <1>2, <1>3 DEF Is
    <2>3. Body(e)
      <3> HIDE DEF Body
      <3> QED BY <2>2
    <2>4. PICK a : /\ a = [i \in 1 .. n |-> IF i = 1 THEN ss[i] ELSE a[i - 1] \o ss[i]]
                   /\ a[n] = e[Len(ss)]
      BY <1>3, <2>3
    <2> HIDE DEF e
    <2> DEFINE D == {m \in 1 .. n : ~ Paired(a[m])}
    <2>5. D = {}
      <3> SUFFICES ASSUME D # {} PROVE FALSE
        OBVIOUS
      <3>1. PICK m \in D : \A k \in D : m <= k
        <4>1. D \subseteq Nat
          OBVIOUS
        <4> HIDE DEF D
        <4> QED BY <4>1, LeastNumber
      <3>2. a[m] = IF m = 1 THEN ss[m] ELSE a[m - 1] \o ss[m]
        BY <2>4
      <3>3. m # 1 => Paired(a[m - 1])
        <4> SUFFICES ASSUME m # 1 PROVE Paired(a[m - 1])
          OBVIOUS
        <4>1. m \in Nat /\ m - 1 \in 1 .. n
          OBVIOUS
        <4>2. m - 1 \notin D
          <5> HIDE DEF D
          <5> QED BY <3>1, <4>1
        <4> QED BY <4>1, <4>2
      <3>4. Paired(a[m])
        BY <3>2, <3>3, ConcatIsPaired
      <3> QED BY <3>4
    <2>6. Paired(a[n])
      BY <1>5, <2>5
    <2> QED BY <2>1, <2>4, <2>6
  <1> QED BY <1>4, <1>5

LEMMA FlatIsPaired ==
  ASSUME NEW ps \in Seq(Pipes)
  PROVE  Paired(Flat(ps))
  <1> DEFINE ss == [i \in DOMAIN ps |-> Pipe(ps[i])]
  <1>1. Len(ps) \in Nat /\ DOMAIN ps = 1 .. Len(ps) /\ \A i \in DOMAIN ps : ps[i] \in Pipes
    OBVIOUS
  <1>2. \A i \in 1 .. Len(ps) : Paired(ss[i])
    BY <1>1, PipeIsPaired
  <1>3. ss \in Seq(Seq(Combinations))
    BY <1>1, <1>2 DEF Paired
  <1>4. DOMAIN ss = 1 .. Len(ps)
    BY <1>1
  <1> HIDE DEF ss
  <1>5. Paired(Seqs!FlattenSeq(ss))
    BY <1>1, <1>2, <1>3, <1>4, FlattenIsPaired
  <1> QED BY <1>5 DEF Flat, ss

-----------------------------------------------------------------------------
\* The steps of a program, which stay what they are.

FutureMap(k) == k \in 1 .. N /\ GivesFuture(steps[k])

StepsRight ==
    /\ N \in Nat /\ N >= 1
    /\ \A k \in 1 .. N : steps[k].pipe \in Combinators \union {"Get", "Detach"}
    /\ \A k \in 1 .. N : steps[k].pipe \in {"Get", "Detach"} <=> k = N
    /\ \A k \in 1 .. N : steps[k].pipe = "Via" => steps[k].arg \in {"Pool", "Inline"}
    /\ \A k \in 1 .. N : FutureMap(k) => k < N /\ steps[k + 1].pipe = "Flatten"
    /\ \A k \in 1 .. N : steps[k].pipe = "Flatten" => FutureMap(k - 1)

LEMMA InitSteps == Init => StepsRight
  <1> SUFFICES ASSUME Init PROVE StepsRight
    OBVIOUS
  <1>1. PICK p \in Programs : steps = Append(Flat(p.pipes), [pipe |-> p.end, arg |-> "value"])
    BY DEF Init
  <1> DEFINE q == Flat(p.pipes)
  <1>2. Paired(q) /\ p.end \in {"Get", "Detach"}
    BY FlatIsPaired, PipelineAssumption
  <1>3. q \in Seq(Combinations) /\ Len(q) \in Nat
    BY <1>2 DEF Paired
  <1> HIDE DEF q
  <1>4. /\ N = Len(q) + 1
        /\ \A k \in 1 .. Len(q) : steps[k] = q[k] /\ q[k] \in Combinations
        /\ steps[N] = [pipe |-> p.end, arg |-> "value"]
    BY <1>1, <1>3 DEF N, q
  <1>5. \A k \in 1 .. N : k \in 1 .. Len(q) \/ k = N
    BY <1>3, <1>4
  <1>6. \A k \in 1 .. Len(q) : q[k].pipe \in Combinators
    BY <1>3, <1>4 DEF Combinations
  <1>7. ~ GivesFuture(steps[N]) /\ steps[N].pipe \in {"Get", "Detach"} /\ N \notin 1 .. Len(q)
    BY <1>2, <1>3, <1>4 DEF GivesFuture
  <1>8. \A k \in 1 .. N : FutureMap(k) => k < N /\ steps[k + 1].pipe = "Flatten"
    <2> SUFFICES ASSUME NEW k \in 1 .. N, FutureMap(k) PROVE k < N /\ steps[k + 1].pipe = "Flatten"
      OBVIOUS
    <2>1. k \in 1 .. Len(q) /\ GivesFuture(q[k])
      BY <1>4, <1>5, <1>7 DEF FutureMap
    <2>2. k < Len(q) /\ q[k + 1].pipe = "Flatten"
      BY <1>2, <2>1 DEF Paired
    <2> QED BY <1>3, <1>4, <2>1, <2>2
  <1>9. \A k \in 1 .. N : steps[k].pipe = "Flatten" => FutureMap(k - 1)
    <2> SUFFICES ASSUME NEW k \in 1 .. N, steps[k].pipe = "Flatten" PROVE FutureMap(k - 1)
      OBVIOUS
    <2>1. k \in 1 .. Len(q) /\ q[k].pipe = "Flatten"
      BY <1>4, <1>5, <1>7
    <2>2. k > 1 /\ GivesFuture(q[k - 1])
      BY <1>2, <2>1 DEF Paired
    <2>3. k - 1 \in 1 .. Len(q) /\ k - 1 \in 1 .. N
      BY <1>3, <1>4, <2>1, <2>2
    <2> QED BY <1>4, <2>2, <2>3 DEF FutureMap
  <1>10. \A k \in 1 .. N : steps[k].pipe \in {"Get", "Detach"} <=> k = N
    BY <1>4, <1>5, <1>6, <1>7 DEF Combinators
  <1>11. \A k \in 1 .. N : steps[k].pipe = "Via" => steps[k].arg \in {"Pool", "Inline"}
    BY <1>2, <1>4, <1>5, <1>7 DEF Paired
  <1>12. \A k \in 1 .. N : steps[k].pipe \in Combinators \union {"Get", "Detach"}
    BY <1>4, <1>5, <1>6, <1>7
  <1> QED BY <1>3, <1>4, <1>8, <1>9, <1>10, <1>11, <1>12 DEF StepsRight

LEMMA StepsStay ==
  ASSUME StepsRight, steps' = steps
  PROVE  StepsRight' /\ N' = N /\ \A k \in 1 .. N : FutureMap(k)' <=> FutureMap(k)
  <1>1. N' = N
    BY DEF N
  <1>2. \A k : FutureMap(k)' <=> FutureMap(k)
    BY <1>1 DEF FutureMap
  <1> QED BY <1>1, <1>2 DEF StepsRight

-----------------------------------------------------------------------------
\* The types of everything.

Contracts == (0 .. N) \X {"outer", "inner"}
Labels    == {"set", "produce", "attach", "consume", "run", "delete", "user", "free", "box", "fire"}
Values    == [tag : {"Ok", "Failure"}, by : Seq(Nat)] \union {Nothing} \union {AFuture(k) : k \in 1 .. N - 1}
Frames    == [at : Labels, c : Contracts \union {None}, v : Values,
              cb : Contracts \union {None}, on : {"Inline", "Pool"}]

Typed ==
    /\ StepsRight
    /\ built \in 0 .. N + 1
    /\ future \in [state : Contracts \union {None}, scheduler : {"Inline", "Pool"}]
    /\ promise \in Contracts \union {None}
    /\ heap \subseteq {"contract", "task"} \X Contracts
    /\ word \in [Contracts -> SUBSET {"Produced", "Consumed"}]
    /\ value \in [Contracts -> Values]
    /\ callback \in [Contracts -> Contracts \union {None}]
    /\ scheduler \in [Contracts -> {"Inline", "Pool"}]
    /\ task \in [Contracts -> Values]
    /\ pool \subseteq {"contract", "task"} \X Contracts
    /\ stack \in [Threads -> Seq(Frames)]
    /\ box \in Values /\ got \in Values
    /\ ranOn \in [0 .. N -> Threads \union {Nobody}]

LEMMA ValueParts ==
  ASSUME StepsRight
  PROVE  /\ Nothing \in Values
         /\ \A v \in Values : v.by \in Seq(Nat)
         /\ \A v \in Values : v.tag = "Future" => v.by[1] \in 1 .. N - 1 /\ v = AFuture(v.by[1])
         /\ \A k \in 1 .. N - 1 : /\ AFuture(k) \in Values /\ AFuture(k) # Nothing
                                  /\ AFuture(k).tag = "Future" /\ AFuture(k).by[1] = k
         /\ \A by \in Seq(Nat) : /\ R!Ok(by) \in Values /\ R!Failure(by) \in Values
                                 /\ R!Ok(by) # Nothing /\ R!Failure(by) # Nothing
                                 /\ R!Ok(by).tag # "Future" /\ R!Failure(by).tag # "Future"
  <1>1. \A k : AFuture(k).tag = "Future" /\ AFuture(k).by = <<k>> /\ AFuture(k).by[1] = k
    BY DEF AFuture
  <1>2. Nothing.tag = "Nothing" /\ Nothing.by = <<>>
    BY DEF Nothing
  <1>3. \A k \in 1 .. N - 1 : <<k>> \in Seq(Nat)
    BY DEF StepsRight
  <1>4. \A by : R!Ok(by).tag = "Ok" /\ R!Failure(by).tag = "Failure"
    BY DEF R!Ok, R!Failure
  <1>5. \A by \in Seq(Nat) : R!Ok(by) \in Values /\ R!Failure(by) \in Values
    BY DEF Values, R!Ok, R!Failure
  <1> HIDE DEF AFuture, Nothing
  <1>6. \A v \in Values : v.by \in Seq(Nat)
    <2>1. <<>> \in Seq(Nat)
      OBVIOUS
    <2> SUFFICES ASSUME NEW v \in Values PROVE v.by \in Seq(Nat)
      OBVIOUS
    <2>2. CASE v = Nothing
      BY <1>2, <2>1, <2>2
    <2>3. ASSUME NEW k \in 1 .. N - 1, v = AFuture(k) PROVE v.by \in Seq(Nat)
      BY <1>1, <1>3, <2>3
    <2>4. CASE v \in [tag : {"Ok", "Failure"}, by : Seq(Nat)]
      BY <2>4
    <2> QED BY <2>2, <2>3, <2>4 DEF Values
  <1>7. \A v \in Values : v.tag = "Future" => v.by[1] \in 1 .. N - 1 /\ v = AFuture(v.by[1])
    BY <1>1, <1>2 DEF Values
  <1>8. \A k \in 1 .. N - 1 : AFuture(k) \in Values /\ AFuture(k) # Nothing
    BY <1>1, <1>2 DEF Values
  <1>9. Nothing \in Values
    BY DEF Values
  <1> QED BY <1>1, <1>2, <1>4, <1>5, <1>6, <1>7, <1>8, <1>9

LEMMA InitTyped == Init => Typed
  <1> SUFFICES ASSUME Init PROVE Typed
    OBVIOUS
  <1>1. StepsRight
    BY InitSteps
  <1>2. DOMAIN word = Contracts /\ 0 \in 0 .. N /\ N + 1 \in Nat
    BY <1>1 DEF Init, Contracts, StepsRight
  <1>3. \A t \in Threads : stack[t] \in Seq(Frames)
    BY DEF Init
  <1>4. Nothing \in Values
    BY <1>1, ValueParts
  <1> QED BY <1>1, <1>2, <1>3, <1>4 DEF Init, Typed, FutureOf, Contracts

LEMMA ContractParts ==
  ASSUME StepsRight
  PROVE  /\ \A k \in 0 .. N : Outer(k) \in Contracts /\ Inner(k) \in Contracts
         /\ \A k : Outer(k)[1] = k /\ Inner(k)[1] = k /\ Outer(k)[2] = "outer" /\ Inner(k)[2] = "inner"
         /\ \A k, j : /\ Outer(k) = Outer(j) <=> k = j
                      /\ Inner(k) = Inner(j) <=> k = j
                      /\ Outer(k) # Inner(j)
         /\ \A k : Outer(k) # None /\ Inner(k) # None
         /\ None \notin Contracts
         /\ \A c \in Contracts : c[1] \in 0 .. N /\ (c = Outer(c[1]) \/ c = Inner(c[1]))
  BY DEF Outer, Inner, None, Contracts

-----------------------------------------------------------------------------
\* Who owns what.  A contract is fed by one party and consumed by one party,
\* and it is run once.  P[c] says where the duty to set the value of c is, C[c]
\* where the duty to attach a callback is, Q[c] what has become of its Run: at a
\* frame of a thread (frames are counted from the outermost), with a callback,
\* in a value, or elsewhere.

Fr(s, d) == s[Len(s) - d + 1]

\* The contracts that are ever made.  The name of the last step is that of a callback only.
Cts == Contracts \ {Outer(N)}

IsFuture(v) == v.tag = "Future"
Sub(v)      == Inner(v.by[1])
Consumers   == {k \in 1 .. N : steps[k].pipe # "Via"}
Callbacks   == {Outer(k) : k \in Consumers} \union {Inner(k) : k \in 1 .. N - 1}

\* The user's function of step k was not called.
Unused(k, P, C) == P[Inner(k)][1] = "none" /\ C[Inner(k)][1] = "none"

FrameRight(f, t, d, P, C, Q) ==
    /\ f.at \in {"set", "produce", "attach", "consume", "run", "delete", "free"} => f.c \in Cts
    /\ f.at \in {"set", "produce"} => P[f.c] = <<"frame", t, d>>
    /\ f.at = "set" => f.v # Nothing /\ (IsFuture(f.v) => C[Sub(f.v)] = <<"frame", t, d>>)
    /\ f.at = "produce" => value[f.c] # Nothing
    /\ f.at = "attach" => /\ f.cb \in Callbacks
                          /\ P[Outer(f.cb[1])] = <<"frame", t, d>>
                          /\ f.cb[2] = "outer" => Unused(f.cb[1], P, C)
    /\ f.at \in {"attach", "consume"} => C[f.c] = <<"frame", t, d>>
    /\ f.at = "consume" => callback[f.c] # None
    /\ f.at \in {"run", "delete"} => Q[f.c] = <<f.at, t, d>>
    /\ f.at = "user" => (\E k \in 1 .. N - 1 : f.c = Inner(k)) /\ P[f.c] = <<"user", t, d>>
    /\ f.at = "free" => P[f.c][1] \notin {"none", "user", "task"}

FramesRight(P, C, Q) ==
    \A t \in Threads : \A d \in 1 .. Len(stack[t]) : FrameRight(Fr(stack[t], d), t, d, P, C, Q)

\* c exists, or did.
Born(c, P)  == P[c][1] \notin {"none", "user"}
\* Its callback is not called yet.
Unrun(c, Q) == Q[c][1] \in {"no", "pool", "run"}

CallbackRight(c, P, C, Q) ==
    callback[c] # None =>
        /\ callback[c] \in Callbacks
        /\ Unrun(c, Q) =>
              /\ P[Outer(callback[c][1])] = <<"callback", c, 0>>
              /\ callback[c][2] = "outer" => Unused(callback[c][1], P, C)

PoolRight(c, P, Q) ==
    /\ <<"task", c>> \in pool => /\ c \in Cts /\ P[c][1] = "task" /\ <<"task", c>> \in heap
                                 /\ task[c] # Nothing /\ ~ IsFuture(task[c])
    /\ <<"contract", c>> \in pool => c \in Cts /\ Q[c][1] = "pool"

WordRight(c, P, C, Q) ==
    /\ "Produced" \in word[c] => P[c][1] = "done" /\ (Unrun(c, Q) => value[c] # Nothing)
    /\ "Consumed" \in word[c] => C[c][1] = "done" /\ callback[c] # None
    /\ Q[c][1] # "no" <=> word[c] = {"Produced", "Consumed"}

ValueRight(c, C) == value[c] # Nothing /\ IsFuture(value[c]) => C[Sub(value[c])] = <<"value", c, 0>>

HeapRight(c, P, Q) == c \in Cts /\ Born(c, P) /\ Q[c][1] # "gone" => <<"contract", c>> \in heap

\* Who waits for a future that is not submitted yet is further out on the same thread.
AheadRight(c, P, C) ==
    C[c][1] # "none" /\ ~ Born(c, P) =>
        C[c][1] = "frame" /\ P[c][1] = "user" /\ C[c][2] = P[c][2] /\ C[c][3] < P[c][3]

UserRight(c, P) ==
    P[c][1] = "user" =>
        /\ P[c][2] \in Threads /\ P[c][3] \in 1 .. Len(stack[P[c][2]])
        /\ Fr(stack[P[c][2]], P[c][3]).at = "user" /\ Fr(stack[P[c][2]], P[c][3]).c = c

ContractRight(c, P, C, Q) ==
    /\ CallbackRight(c, P, C, Q)
    /\ PoolRight(c, P, Q)
    /\ WordRight(c, P, C, Q)
    /\ ValueRight(c, C)
    /\ HeapRight(c, P, Q)
    /\ AheadRight(c, P, C)
    /\ UserRight(c, P)

BuilderRight(P, C) ==
    /\ promise # None => promise \in Cts /\ P[promise][1] = "promise"
    /\ promise # None \/ built = 0 => Idle(Promiser)
    /\ future.state # None => future.state \in Cts /\ C[future.state][1] = "future"
    /\ built \in 1 .. N => future.state # None
    /\ \A k \in built .. N :
          P[Outer(k)][1] = "none" /\ C[Outer(k)][1] = "none" /\ Unused(k, P, C)

Owned(P, C, Q) ==
    /\ FramesRight(P, C, Q)
    /\ \A c \in Contracts : ContractRight(c, P, C, Q)
    /\ BuilderRight(P, C)

OwnedInv == Typed /\ \E P, C, Q : Owned(P, C, Q)

-----------------------------------------------------------------------------
\* What the calls of a thread do to its frames: the ones above the base b are
\* replaced by the frames fs.

Changes(t, b, fs) ==
    /\ b \in Nat /\ b <= Len(stack[t]) /\ Len(stack'[t]) = b + Len(fs)
    /\ \A u \in Threads \ {t} : stack'[u] = stack[u]
    /\ \A d \in 1 .. b : Fr(stack'[t], d) = Fr(stack[t], d)
    /\ \A i \in 1 .. Len(fs) : Fr(stack'[t], b + i) = fs[Len(fs) - i + 1]

LEMMA ThenChanges ==
  ASSUME Typed, NEW t \in Threads, ~ Idle(t), NEW fs \in Seq(Frames), Then(t, fs)
  PROVE  /\ stack' \in [Threads -> Seq(Frames)]
         /\ Len(stack[t]) \in Nat \ {0}
         /\ Changes(t, Len(stack[t]) - 1, fs)
  <1> DEFINE s == stack[t]
             x == Tail(s)
             r == fs \o x
  <1>1. s \in Seq(Frames) /\ s # <<>>
    BY DEF Typed, Idle
  <1>2. Len(s) \in Nat \ {0} /\ x \in Seq(Frames) /\ Len(x) = Len(s) - 1
        /\ \A i \in 1 .. Len(s) - 1 : x[i] = s[i + 1]
    BY <1>1
  <1>3. r \in Seq(Frames) /\ Len(r) = Len(fs) + Len(s) - 1 /\ Len(fs) \in Nat
        /\ \A i \in 1 .. Len(fs) : r[i] = fs[i]
    BY <1>2
  <1>4. stack'[t] = r /\ \A u \in Threads \ {t} : stack'[u] = stack[u]
    BY DEF Typed, Then
  <1>5. stack' \in [Threads -> Seq(Frames)]
    BY <1>3 DEF Typed, Then
  <1> HIDE DEF r, s, x
  <1>6. ASSUME NEW d \in 1 .. Len(s) - 1 PROVE Fr(stack'[t], d) = Fr(s, d)
    <2> DEFINE i == Len(s) - d
    <2>1. i \in 1 .. Len(s) - 1
      BY <1>2
    <2>3. Len(r) - d + 1 = Len(fs) + i /\ Len(s) - d + 1 = i + 1
      BY <1>2, <1>3
    <2> HIDE DEF i
    <2>2. r[Len(fs) + i] = s[i + 1]
      <3>1. x[i] = s[i + 1]
        BY <1>2, <2>1
      <3>2. ASSUME NEW j \in Nat, j = Len(fs) + i PROVE r[j] = x[j - Len(fs)]
        <4>1. j > Len(fs) /\ j <= Len(fs) + Len(x) /\ x \in Seq(Frames)
          BY <1>2, <1>3, <2>1, <3>2
        <4> QED BY <4>1 DEF r
      <3>3. Len(fs) + i \in Nat /\ (Len(fs) + i) - Len(fs) = i
        BY <1>2, <1>3, <2>1
      <3>4. r[Len(fs) + i] = x[(Len(fs) + i) - Len(fs)]
        BY <3>2, <3>3
      <3> QED BY <3>1, <3>3, <3>4
    <2> QED BY <1>4, <2>2, <2>3 DEF Fr
  <1>7. ASSUME NEW i \in 1 .. Len(fs) PROVE Fr(stack'[t], (Len(s) - 1) + i) = fs[Len(fs) - i + 1]
    <2> DEFINE j == Len(fs) - i + 1
    <2>1. j \in 1 .. Len(fs)
      BY <1>3
    <2>2. Len(r) - ((Len(s) - 1) + i) + 1 = j
      BY <1>2, <1>3
    <2> HIDE DEF j
    <2>3. r[j] = fs[j]
      BY <1>3, <2>1
    <2>4. Fr(stack'[t], (Len(s) - 1) + i) = r[j]
      BY <1>4, <2>2 DEF Fr
    <2> QED BY <2>3, <2>4 DEF j
  <1>8. Len(s) - 1 \in Nat /\ Len(s) - 1 <= Len(s) /\ Len(r) = (Len(s) - 1) + Len(fs)
    BY <1>2, <1>3
  <1> QED BY <1>2, <1>4, <1>5, <1>6, <1>7, <1>8 DEF Changes, s

LEMMA EnterChanges ==
  ASSUME Typed, NEW t \in Threads, Idle(t), NEW fs \in Seq(Frames), Enter(t, fs)
  PROVE  /\ stack' \in [Threads -> Seq(Frames)]
         /\ Len(stack[t]) = 0
         /\ Changes(t, 0, fs)
  <1>1. stack[t] = <<>> /\ Len(stack[t]) = 0
    BY DEF Idle
  <1>2. stack'[t] = fs /\ \A u \in Threads \ {t} : stack'[u] = stack[u]
    BY DEF Typed, Enter
  <1>3. stack' \in [Threads -> Seq(Frames)]
    BY DEF Typed, Enter
  <1>4. ASSUME NEW i \in 1 .. Len(fs) PROVE Fr(stack'[t], 0 + i) = fs[Len(fs) - i + 1]
    <2>1. Len(fs) - (0 + i) + 1 = Len(fs) - i + 1
      OBVIOUS
    <2> QED BY <1>2, <2>1 DEF Fr
  <1>5. Len(fs) \in Nat
    OBVIOUS
  <1> QED BY <1>1, <1>2, <1>3, <1>4, <1>5 DEF Changes

LEMMA TopIsFrame ==
  ASSUME Typed, NEW t \in Threads, ~ Idle(t)
  PROVE  /\ Len(stack[t]) \in Nat \ {0} /\ Len(stack[t]) \in 1 .. Len(stack[t])
         /\ Top(t) = Fr(stack[t], Len(stack[t])) /\ Top(t) \in Frames
  <1>1. stack[t] \in Seq(Frames) /\ stack[t] # <<>>
    BY DEF Typed, Idle
  <1>2. Len(stack[t]) \in Nat \ {0} /\ Head(stack[t]) = stack[t][1] /\ stack[t][1] \in Frames
    BY <1>1
  <1>3. Len(stack[t]) - Len(stack[t]) + 1 = 1
    BY <1>2
  <1> QED BY <1>2, <1>3 DEF Top, Fr

-----------------------------------------------------------------------------
\* The calls that are made.

LEMMA FrameFields ==
  /\ \A at, c, v : /\ Frame(at, c, v).at = at /\ Frame(at, c, v).c = c /\ Frame(at, c, v).v = v
                   /\ Frame(at, c, v).cb = None /\ Frame(at, c, v).on = "Inline"
  /\ \A c, v : SetValue(c, v) = Frame("set", c, v)
  /\ \A k, v : CallUser(k, v) = Frame("user", Inner(k), v)
  /\ \A c, k, on : /\ Consume(c, k, on).at = "attach" /\ Consume(c, k, on).c = c
                   /\ Consume(c, k, on).cb = Outer(k) /\ Consume(c, k, on).on = on
  /\ \A c, k : /\ Await(c, k).at = "attach" /\ Await(c, k).c = c
               /\ Await(c, k).cb = Inner(k) /\ Await(c, k).on = "Inline"
  BY DEF Frame, SetValue, CallUser, Consume, Await

LEMMA FramesAreTyped ==
  ASSUME StepsRight
  PROVE  /\ \A at \in Labels, c \in Contracts \union {None}, v \in Values : Frame(at, c, v) \in Frames
         /\ \A c \in Contracts, k \in 0 .. N, on \in {"Inline", "Pool"} : Consume(c, k, on) \in Frames
         /\ \A c \in Contracts, k \in 0 .. N : Await(c, k) \in Frames
  <1>1. /\ \A k \in 0 .. N : Outer(k) \in Contracts /\ Inner(k) \in Contracts
        /\ Nothing \in Values /\ None \in Contracts \union {None}
    BY ContractParts, ValueParts
  <1>2. \A at \in Labels, c \in Contracts \union {None}, v \in Values : Frame(at, c, v) \in Frames
    BY DEF Frame, Frames
  <1>3. "attach" \in Labels
    BY DEF Labels
  <1>4. \A c \in Contracts, k \in 0 .. N, on \in {"Inline", "Pool"} : Consume(c, k, on) \in Frames
    BY <1>1, <1>3 DEF Frame, Frames, Consume
  <1>5. \A c \in Contracts, k \in 0 .. N : Await(c, k) \in Frames
    BY <1>1, <1>3 DEF Frame, Frames, Await
  <1> QED BY <1>2, <1>4, <1>5

\* What the callback of a contract calls: it passes a result on; it has the user's
\* function give a future and passes that on, or awaits it; it awaits the
\* future that it was given; or it ends the pipeline.
PassesOn(fs, k, v) ==
    \E w \in Values : w # Nothing /\ (IsFuture(w) => w = v) /\ fs = <<SetValue(Outer(k), w)>>
HandsOut(fs, k, v) == fs = <<CallUser(k, v), SetValue(Outer(k), AFuture(k))>>
Asks(fs, k, v)     == fs = <<CallUser(k, v), Await(Inner(k), k)>>
Flattens(fs, k, v) == IsFuture(v) /\ fs = <<Await(Sub(v), k)>>
Delivers(fs, v)    == fs = <<Frame("box", None, v), Frame("fire", None, Nothing)>>

Continues(fs, k, v) ==
    \/ k < N /\ (\/ PassesOn(fs, k, v)
                 \/ HandsOut(fs, k, v)
                 \/ Asks(fs, k, v)
                 \/ Flattens(fs, k, v))
    \/ k = N /\ (Delivers(fs, v) \/ fs = <<>>)

LEMMA OutcomeIsResult ==
  ASSUME StepsRight, NEW k \in Nat, NEW v \in Values
  PROVE  /\ Outcome(k, v) \in Values /\ Outcome(k, v) # Nothing /\ ~ IsFuture(Outcome(k, v))
         /\ R!Ok(Append(v.by, k)) \in Values /\ R!Ok(Append(v.by, k)) # Nothing
         /\ ~ IsFuture(R!Ok(Append(v.by, k)))
  <1>1. Append(v.by, k) \in Seq(Nat)
    <2>1. v.by \in Seq(Nat)
      BY ValueParts
    <2> QED BY <2>1
  <1> QED BY <1>1, ValueParts DEF Outcome, IsFuture

LEMMA LambdaContinues ==
  ASSUME StepsRight, NEW k \in Consumers, NEW v \in Values, v # Nothing
  PROVE  Continues(Lambda(k, v), k, v)
  <1>1. k \in Nat /\ Outcome(k, v) \in Values /\ Outcome(k, v) # Nothing /\ ~ IsFuture(Outcome(k, v))
        /\ R!Ok(Append(v.by, k)) \in Values /\ R!Ok(Append(v.by, k)) # Nothing
        /\ ~ IsFuture(R!Ok(Append(v.by, k)))
    BY OutcomeIsResult DEF StepsRight, Consumers
  <1>2. /\ steps[k].pipe \in Combinators \union {"Get", "Detach"}
        /\ steps[k].pipe \in {"Get", "Detach"} <=> k = N
        /\ k <= N /\ N \in Nat /\ steps[k].pipe # "Via"
    BY DEF StepsRight, Consumers
  <1>3. CASE steps[k].pipe = "Map"
    <2>1. k < N
      BY <1>1, <1>2, <1>3
    <2>2. CASE steps[k].arg = "value"
      <3>1. Lambda(k, v) = <<SetValue(Outer(k), R!Ok(Append(v.by, k)))>>
        BY <1>3, <2>2 DEF Lambda, MapLambda
      <3> QED BY <1>1, <2>1, <3>1 DEF Continues, PassesOn
    <2>3. CASE steps[k].arg # "value" /\ steps[k].arg = "tryfuture" /\ k \in program.failing
      <3>1. Outcome(k, v).tag # "Future"
        BY <1>1 DEF IsFuture
      <3>2. Lambda(k, v) = <<>> \o <<SetValue(Outer(k), Outcome(k, v))>>
        BY <1>3, <2>3, <3>1 DEF Lambda, MapLambda
      <3>3. Lambda(k, v) = <<SetValue(Outer(k), Outcome(k, v))>>
        <4> HIDE DEF SetValue
        <4> QED BY <3>2
      <3> QED BY <1>1, <2>1, <3>3 DEF Continues, PassesOn
    <2>4. CASE steps[k].arg # "value" /\ ~ (steps[k].arg = "tryfuture" /\ k \in program.failing)
      <3>1. AFuture(k).tag = "Future"
        BY DEF AFuture
      <3>2. Lambda(k, v) = <<CallUser(k, v)>> \o <<SetValue(Outer(k), AFuture(k))>>
        BY <1>3, <2>4, <3>1 DEF Lambda, MapLambda
      <3>3. Lambda(k, v) = <<CallUser(k, v), SetValue(Outer(k), AFuture(k))>>
        <4>1. \A a, b : <<a>> \o <<b>> = <<a, b>>
          BY RowsOfCalls
        <4> QED BY <3>2, <4>1
      <3> QED BY <2>1, <3>3 DEF Continues, HandsOut
    <2> QED BY <2>2, <2>3, <2>4
  <1>4. CASE steps[k].pipe = "Flatten"
    <2>1. k < N
      BY <1>1, <1>2, <1>4
    <2>2. Lambda(k, v) = <<IF v.tag = "Future" THEN Await(Sub(v), k) ELSE SetValue(Outer(k), v)>>
      BY <1>4 DEF Lambda, FlattenLambda, Sub
    <2> QED BY <2>1, <2>2 DEF Continues, Flattens, PassesOn, IsFuture
  <1>5. CASE steps[k].pipe = "MapOk"
    <2>1. k < N
      BY <1>1, <1>2, <1>5
    <2>2. Lambda(k, v) = <<SetValue(Outer(k), R!Map(v, R!Ok(Append(v.by, k))))>>
      BY <1>5 DEF Lambda, MapOkLambda
    <2>3. R!Map(v, R!Ok(Append(v.by, k))) \in {v, R!Ok(Append(v.by, k))}
      BY DEF R!Map, R!Ok
    <2> QED BY <1>1, <2>1, <2>2, <2>3 DEF Continues, PassesOn
  <1>6. CASE steps[k].pipe \in {"AndThen", "OrElse"}
    <2>1. k < N
      BY <1>1, <1>2, <1>6
    <2>2. Lambda(k, v) \in {<<SetValue(Outer(k), v)>>, <<CallUser(k, v), Await(Inner(k), k)>>}
      BY <1>6 DEF Lambda, AndThenLambda, OrElseLambda
    <2> QED BY <2>1, <2>2 DEF Continues, Asks, PassesOn
  <1>7. CASE steps[k].pipe = "AsTryFuture"
    <2>1. k < N
      BY <1>1, <1>2, <1>7
    <2>2. Lambda(k, v) = <<SetValue(Outer(k), v)>>
      BY <1>7 DEF Lambda, AsTryFutureLambda
    <2> QED BY <2>1, <2>2 DEF Continues, PassesOn
  <1>8. CASE steps[k].pipe \in {"Get", "Detach"}
    <2>1. k = N
      BY <1>2, <1>8
    <2>2. Lambda(k, v) \in {<<Frame("box", None, v), Frame("fire", None, Nothing)>>, <<>>}
      BY <1>8 DEF Lambda, GetLambda, DetachLambda
    <2> QED BY <2>1, <2>2 DEF Continues, Delivers
  <1> QED BY <1>2, <1>3, <1>4, <1>5, <1>6, <1>7, <1>8 DEF Combinators

-----------------------------------------------------------------------------
\* Every step is well typed.

LEMMA TypesStay ==
  ASSUME StepsRight, steps' = steps
  PROVE  /\ StepsRight' /\ N' = N
         /\ Contracts' = Contracts /\ Cts' = Cts /\ Values' = Values /\ Frames' = Frames
         /\ Consumers' = Consumers /\ Callbacks' = Callbacks
  <1>1. StepsRight' /\ N' = N
    BY StepsStay
  <1>2. Contracts' = Contracts
    BY <1>1 DEF Contracts
  <1>3. Values' = Values
    BY <1>1 DEF Values, AFuture
  <1>4. Consumers' = Consumers
    BY <1>1 DEF Consumers
  <1> QED BY <1>1, <1>2, <1>3, <1>4 DEF Cts, Frames, Callbacks

\* What a thread finds in its innermost call.
TopRight(t) ==
    LET f == Top(t) IN
    /\ f.at \in {"set", "produce", "attach", "consume", "run", "delete", "free"} => f.c \in Cts
    /\ f.at = "set" => f.v # Nothing
    /\ f.at = "attach" => f.cb \in Callbacks
    /\ f.at = "user" => \E k \in 1 .. N - 1 : f.c = Inner(k)
    /\ f.at = "run" => callback[f.c] \in Callbacks /\ value[f.c] # Nothing

LEMMA OwnedTop ==
  ASSUME Typed, NEW P, NEW C, NEW Q, Owned(P, C, Q), NEW t \in Threads, ~ Idle(t)
  PROVE  /\ FrameRight(Top(t), t, Len(stack[t]), P, C, Q)
         /\ TopRight(t)
  <1>1. FrameRight(Top(t), t, Len(stack[t]), P, C, Q)
    BY TopIsFrame DEF Owned, FramesRight
  <1>2. ASSUME Top(t).at = "run" PROVE callback[Top(t).c] \in Callbacks /\ value[Top(t).c] # Nothing
    <2> DEFINE c == Top(t).c
    <2>1. c \in Cts /\ c \in Contracts /\ Q[c] = <<"run", t, Len(stack[t])>>
      BY <1>1, <1>2 DEF FrameRight, Cts
    <2>2. Q[c][1] = "run"
      BY <2>1
    <2>3. word[c] = {"Produced", "Consumed"}
      BY <2>1, <2>2 DEF Owned, ContractRight, WordRight
    <2>4. callback[c] # None /\ value[c] # Nothing
      BY <2>1, <2>2, <2>3 DEF Owned, ContractRight, WordRight, Unrun
    <2>5. callback[c] \in Callbacks
      BY <2>1, <2>4 DEF Owned, ContractRight, CallbackRight
    <2> QED BY <2>4, <2>5
  <1> QED BY <1>1, <1>2 DEF FrameRight, TopRight

\* What Run calls.
Made(t) == LET c == Top(t).c
               k == callback[c][1]
           IN  IF callback[c] = Inner(k) THEN <<SetValue(Outer(k), value[c])>> ELSE Lambda(k, value[c])

LEMMA RunContinues ==
  ASSUME Typed, NEW t \in Threads, ~ Idle(t), Top(t).at = "run", TopRight(t)
  PROVE  LET c == Top(t).c
             k == callback[c][1]
         IN  /\ c \in Contracts /\ k \in 1 .. N /\ value[c] \in Values /\ value[c] # Nothing
             /\ callback[c] = Inner(k) => k < N /\ PassesOn(Made(t), k, value[c])
             /\ callback[c] # Inner(k) => callback[c] = Outer(k) /\ k \in Consumers
             /\ Continues(Made(t), k, value[c])
  <1> DEFINE c == Top(t).c
             k == callback[c][1]
             v == value[c]
  <1>1. c \in Contracts /\ v \in Values /\ v # Nothing /\ callback[c] \in Callbacks /\ StepsRight
    BY DEF TopRight, Typed, Cts
  <1> HIDE DEF c, v
  <1>2. CASE \E j \in 1 .. N - 1 : callback[c] = Inner(j)
    <2>1. callback[c] = Inner(k) /\ k \in 1 .. N - 1
      BY <1>1, <1>2, ContractParts
    <2>2. k \in 1 .. N /\ k < N
      BY <1>1, <2>1 DEF StepsRight
    <2>3. Made(t) = <<SetValue(Outer(k), v)>>
      BY <2>1 DEF Made, c, v
    <2>4. PassesOn(Made(t), k, v)
      BY <1>1, <2>3 DEF PassesOn
    <2> QED BY <1>1, <2>1, <2>2, <2>4 DEF Continues, c, v
  <1>3. CASE \E j \in Consumers : callback[c] = Outer(j)
    <2>1. callback[c] = Outer(k) /\ k \in Consumers /\ k \in 1 .. N
      BY <1>1, <1>3, ContractParts DEF Consumers
    <2>2. callback[c] # Inner(k)
      BY <1>1, <2>1, ContractParts
    <2>3. Made(t) = Lambda(k, v)
      BY <2>2 DEF Made, c, v
    <2>4. Continues(Made(t), k, v)
      BY <1>1, <2>1, <2>3, LambdaContinues
    <2> QED BY <1>1, <2>1, <2>2, <2>4 DEF c, v
  <1> QED BY <1>1, <1>2, <1>3 DEF Callbacks

LEMMA ContinuesTyped ==
  ASSUME StepsRight, NEW k \in 1 .. N, NEW v \in Values, NEW fs, Continues(fs, k, v)
  PROVE  fs \in Seq(Frames)
  <1>1. /\ "set" \in Labels /\ "user" \in Labels /\ "box" \in Labels /\ "fire" \in Labels
        /\ None \in Contracts \union {None}
    BY DEF Labels
  <1>2. /\ Outer(k) \in Contracts /\ Inner(k) \in Contracts /\ k \in 0 .. N
        /\ Nothing \in Values
        /\ k < N => AFuture(k) \in Values
        /\ IsFuture(v) => Sub(v) \in Contracts
    <2>1. k \in 0 .. N /\ (k < N => k \in 1 .. N - 1)
      BY DEF StepsRight
    <2>2. IsFuture(v) => v.by[1] \in 0 .. N
      BY ValueParts DEF IsFuture, StepsRight
    <2> QED BY <2>1, <2>2, ContractParts, ValueParts DEF Sub
  <1>3. CASE k < N /\ PassesOn(fs, k, v)
    <2>1. PICK w \in Values : fs = <<SetValue(Outer(k), w)>>
      BY <1>3 DEF PassesOn
    <2>2. SetValue(Outer(k), w) \in Frames
      BY <1>1, <1>2, FramesAreTyped, FrameFields
    <2> QED BY <2>1, <2>2
  <1>4. CASE k < N /\ HandsOut(fs, k, v)
    <2>1. CallUser(k, v) \in Frames /\ SetValue(Outer(k), AFuture(k)) \in Frames
      BY <1>1, <1>2, <1>4, FramesAreTyped, FrameFields
    <2> QED BY <1>4, <2>1 DEF HandsOut
  <1>5. CASE k < N /\ Asks(fs, k, v)
    <2>1. CallUser(k, v) \in Frames /\ Await(Inner(k), k) \in Frames
      BY <1>1, <1>2, FramesAreTyped, FrameFields
    <2> QED BY <1>5, <2>1 DEF Asks
  <1>6. CASE k < N /\ Flattens(fs, k, v)
    <2>1. Await(Sub(v), k) \in Frames
      BY <1>2, <1>6, FramesAreTyped DEF Flattens
    <2> QED BY <1>6, <2>1 DEF Flattens
  <1>7. CASE Delivers(fs, v)
    <2>1. Frame("box", None, v) \in Frames /\ Frame("fire", None, Nothing) \in Frames
      BY <1>1, <1>2, FramesAreTyped
    <2> QED BY <1>7, <2>1 DEF Delivers
  <1>8. CASE fs = <<>>
    BY <1>8
  <1> QED BY <1>3, <1>4, <1>5, <1>6, <1>7, <1>8 DEF Continues

LEMMA FramesNeedTypes ==
  ASSUME Typed, NEW t \in Threads, ~ Idle(t)
  PROVE  /\ Top(t).at \in Labels /\ Top(t).c \in Contracts \union {None} /\ Top(t).v \in Values
         /\ Top(t).cb \in Contracts \union {None} /\ Top(t).on \in {"Inline", "Pool"}
  BY TopIsFrame DEF Frames

LEMMA MeetTyped ==
  ASSUME Typed, NEW t \in Threads, ~ Idle(t), Top(t).c \in Contracts, steps' = steps,
         NEW me \in {"Produced", "Consumed"}, NEW other, Meet(t, me, other)
  PROVE  /\ word' \in [Contracts -> SUBSET {"Produced", "Consumed"}]
         /\ pool' \subseteq {"contract", "task"} \X Contracts
         /\ stack' \in [Threads -> Seq(Frames)]
  <1> DEFINE c == Top(t).c
  <1>1. word' \in [Contracts -> SUBSET {"Produced", "Consumed"}]
    BY DEF Typed, Meet
  <1>2. Frame("run", c, Nothing) \in Frames
    BY FramesAreTyped, ValueParts DEF Typed, Labels
  <1>3. <<Frame("run", c, Nothing)>> \in Seq(Frames) /\ <<>> \in Seq(Frames)
    BY <1>2
  <1>4. \/ Then(t, <<Frame("run", c, Nothing)>>) /\ pool' = pool
        \/ Then(t, <<>>) /\ pool' = pool
        \/ Then(t, <<>>) /\ pool' = pool \union {<<"contract", c>>}
    BY DEF Meet, SubmitContract, SubmitInline, SubmitToPool
  <1>5. stack' \in [Threads -> Seq(Frames)]
    BY <1>3, <1>4, ThenChanges
  <1>6. pool' \subseteq {"contract", "task"} \X Contracts
    BY <1>4 DEF Typed
  <1> QED BY <1>1, <1>5, <1>6

LEMMA StepTyped ==
  ASSUME Typed, NEW t \in Threads, ~ Idle(t), TopRight(t), Step(t)
  PROVE  Typed'
  <1>1. steps' = steps
    BY DEF Step, ConstructValue, Produce, SetCallback, ConsumeWord, Run, Delete, User, ConstructBox, Fire
  <1>2. StepsRight
    BY DEF Typed
  <1>3. /\ StepsRight' /\ N' = N /\ Contracts' = Contracts /\ Values' = Values /\ Frames' = Frames
    BY <1>1, <1>2, TypesStay
  <1>4. /\ Top(t).v \in Values /\ Top(t).cb \in Contracts \union {None} /\ Top(t).on \in {"Inline", "Pool"}
    BY FramesNeedTypes
  <1>5. Top(t).at \in {"set", "produce", "attach", "consume", "run", "delete", "free"} => Top(t).c \in Contracts
    BY DEF TopRight, Cts
  <1>6. \A at \in Labels, c \in Contracts, v \in Values : Frame(at, c, v) \in Frames /\ <<Frame(at, c, v)>> \in Seq(Frames)
    BY <1>2, FramesAreTyped
  <1>7. Nothing \in Values /\ <<>> \in Seq(Frames) /\ "produce" \in Labels /\ "consume" \in Labels /\ "delete" \in Labels
    BY <1>2, ValueParts DEF Labels
  <1>8. CASE ConstructValue(t)
    <2>1. stack' \in [Threads -> Seq(Frames)]
      BY <1>5, <1>6, <1>7, <1>8, ThenChanges DEF ConstructValue, At
    <2>2. value' \in [Contracts -> Values]
      BY <1>4, <1>8 DEF ConstructValue, Typed
    <2> QED BY <1>3, <1>8, <2>1, <2>2 DEF ConstructValue, Typed
  <1>9. CASE Produce(t)
    <2>1. /\ word' \in [Contracts -> SUBSET {"Produced", "Consumed"}]
          /\ pool' \subseteq {"contract", "task"} \X Contracts
          /\ stack' \in [Threads -> Seq(Frames)]
      BY <1>1, <1>5, <1>9, MeetTyped DEF Produce, At
    <2> QED BY <1>3, <1>9, <2>1 DEF Produce, Typed
  <1>10. CASE SetCallback(t)
    <2>1. stack' \in [Threads -> Seq(Frames)]
      BY <1>5, <1>6, <1>7, <1>10, ThenChanges DEF SetCallback, At
    <2>2. callback' \in [Contracts -> Contracts \union {None}] /\ scheduler' \in [Contracts -> {"Inline", "Pool"}]
      BY <1>4, <1>10 DEF SetCallback, Typed
    <2> QED BY <1>3, <1>10, <2>1, <2>2 DEF SetCallback, Typed
  <1>11. CASE ConsumeWord(t)
    <2>1. /\ word' \in [Contracts -> SUBSET {"Produced", "Consumed"}]
          /\ pool' \subseteq {"contract", "task"} \X Contracts
          /\ stack' \in [Threads -> Seq(Frames)]
      BY <1>1, <1>5, <1>11, MeetTyped DEF ConsumeWord, At
    <2> QED BY <1>3, <1>11, <2>1 DEF ConsumeWord, Typed
  <1>12. CASE Run(t)
    <2> DEFINE c == Top(t).c
               k == callback[c][1]
    <2>1. Top(t).at = "run"
      BY <1>12 DEF Run, At
    <2>2. /\ c \in Contracts /\ k \in 1 .. N
          /\ Continues(Made(t), k, value[c]) /\ value[c] \in Values
      BY <2>1, RunContinues
    <2>3. Made(t) \in Seq(Frames)
      BY <1>2, <2>2, ContinuesTyped
    <2>4. CallBack(t, c, Made(t)) /\ value' = [value EXCEPT ![c] = Nothing]
          /\ ranOn' \in {ranOn, [ranOn EXCEPT ![k] = t]}
      BY <1>12 DEF Run, Made
    <2>5. Append(Made(t), Frame("delete", c, Nothing)) \in Seq(Frames)
      BY <1>6, <1>7, <2>2, <2>3
    <2>6. stack' \in [Threads -> Seq(Frames)]
      BY <2>4, <2>5, ThenChanges DEF CallBack
    <2>7. value' \in [Contracts -> Values] /\ ranOn' \in [0 .. N -> Threads \union {Nobody}]
      <3>1. value' \in [Contracts -> Values]
        BY <1>7, <2>4 DEF Typed
      <3>2. ranOn' \in [0 .. N -> Threads \union {Nobody}]
        BY <2>4 DEF Typed
      <3> QED BY <3>1, <3>2
    <2> QED BY <1>3, <1>12, <2>6, <2>7 DEF Run, Typed
  <1>13. CASE Delete(t)
    <2>1. stack' \in [Threads -> Seq(Frames)]
      BY <1>7, <1>13, ThenChanges DEF Delete
    <2> QED BY <1>3, <1>13, <2>1 DEF Delete, Typed
  <1>14. CASE User(t)
    <2>1. PICK k \in 1 .. N - 1 : Top(t).c = Inner(k)
      BY <1>14 DEF User, At, TopRight
    <2>2. k \in Nat /\ Inner(k) \in Contracts /\ Top(t).c[1] = k
      BY <1>2, <2>1, ContractParts DEF StepsRight
    <2>3. Outcome(k, Top(t).v) \in Values
      BY <1>2, <1>4, <2>2, OutcomeIsResult
    <2>4. Submit(Inner(k), Outcome(k, Top(t).v)) /\ Then(t, <<>>)
      BY <1>14, <2>2 DEF User
    <2>5. stack' \in [Threads -> Seq(Frames)]
      BY <1>7, <2>4, ThenChanges
    <2>6. task' \in [Contracts -> Values] /\ heap' \subseteq {"contract", "task"} \X Contracts
          /\ pool' \subseteq {"contract", "task"} \X Contracts
      BY <2>2, <2>3, <2>4 DEF Submit, Typed
    <2> QED BY <1>3, <1>14, <2>5, <2>6 DEF User, Typed
  <1>15. CASE ConstructBox(t)
    <2>1. stack' \in [Threads -> Seq(Frames)] /\ box' \in Values
      BY <1>4, <1>7, <1>15, ThenChanges DEF ConstructBox
    <2> QED BY <1>3, <1>15, <2>1 DEF ConstructBox, Typed
  <1>16. CASE Fire(t)
    <2>1. stack' \in [Threads -> Seq(Frames)]
      BY <1>7, <1>16, ThenChanges DEF Fire
    <2> QED BY <1>3, <1>16, <2>1 DEF Fire, Typed
  <1> QED BY <1>8, <1>9, <1>10, <1>11, <1>12, <1>13, <1>14, <1>15, <1>16 DEF Step

LEMMA ThreadsApart ==
  /\ Builder \in Threads /\ Promiser \in Threads /\ Builder # Promiser
  /\ Workers \subseteq Threads /\ Builder \notin Workers /\ Promiser \notin Workers /\ Nobody \notin Workers
  BY PipelineAssumption DEF Threads, Builder, Promiser

LEMMA WorkTyped ==
  ASSUME Typed, NEW w \in Workers, Work(w)
  PROVE  Typed'
  <1>1. StepsRight /\ steps' = steps /\ Idle(w) /\ w \in Threads
    BY ThreadsApart DEF Typed, Work
  <1>2. /\ StepsRight' /\ N' = N /\ Contracts' = Contracts /\ Values' = Values /\ Frames' = Frames
    BY <1>1, TypesStay
  <1>3. PICK job \in pool :
          /\ pool' = pool \ {job}
          /\ Enter(w, IF job[1] = "contract"
                        THEN <<Frame("run", job[2], Nothing)>>
                        ELSE <<SetValue(job[2], task[job[2]]), Frame("free", job[2], Nothing)>>)
          /\ ranOn' \in {ranOn, [ranOn EXCEPT ![0] = w]}
    BY DEF Work
  <1>4. job[2] \in Contracts /\ task[job[2]] \in Values /\ Nothing \in Values
    BY <1>1, ValueParts DEF Typed
  <1>5. /\ Frame("run", job[2], Nothing) \in Frames /\ Frame("free", job[2], Nothing) \in Frames
        /\ SetValue(job[2], task[job[2]]) \in Frames
    BY <1>1, <1>4, FramesAreTyped, FrameFields DEF Labels
  <1>6. /\ <<Frame("run", job[2], Nothing)>> \in Seq(Frames)
        /\ <<SetValue(job[2], task[job[2]]), Frame("free", job[2], Nothing)>> \in Seq(Frames)
    BY <1>5
  <1>7. stack' \in [Threads -> Seq(Frames)]
    BY <1>1, <1>3, <1>6, EnterChanges
  <1>8. ranOn' \in [0 .. N -> Threads \union {Nobody}] /\ pool' \subseteq {"contract", "task"} \X Contracts
    BY <1>1, <1>3 DEF Typed
  <1> QED BY <1>2, <1>7, <1>8 DEF Typed, Work

LEMMA BuildTyped ==
  ASSUME Typed, NEW P, NEW C, BuilderRight(P, C), Build \/ Set
  PROVE  Typed'
  <1>1. StepsRight /\ steps' = steps /\ Builder \in Threads /\ Promiser \in Threads
    BY ThreadsApart DEF Typed, Build, Set, MakeReady, MakeContract, MakeSubmitted, Make, Via, Combine, Terminate, Return
  <1>2. /\ StepsRight' /\ N' = N /\ Contracts' = Contracts /\ Values' = Values /\ Frames' = Frames
    BY <1>1, TypesStay
  <1>3. /\ 0 \in 0 .. N /\ 0 \in Nat /\ Outer(0) \in Contracts /\ Nothing \in Values
        /\ Outcome(0, Nothing) \in Values /\ <<>> \in Seq(Frames) /\ 1 \in 0 .. N + 1
    BY <1>1, ContractParts, ValueParts, OutcomeIsResult DEF StepsRight
  <1>4. \A c \in Contracts : <<SetValue(c, Outcome(0, Nothing))>> \in Seq(Frames)
    <2>1. \A c \in Contracts : SetValue(c, Outcome(0, Nothing)) \in Frames
      BY <1>1, <1>3, FramesAreTyped, FrameFields DEF Labels
    <2> QED BY <2>1
  <1>5. CASE MakeReady
    <2>1. stack' \in [Threads -> Seq(Frames)]
      BY <1>1, <1>3, <1>4, <1>5, EnterChanges DEF MakeReady, Make, Now
    <2> QED BY <1>2, <1>3, <1>5, <2>1 DEF MakeReady, Make, Now, Create, FutureOf, Typed
  <1>6. CASE MakeContract
    BY <1>2, <1>3, <1>6 DEF MakeContract, Make, Now, Create, FutureOf, Typed
  <1>7. CASE MakeSubmitted
    BY <1>2, <1>3, <1>7 DEF MakeSubmitted, Make, Now, Submit, FutureOf, Typed
  <1>8. ASSUME NEW k \in 1 .. N, Via(k) PROVE Typed'
    <2>1. steps[k].arg \in {"Pool", "Inline"} /\ k + 1 \in 0 .. N + 1
      BY <1>1, <1>8 DEF StepsRight, Via
    <2> QED BY <1>2, <1>8, <2>1 DEF Via, Now, FutureOf, Typed
  <1>9. ASSUME NEW k \in 1 .. N, Combine(k) \/ Terminate(k) PROVE Typed'
    <2>1. k + 1 \in 0 .. N + 1 /\ k \in 0 .. N /\ Outer(k) \in Contracts /\ built = k
      BY <1>1, <1>9, ContractParts DEF StepsRight, Combine, Terminate, Now
    <2>2. future.state \in Contracts /\ future.scheduler \in {"Inline", "Pool"}
      BY <2>1 DEF BuilderRight, Cts, Typed
    <2>3. Consume(future.state, k, ConsumesOn(k)) \in Frames
      BY <1>1, <2>1, <2>2, FramesAreTyped DEF ConsumesOn
    <2>4. <<Consume(future.state, k, ConsumesOn(k))>> \in Seq(Frames)
      BY <2>3
    <2>5. stack' \in [Threads -> Seq(Frames)]
      BY <1>1, <1>9, <2>4, EnterChanges DEF Combine, Terminate, Now
    <2> QED BY <1>2, <1>9, <2>1, <2>2, <2>5 DEF Combine, Terminate, Now, Create, PassOn, FutureOf, Typed
  <1>10. CASE Return
    BY <1>2, <1>3, <1>10 DEF Return, Typed
  <1>11. CASE Set
    <2>1. promise \in Contracts /\ Idle(Promiser)
      BY <1>11 DEF Set, BuilderRight, Cts
    <2>2. stack' \in [Threads -> Seq(Frames)]
      BY <1>1, <1>4, <1>11, <2>1, EnterChanges DEF Set
    <2> QED BY <1>2, <1>11, <2>2 DEF Set, Typed
  <1> QED BY <1>5, <1>6, <1>7, <1>8, <1>9, <1>10, <1>11 DEF Build

LEMMA NextTyped ==
  ASSUME Typed, NEW P, NEW C, NEW Q, Owned(P, C, Q), [Next]_vars
  PROVE  Typed'
  <1>1. ASSUME NEW t \in Threads, Step(t) PROVE Typed'
    <2>1. ~ Idle(t)
      BY <1>1 DEF Step, ConstructValue, Produce, SetCallback, ConsumeWord, Run, Delete, User, ConstructBox, Fire, At
    <2> QED BY <1>1, <2>1, OwnedTop, StepTyped
  <1>2. CASE UNCHANGED vars
    <2>1. steps' = steps /\ StepsRight
      BY <1>2 DEF vars, Typed
    <2>2. StepsRight' /\ N' = N /\ Contracts' = Contracts /\ Values' = Values /\ Frames' = Frames
      BY <2>1, TypesStay
    <2> QED BY <1>2, <2>2 DEF vars, Typed
  <1>3. CASE Build \/ Set
    BY SMTT(30), <1>3, BuildTyped DEF Owned
  <1> QED BY <1>1, <1>2, <1>3, WorkTyped DEF Next

-----------------------------------------------------------------------------
\* What a step leaves alone.

\* Only the frames of t above b let go of what they own.
Above(p, t, b) == p[2] = t /\ p[3] > b

Stays(S, S2, t, b) ==
    \A c \in Contracts :
        S[c][1] \in {"frame", "user", "run", "delete"} /\ ~ Above(S[c], t, b) => S2[c] = S[c]

LEMMA FramesStay ==
  ASSUME Typed, steps' = steps, NEW t \in Threads, NEW b, NEW fs \in Seq(Frames), Changes(t, b, fs),
         NEW P, NEW C, NEW Q, NEW P2, NEW C2, NEW Q2,
         FramesRight(P, C, Q), Stays(P, P2, t, b), Stays(C, C2, t, b), Stays(Q, Q2, t, b),
         \A c \in Contracts : P[c][1] = "frame" /\ value[c] # Nothing => value'[c] # Nothing,
         \A c \in Contracts : callback[c] # None => callback'[c] # None,
         \A c \in Contracts :
            P[c][1] \notin {"none", "user", "task"} => P2[c][1] \notin {"none", "user", "task"},
         \A k \in 1 .. N : P[Outer(k)][1] = "frame" /\ ~ Above(P[Outer(k)], t, b) /\ Unused(k, P, C)
                              => Unused(k, P2, C2),
         \A i \in 1 .. Len(fs) : FrameRight(fs[Len(fs) - i + 1], t, b + i, P2, C2, Q2)'
  PROVE  FramesRight(P2, C2, Q2)'
  <1>1. /\ StepsRight /\ N' = N /\ Contracts' = Contracts /\ Cts' = Cts
        /\ Consumers' = Consumers /\ Callbacks' = Callbacks
    BY TypesStay DEF Typed
  <1>2. ASSUME NEW u \in Threads, NEW d \in 1 .. Len(stack[u]), u # t \/ d <= b
        PROVE  \A g : g = Fr(stack'[u], d) => FrameRight(g, u, d, P2, C2, Q2)'
    <2> DEFINE f == Fr(stack[u], d)
    <2>1. FrameRight(f, u, d, P, C, Q)
      BY DEF FramesRight
    <2>2. PICK g : g = f
      OBVIOUS
    <2>3. FrameRight(g, u, d, P, C, Q)
      BY <2>1, <2>2
    <2>4. ~ (u = t /\ d > b)
      BY <1>2 DEF Changes
    <2>5. /\ g.at \in {"set", "produce", "attach", "consume", "run", "delete", "free"} =>
                g.c \in Cts /\ g.c \in Contracts
          /\ g.at = "user" => (\E k \in 1 .. N - 1 : g.c = Inner(k)) /\ g.c \in Contracts
          /\ g.at = "set" /\ IsFuture(g.v) => Sub(g.v) \in Contracts
          /\ g.at = "attach" => /\ g.cb[1] \in 1 .. N /\ Outer(g.cb[1]) \in Contracts
      <3>1. g \in Frames
        <4>1. stack[u] \in Seq(Frames) /\ Len(stack[u]) \in Nat
          BY DEF Typed
        <4>2. Len(stack[u]) - d + 1 \in 1 .. Len(stack[u])
          BY <4>1
        <4>3. Fr(stack[u], d) \in Frames
          BY <4>1, <4>2 DEF Fr
        <4> QED BY <2>2, <4>3
      <3>2. g.v \in Values
        BY <3>1 DEF Frames
      <3>3. IsFuture(g.v) => Sub(g.v) \in Contracts
        <4>1. IsFuture(g.v) => g.v.by[1] \in 0 .. N
          BY <1>1, <3>2, ValueParts DEF IsFuture, StepsRight
        <4> QED BY <1>1, <4>1, ContractParts DEF Sub
      <3>4. g.at = "user" => (\E k \in 1 .. N - 1 : g.c = Inner(k)) /\ g.c \in Contracts
        <4>1. \A k \in 1 .. N - 1 : k \in 0 .. N
          BY <1>1 DEF StepsRight
        <4> QED BY <1>1, <2>3, <4>1, ContractParts DEF FrameRight
      <3>5. g.at = "attach" => /\ g.cb[1] \in 1 .. N /\ Outer(g.cb[1]) \in Contracts
        <4>1. \A k \in 1 .. N : k \in 0 .. N
          BY <1>1 DEF StepsRight
        <4>2. \A k \in 1 .. N - 1 : k \in 1 .. N
          BY <1>1 DEF StepsRight
        <4> QED BY <1>1, <2>3, <4>1, <4>2, ContractParts DEF FrameRight, Callbacks, Consumers
      <3> QED BY <2>3, <3>3, <3>4, <3>5 DEF FrameRight, Cts
    <2>6. \A c \in Contracts :
             /\ P[c] \in {<<"frame", u, d>>, <<"user", u, d>>} => P2[c] = P[c] /\ ~ Above(P[c], t, b)
             /\ C[c] = <<"frame", u, d>> => C2[c] = C[c]
             /\ Q[c] \in {<<"run", u, d>>, <<"delete", u, d>>} => Q2[c] = Q[c]
      BY <2>4 DEF Stays, Above
    <2>7. g.at \in {"set", "produce"} => P2[g.c] = <<"frame", u, d>>
      BY <2>3, <2>5, <2>6 DEF FrameRight
    <2>8. g.at = "set" => g.v # Nothing /\ (IsFuture(g.v) => C2[Sub(g.v)] = <<"frame", u, d>>)
      BY <2>3, <2>5, <2>6 DEF FrameRight
    <2>9. g.at = "produce" => value'[g.c] # Nothing
      <3>1. g.at = "produce" => P[g.c][1] = "frame"
        BY <2>3 DEF FrameRight
      <3> QED BY <2>3, <2>5, <3>1 DEF FrameRight
    <2>10. g.at = "attach" => /\ g.cb \in Callbacks
                              /\ P2[Outer(g.cb[1])] = <<"frame", u, d>>
                              /\ g.cb[2] = "outer" => Unused(g.cb[1], P2, C2)
      <3> SUFFICES ASSUME g.at = "attach"
                   PROVE  /\ g.cb \in Callbacks
                          /\ P2[Outer(g.cb[1])] = <<"frame", u, d>>
                          /\ g.cb[2] = "outer" => Unused(g.cb[1], P2, C2)
        OBVIOUS
      <3>1. /\ g.cb \in Callbacks /\ P[Outer(g.cb[1])] = <<"frame", u, d>>
            /\ g.cb[2] = "outer" => Unused(g.cb[1], P, C)
        BY <2>3 DEF FrameRight
      <3>2. P2[Outer(g.cb[1])] = <<"frame", u, d>> /\ ~ Above(P[Outer(g.cb[1])], t, b)
        BY <2>5, <2>6, <3>1
      <3>3. P[Outer(g.cb[1])][1] = "frame"
        BY <3>1
      <3> QED BY <2>5, <3>1, <3>2, <3>3
    <2>11. g.at \in {"attach", "consume"} => C2[g.c] = <<"frame", u, d>>
      BY <2>3, <2>5, <2>6 DEF FrameRight
    <2>12. g.at = "consume" => callback'[g.c] # None
      BY <2>3, <2>5 DEF FrameRight
    <2>13. g.at \in {"run", "delete"} => Q2[g.c] = <<g.at, u, d>>
      BY <2>3, <2>5, <2>6 DEF FrameRight
    <2>14. g.at = "user" => P2[g.c] = <<"user", u, d>>
      BY <2>3, <2>5, <2>6 DEF FrameRight
    <2>15. g.at = "free" => P2[g.c][1] \notin {"none", "user", "task"}
      BY <2>3, <2>5 DEF FrameRight
    <2>16. g = Fr(stack'[u], d)
      BY <1>2, <2>1, <2>2 DEF Changes
    <2>17. FrameRight(g, u, d, P2, C2, Q2)'
      <3>1. Unused(g.cb[1], P2, C2)' <=> Unused(g.cb[1], P2, C2)
        BY DEF Unused, Inner
      <3>2. Sub(g.v)' = Sub(g.v) /\ Outer(g.cb[1])' = Outer(g.cb[1])
        BY DEF Sub, Inner, Outer
      <3> QED BY <1>1, <2>5, <2>7, <2>8, <2>9, <2>10, <2>11, <2>12, <2>13, <2>14, <2>15, <3>1, <3>2
              DEF FrameRight, IsFuture, Nothing, None, Inner
    <2> QED BY <2>16, <2>17
  <1>3. ASSUME NEW u \in Threads, NEW d \in 1 .. Len(stack'[u])
        PROVE  \A g : g = Fr(stack'[u], d) => FrameRight(g, u, d, P2, C2, Q2)'
    <2>1. b \in Nat /\ Len(stack[t]) \in Nat /\ Len(fs) \in Nat /\ b <= Len(stack[t]) /\ Len(stack'[t]) = b + Len(fs)
      BY DEF Changes, Typed
    <2>2. CASE u # t
      <3>1. stack'[u] = stack[u]
        BY <2>2 DEF Changes
      <3> QED BY <1>2, <2>2, <3>1
    <2>3. CASE u = t /\ d <= b
      <3>1. d \in 1 .. Len(stack[u]) /\ Fr(stack'[u], d) = Fr(stack[u], d)
        BY <2>1, <2>3 DEF Changes
      <3> QED BY <1>2, <2>3, <3>1
    <2>4. CASE u = t /\ d > b
      <3> DEFINE i == d - b
      <3>1. i \in 1 .. Len(fs) /\ d = b + i
        BY <2>1, <2>4
      <3> HIDE DEF i
      <3>2. Fr(stack'[t], b + i) = fs[Len(fs) - i + 1]
        BY <3>1 DEF Changes
      <3>3. FrameRight(fs[Len(fs) - i + 1], t, b + i, P2, C2, Q2)'
        BY <3>1
      <3> QED BY <2>4, <3>1, <3>2, <3>3
    <2> QED BY <2>1, <2>2, <2>3, <2>4
  <1> QED BY ZenonT(40), <1>3 DEF FramesRight, FrameRight

LEMMA CallbackParts ==
  ASSUME StepsRight, NEW cb \in Callbacks
  PROVE  cb[1] \in 1 .. N /\ Outer(cb[1]) \in Contracts /\ Inner(cb[1]) \in Contracts /\ cb \in Contracts
  <1>1. \A k \in 1 .. N : k \in 0 .. N
    BY DEF StepsRight
  <1>2. \A k \in 1 .. N - 1 : k \in 1 .. N
    BY DEF StepsRight
  <1> QED BY <1>1, <1>2, ContractParts DEF Callbacks, Consumers

LEMMA SubIsContract ==
  ASSUME StepsRight, NEW v \in Values, IsFuture(v)
  PROVE  Sub(v) \in Cts /\ Sub(v) = Inner(v.by[1]) /\ v.by[1] \in 1 .. N - 1
  <1>1. v.by[1] \in 1 .. N - 1
    BY ValueParts DEF IsFuture
  <1>2. v.by[1] \in 0 .. N /\ N \in 0 .. N
    BY <1>1 DEF StepsRight
  <1> QED BY <1>1, <1>2, ContractParts DEF Sub, Cts

\* What is true of a callback stays true if nothing happens to what it is to feed.
LEMMA CallbackStays ==
  ASSUME Typed, steps' = steps, NEW c \in Contracts, callback'[c] = callback[c],
         NEW P, NEW C, NEW Q, NEW P2, NEW C2, NEW Q2,
         CallbackRight(c, P, C, Q), Unrun(c, Q2) => Unrun(c, Q),
         \A x \in Contracts : P[x] = <<"callback", c, 0>> => P2[x] = P[x],
         \A k \in 1 .. N : P[Outer(k)] = <<"callback", c, 0>> /\ Unused(k, P, C) => Unused(k, P2, C2)
  PROVE  CallbackRight(c, P2, C2, Q2)'
  <1>1. /\ StepsRight /\ N' = N /\ Contracts' = Contracts /\ Callbacks' = Callbacks
    BY TypesStay DEF Typed
  <1> SUFFICES ASSUME callback[c] # None
               PROVE  /\ callback[c] \in Callbacks
                      /\ Unrun(c, Q2) =>
                            /\ P2[Outer(callback[c][1])] = <<"callback", c, 0>>
                            /\ callback[c][2] = "outer" => Unused(callback[c][1], P2, C2)
    BY <1>1 DEF CallbackRight, Unused, Unrun, Outer, Inner, None
  <1>2. callback[c] \in Callbacks
    BY DEF CallbackRight
  <1>3. callback[c][1] \in 1 .. N /\ Outer(callback[c][1]) \in Contracts
    BY <1>1, <1>2, CallbackParts
  <1>4. Unrun(c, Q2) =>
            /\ P[Outer(callback[c][1])] = <<"callback", c, 0>>
            /\ callback[c][2] = "outer" => Unused(callback[c][1], P, C)
    BY DEF CallbackRight
  <1> QED BY <1>2, <1>3, <1>4

LEMMA ValueStays ==
  ASSUME Typed, NEW c \in Contracts, value'[c] = value[c], NEW C, NEW C2, ValueRight(c, C),
         \A x \in Contracts : C[x] = <<"value", c, 0>> => C2[x] = C[x]
  PROVE  ValueRight(c, C2)'
  <1> SUFFICES ASSUME value[c] # Nothing, IsFuture(value[c]) PROVE C2[Sub(value[c])] = <<"value", c, 0>>
    BY DEF ValueRight, Nothing, IsFuture, Sub, Inner
  <1>1. Sub(value[c]) \in Contracts
    BY SubIsContract DEF Typed, Cts
  <1> QED BY <1>1 DEF ValueRight

\* A user frame stays where it is unless it is the one that returns.
LEMMA UsersStay ==
  ASSUME Typed, NEW t \in Threads, NEW b \in Nat, NEW fs \in Seq(Frames), Changes(t, b, fs),
         NEW c \in Contracts, NEW P, NEW P2, P2[c] = P[c], UserRight(c, P),
         Len(stack[t]) = b \/ (Len(stack[t]) = b + 1 /\ (Top(t).at # "user" \/ Top(t).c # c))
  PROVE  UserRight(c, P2)'
  <1> SUFFICES ASSUME P2[c][1] = "user"
               PROVE  /\ P2[c][2] \in Threads /\ P2[c][3] \in 1 .. Len(stack'[P2[c][2]])
                      /\ Fr(stack'[P2[c][2]], P2[c][3]).at = "user" /\ Fr(stack'[P2[c][2]], P2[c][3]).c = c
    BY DEF UserRight, Fr
  <1> DEFINE u == P2[c][2]
             d == P2[c][3]
  <1>1. /\ u \in Threads /\ d \in 1 .. Len(stack[u])
        /\ Fr(stack[u], d).at = "user" /\ Fr(stack[u], d).c = c
    BY DEF UserRight
  <1>2. b \in Nat /\ Len(stack[t]) \in Nat /\ Len(fs) \in Nat /\ b <= Len(stack[t]) /\ Len(stack'[t]) = b + Len(fs)
    BY DEF Changes, Typed
  <1> HIDE DEF u, d
  <1>3. CASE u # t
    <2>1. stack'[u] = stack[u]
      BY <1>1, <1>3 DEF Changes
    <2> QED BY <1>1, <2>1 DEF u, d
  <1>4. CASE u = t
    <2>1. d <= b
      <3> SUFFICES ASSUME d > b PROVE FALSE
        BY <1>1, <1>2, <1>4
      <3>1. d = Len(stack[t]) /\ (Top(t).at # "user" \/ Top(t).c # c) /\ Len(stack[t]) > 0
        BY <1>1, <1>2, <1>4
      <3>2. ~ Idle(t)
        BY <3>1 DEF Idle
      <3>3. Top(t) = Fr(stack[t], d)
        BY <3>1, <3>2, TopIsFrame
      <3> QED BY <1>1, <1>4, <3>1, <3>3
    <2>2. d \in 1 .. b /\ d \in 1 .. Len(stack'[t])
      BY <1>1, <1>2, <1>4, <2>1
    <2>3. Fr(stack'[t], d) = Fr(stack[t], d)
      BY <2>2 DEF Changes
    <2> QED BY <1>1, <1>4, <2>2, <2>3 DEF u, d
  <1> QED BY <1>3, <1>4

\* Who is consumed by the innermost call of a thread exists.
LEMMA TopFindsBorn ==
  ASSUME NEW t \in Threads, NEW b \in Nat, Len(stack[t]) = b + 1, NEW c \in Contracts,
         NEW P, NEW C, C[c] = <<"frame", t, b + 1>>, AheadRight(c, P, C), UserRight(c, P)
  PROVE  Born(c, P)
  <1> SUFFICES ASSUME ~ Born(c, P) PROVE FALSE
    OBVIOUS
  <1>1. C[c][1] = "frame" /\ C[c][2] = t /\ C[c][3] = b + 1
    OBVIOUS
  <1>2. P[c][1] = "user" /\ P[c][2] = t /\ b + 1 < P[c][3]
    BY <1>1 DEF AheadRight
  <1>3. P[c][3] \in 1 .. (b + 1)
    BY <1>2 DEF UserRight
  <1> QED BY <1>2, <1>3

\* The builder's and the promiser's part, where they do nothing.
LEMMA BuilderStays ==
  ASSUME Typed, steps' = steps, UNCHANGED <<built, future, promise>>,
         NEW P, NEW C, NEW P2, NEW C2, BuilderRight(P, C),
         NEW t \in Threads, ~ Idle(t) \/ t # Promiser, \A u \in Threads \ {t} : stack'[u] = stack[u],
         \A c \in Contracts : P[c][1] \in {"none", "promise"} /\ P2[c] # P[c] =>
            P[c][1] = "none" /\ \E k \in 1 .. N - 1 : c = Inner(k) /\ k < built,
         \A c \in Contracts : C[c][1] \in {"none", "future"} /\ C2[c] # C[c] =>
            C[c][1] = "none" /\ \E k \in 1 .. N - 1 : c = Inner(k) /\ k < built
  PROVE  BuilderRight(P2, C2)'
  <1>1. /\ StepsRight /\ N' = N /\ Contracts' = Contracts /\ Cts' = Cts
    BY TypesStay DEF Typed
  <1>2. N \in Nat /\ built \in 0 .. N + 1
    BY <1>1 DEF StepsRight, Typed
  <1>3. \A k \in built .. N : k \in 0 .. N
    BY <1>2
  <1>4. ASSUME NEW k \in built .. N
        PROVE  P2[Outer(k)][1] = "none" /\ C2[Outer(k)][1] = "none" /\ Unused(k, P2, C2)
    <2>1. P[Outer(k)][1] = "none" /\ C[Outer(k)][1] = "none" /\ Unused(k, P, C)
      BY DEF BuilderRight
    <2>2. Outer(k) \in Contracts /\ Inner(k) \in Contracts
      BY <1>1, <1>3, ContractParts
    <2>3. \A j \in 1 .. N - 1 : Outer(k) # Inner(j) /\ (Inner(k) = Inner(j) => k = j)
      BY <1>1, ContractParts
    <2>4. P2[Outer(k)] = P[Outer(k)] /\ C2[Outer(k)] = C[Outer(k)]
      BY <2>1, <2>2, <2>3
    <2>5. ~ (k < built)
      BY <1>2
    <2>6. P2[Inner(k)] = P[Inner(k)] /\ C2[Inner(k)] = C[Inner(k)]
      BY <2>1, <2>2, <2>3, <2>5 DEF Unused
    <2> QED BY <2>1, <2>4, <2>6 DEF Unused
  <1>5. promise # None => promise \in Cts /\ P2[promise][1] = "promise"
    BY DEF BuilderRight, Cts
  <1>6. future.state # None => future.state \in Cts /\ C2[future.state][1] = "future"
    BY DEF BuilderRight, Cts
  <1>7. \A k \in built' .. N' : Unused(k, P2, C2)' <=> Unused(k, P2, C2)
    BY DEF Unused, Inner
  <1>8. \A k \in built' .. N' : (P2[Outer(k)][1])' = P2[Outer(k)][1] /\ (C2[Outer(k)][1])' = C2[Outer(k)][1]
    BY DEF Outer
  <1>9. None' = None
    BY DEF None
  <1>10. promise' # None \/ built' = 0 => Idle(Promiser)'
    <2>1. Promiser' = Promiser
      BY DEF Promiser
    <2>2. promise # None \/ built = 0 => stack'[Promiser] = stack[Promiser]
      BY ThreadsApart DEF BuilderRight
    <2> QED BY <2>1, <2>2, <1>9 DEF BuilderRight, Idle
  <1> QED BY <1>1, <1>4, <1>5, <1>6, <1>7, <1>8, <1>9, <1>10 DEF BuilderRight, Outer

-----------------------------------------------------------------------------
\* The innermost call of a thread, and those that take its place.

Calling(t, f, b, P, C, Q) ==
    /\ ~ Idle(t) /\ f = Top(t) /\ b \in Nat /\ Len(stack[t]) = b + 1
    /\ f.at \in Labels /\ f.v \in Values
    /\ FrameRight(f, t, b + 1, P, C, Q)
    /\ f.at \in {"set", "produce", "attach", "consume", "run", "delete", "free"} => f.c \in Contracts
    /\ f.at = "set" /\ IsFuture(f.v) => Sub(f.v) \in Contracts
    /\ f.at = "attach" => f.cb[1] \in 1 .. N /\ Outer(f.cb[1]) \in Contracts

LEMMA IsCalling ==
  ASSUME Typed, NEW P, NEW C, NEW Q, Owned(P, C, Q), NEW t \in Threads, ~ Idle(t)
  PROVE  \E f, b : Calling(t, f, b, P, C, Q)
  <1>1. PICK f, b : f = Top(t) /\ b = Len(stack[t]) - 1
    OBVIOUS
  <1>2. b \in Nat /\ Len(stack[t]) = b + 1 /\ f.at \in Labels /\ f.v \in Values
    BY <1>1, TopIsFrame DEF Frames
  <1>3. FrameRight(f, t, b + 1, P, C, Q)
    BY <1>1, <1>2, OwnedTop
  <1>4. IsFuture(f.v) => Sub(f.v) \in Contracts
    BY <1>2, SubIsContract DEF Typed, Cts
  <1>5. f.at = "attach" => f.cb[1] \in 1 .. N /\ Outer(f.cb[1]) \in Contracts
    BY <1>3, CallbackParts DEF Typed, FrameRight
  <1>6. f.at \in {"set", "produce", "attach", "consume", "run", "delete", "free"} => f.c \in Contracts
    BY <1>3 DEF FrameRight, Cts
  <1> QED BY <1>1, <1>2, <1>3, <1>4, <1>5, <1>6 DEF Calling

LEMMA ThenFrames ==
  ASSUME Typed, NEW t \in Threads, ~ Idle(t), NEW b \in Nat, Len(stack[t]) = b + 1,
         NEW fs \in Seq(Frames), Then(t, fs)
  PROVE  Changes(t, b, fs)
  <1>1. Len(stack[t]) - 1 = b
    OBVIOUS
  <1>2. Changes(t, Len(stack[t]) - 1, fs)
    BY ThenChanges
  <1> QED BY <1>1, <1>2

LEMMA OneFrame ==
  ASSUME NEW t, NEW b \in Nat, NEW f, NEW P, NEW C, NEW Q, FrameRight(f, t, b + 1, P, C, Q)'
  PROVE  \A i \in 1 .. Len(<<f>>) : FrameRight(<<f>>[Len(<<f>>) - i + 1], t, b + i, P, C, Q)'
  <1> SUFFICES ASSUME NEW i \in 1 .. Len(<<f>>)
               PROVE  FrameRight(<<f>>[Len(<<f>>) - i + 1], t, b + i, P, C, Q)'
    OBVIOUS
  <1>1. i = 1 /\ <<f>>[Len(<<f>>) - i + 1] = f
    OBVIOUS
  <1> QED BY <1>1

LEMMA TwoFrames ==
  ASSUME NEW t, NEW b \in Nat, NEW f, NEW g, NEW P, NEW C, NEW Q,
         FrameRight(f, t, b + 2, P, C, Q)', FrameRight(g, t, b + 1, P, C, Q)'
  PROVE  \A i \in 1 .. Len(<<f, g>>) : FrameRight(<<f, g>>[Len(<<f, g>>) - i + 1], t, b + i, P, C, Q)'
  <1> SUFFICES ASSUME NEW i \in 1 .. Len(<<f, g>>)
               PROVE  FrameRight(<<f, g>>[Len(<<f, g>>) - i + 1], t, b + i, P, C, Q)'
    OBVIOUS
  <1>1. \/ i = 1 /\ <<f, g>>[Len(<<f, g>>) - i + 1] = g
        \/ i = 2 /\ <<f, g>>[Len(<<f, g>>) - i + 1] = f
    OBVIOUS
  <1> QED BY <1>1

LEMMA ThreeFrames ==
  ASSUME NEW t, NEW b \in Nat, NEW f, NEW g, NEW h, NEW P, NEW C, NEW Q,
         FrameRight(f, t, b + 3, P, C, Q)', FrameRight(g, t, b + 2, P, C, Q)',
         FrameRight(h, t, b + 1, P, C, Q)'
  PROVE  \A i \in 1 .. Len(<<f, g, h>>) :
            FrameRight(<<f, g, h>>[Len(<<f, g, h>>) - i + 1], t, b + i, P, C, Q)'
  <1> SUFFICES ASSUME NEW i \in 1 .. Len(<<f, g, h>>)
               PROVE  FrameRight(<<f, g, h>>[Len(<<f, g, h>>) - i + 1], t, b + i, P, C, Q)'
    OBVIOUS
  <1>1. \/ i = 1 /\ <<f, g, h>>[Len(<<f, g, h>>) - i + 1] = h
        \/ i = 2 /\ <<f, g, h>>[Len(<<f, g, h>>) - i + 1] = g
        \/ i = 3 /\ <<f, g, h>>[Len(<<f, g, h>>) - i + 1] = f
    OBVIOUS
  <1> QED BY <1>1

LEMMA ConstructValueOwned ==
  ASSUME Typed, Typed', NEW t \in Threads, NEW P, NEW C, NEW Q, Owned(P, C, Q), ConstructValue(t)
  PROVE  \E P2, C2, Q2 : Owned(P2, C2, Q2)'
  <1>1. PICK f, b : Calling(t, f, b, P, C, Q)
    BY IsCalling DEF ConstructValue, At
  <1>2. PICK c, v, g : c = f.c /\ v = f.v /\ g = Frame("produce", c, Nothing)
    OBVIOUS
  <1>3. /\ c \in Contracts /\ c \in Cts /\ P[c] = <<"frame", t, b + 1>> /\ v \in Values /\ v # Nothing
        /\ IsFuture(v) => Sub(v) \in Contracts /\ C[Sub(v)] = <<"frame", t, b + 1>>
        /\ b \in Nat /\ Len(stack[t]) = b + 1 /\ ~ Idle(t) /\ Top(t).at = "set"
    BY <1>1, <1>2 DEF Calling, FrameRight, ConstructValue, At
  <1>4. g.at = "produce" /\ g.c = c
    BY <1>2, FrameFields
  <1>5. /\ StepsRight /\ steps' = steps /\ N' = N /\ Contracts' = Contracts /\ Cts' = Cts
        /\ Callbacks' = Callbacks
    BY TypesStay DEF Typed, ConstructValue
  <1>6. Changes(t, b, <<g>>) /\ <<g>> \in Seq(Frames)
    <2>1. g \in Frames
      BY <1>2, <1>3, <1>5, FramesAreTyped, ValueParts DEF Labels
    <2>2. Then(t, <<g>>)
      BY <1>1, <1>2 DEF ConstructValue, Calling, Then
    <2>3. <<g>> \in Seq(Frames)
      BY <2>1
    <2> QED BY <1>3, <2>2, <2>3, ThenFrames
  <1>7. /\ value' = [value EXCEPT ![c] = v]
        /\ UNCHANGED <<built, future, promise, heap, word, callback, task, pool>>
    BY <1>1, <1>2 DEF ConstructValue, Calling
  <1>8. value'[c] = v /\ \A x \in Contracts \ {c} : value'[x] = value[x]
    BY <1>3, <1>7 DEF Typed
  <1>9. PICK C2 : C2 = [x \in Contracts |-> IF IsFuture(v) /\ x = Sub(v) THEN <<"value", c, 0>> ELSE C[x]]
    OBVIOUS
  <1>10. /\ \A x \in Contracts : C2[x] = C[x] \/ (C[x] = <<"frame", t, b + 1>> /\ C2[x] = <<"value", c, 0>>)
         /\ IsFuture(v) => C2[Sub(v)] = <<"value", c, 0>>
    BY <1>3, <1>9
  <1>11. Stays(P, P, t, b) /\ Stays(C, C2, t, b) /\ Stays(Q, Q, t, b)
    BY <1>3, <1>10 DEF Stays, Above
  <1>12. \A k \in 1 .. N : Unused(k, P, C) => Unused(k, P, C2)
    <2>1. \A k \in 1 .. N : Inner(k) \in Contracts
      BY <1>5, ContractParts DEF StepsRight
    <2> QED BY <1>10, <2>1 DEF Unused
  <1>13. FramesRight(P, C2, Q)'
    <2>1. FrameRight(g, t, b + 1, P, C2, Q)'
      BY <1>3, <1>4, <1>5, <1>8 DEF FrameRight, Nothing
    <2>2. \A i \in 1 .. Len(<<g>>) : FrameRight(<<g>>[Len(<<g>>) - i + 1], t, b + i, P, C2, Q)'
      BY <1>3, <2>1, OneFrame
    <2> QED BY <1>3, <1>5, <1>6, <1>7, <1>8, <1>11, <1>12, <2>2, FramesStay DEF Owned
  <1>14. \A x \in Contracts : ContractRight(x, P, C, Q)
    BY DEF Owned
  <1>15. ASSUME NEW x \in Contracts PROVE ContractRight(x, P, C2, Q)'
    <2>1. CallbackRight(x, P, C2, Q)'
      BY <1>5, <1>7, <1>12, <1>14, CallbackStays DEF ContractRight
    <2>2. PoolRight(x, P, Q)'
      BY <1>5, <1>7, <1>14 DEF ContractRight, PoolRight, Nothing, IsFuture
    <2>3. WordRight(x, P, C2, Q)'
      BY <1>3, <1>7, <1>8, <1>10, <1>14 DEF ContractRight, WordRight, Unrun, Nothing, None
    <2>4. ValueRight(x, C2)'
      <3>1. CASE x = c
        BY <1>8, <1>10, <3>1 DEF ValueRight, IsFuture, Nothing, Sub, Inner
      <3>2. CASE x # c
        BY <1>8, <1>10, <1>14, <3>2, ValueStays DEF ContractRight
      <3> QED BY <3>1, <3>2
    <2>5. HeapRight(x, P, Q)'
      BY <1>5, <1>7, <1>14 DEF ContractRight, HeapRight, Born
    <2>6. AheadRight(x, P, C2)'
      <3>1. C[x] = <<"frame", t, b + 1>> => Born(x, P)
        BY <1>3, <1>14, TopFindsBorn DEF ContractRight
      <3> QED BY <1>10, <1>14, <3>1 DEF ContractRight, AheadRight, Born
    <2>7. UserRight(x, P)'
      BY <1>3, <1>6, <1>14, UsersStay DEF ContractRight
    <2> QED BY <2>1, <2>2, <2>3, <2>4, <2>5, <2>6, <2>7 DEF ContractRight
  <1>16. BuilderRight(P, C2)'
    BY <1>3, <1>5, <1>6, <1>7, <1>10, BuilderStays DEF Owned, Changes
  <1>17. Owned(P, C2, Q)'
    BY <1>5, <1>13, <1>15, <1>16 DEF Owned
  <1> QED BY <1>17

\* A party that meets the other one submits the contract: it is from now on that of
\* the pool, or of the thread itself.
Met(t, b, c, me, Q, Q2, fs) ==
    /\ fs \in Seq(Frames) /\ Changes(t, b, fs)
    /\ fs = <<>> \/ (\E g : fs = <<g>> /\ g.at = "run" /\ g.c = c /\ Q2[c] = <<"run", t, b + 1>>)
    /\ \A x \in Contracts : x # c => Q2[x] = Q[x]
    /\ \A x \in Contracts : x # c => word'[x] = word[x]
    /\ word'[c] = word[c] \union {me}
    /\ Q[c][1] = "no" /\ Q2[c][1] \in {"no", "pool", "run"}
    /\ Q2[c][1] # "no" <=> word'[c] = {"Produced", "Consumed"}
    /\ \A x \in Contracts : <<"task", x>> \in pool' <=> <<"task", x>> \in pool
    /\ \A x \in Contracts :
          <<"contract", x>> \in pool' => <<"contract", x>> \in pool \/ (x = c /\ Q2[c][1] = "pool")

LEMMA MeetRuns ==
  ASSUME Typed, NEW t \in Threads, ~ Idle(t), NEW b \in Nat, Len(stack[t]) = b + 1,
         NEW c \in Contracts, c = Top(t).c, NEW Q, Q[c][1] # "no" <=> word[c] = {"Produced", "Consumed"},
         NEW me, NEW other, me \notin word[c], {me, other} = {"Produced", "Consumed"}, Meet(t, me, other)
  PROVE  \E Q2, fs : Met(t, b, c, me, Q, Q2, fs)
  <1>1. word \in [Contracts -> SUBSET {"Produced", "Consumed"}] /\ StepsRight
    BY DEF Typed
  <1>2. word'[c] = word[c] \union {me} /\ \A x \in Contracts : x # c => word'[x] = word[x]
    BY <1>1 DEF Meet
  <1>3. Q[c][1] = "no"
    BY <1>1
  <1>4. PICK g : g = Frame("run", c, Nothing)
    OBVIOUS
  <1>5. g \in Frames /\ g.at = "run" /\ g.c = c
    BY <1>1, <1>4, FramesAreTyped, FrameFields, ValueParts DEF Labels
  <1>6. <<g>> \in Seq(Frames) /\ <<>> \in Seq(Frames)
    BY <1>5
  <1>7. CASE ~ Meets(word[c], other)
    <2>1. Then(t, <<>>) /\ pool' = pool
      BY <1>7 DEF Meet
    <2>2. Changes(t, b, <<>>)
      BY <1>6, <2>1, ThenFrames
    <2>3. word'[c] # {"Produced", "Consumed"}
      BY <1>1, <1>2, <1>7 DEF Meets
    <2>4. Q[c][1] # "no" <=> word'[c] = {"Produced", "Consumed"}
      BY <1>3, <2>3
    <2> QED BY <1>2, <1>3, <1>6, <2>1, <2>2, <2>4 DEF Met
  <1>8. CASE Meets(word[c], other)
    <2>1. word'[c] = {"Produced", "Consumed"}
      BY <1>2, <1>8 DEF Meets
    <2>2. SubmitContract(t, c)
      BY <1>8 DEF Meet
    <2>3. CASE scheduler[c] = "Inline"
      <3>1. Then(t, <<g>>) /\ pool' = pool
        BY <1>4, <2>2, <2>3 DEF SubmitContract, SubmitInline
      <3>2. Changes(t, b, <<g>>)
        BY <1>6, <3>1, ThenFrames
      <3>3. PICK Q2 : Q2 = [x \in Contracts |-> IF x = c THEN <<"run", t, b + 1>> ELSE Q[x]]
        OBVIOUS
      <3>4. Q2[c] = <<"run", t, b + 1>> /\ Q2[c][1] = "run" /\ \A x \in Contracts : x # c => Q2[x] = Q[x]
        BY <3>3
      <3> QED BY <1>2, <1>3, <1>5, <1>6, <2>1, <3>1, <3>2, <3>4 DEF Met
    <2>4. CASE scheduler[c] # "Inline"
      <3>1. Then(t, <<>>) /\ pool' = pool \union {<<"contract", c>>}
        BY <2>2, <2>4 DEF SubmitContract, SubmitToPool
      <3>2. Changes(t, b, <<>>)
        BY <1>6, <3>1, ThenFrames
      <3>3. PICK Q2 : Q2 = [x \in Contracts |-> IF x = c THEN <<"pool", c, 0>> ELSE Q[x]]
        OBVIOUS
      <3>4. Q2[c][1] = "pool" /\ \A x \in Contracts : x # c => Q2[x] = Q[x]
        BY <3>3
      <3>5. /\ \A x \in Contracts : <<"task", x>> \in pool' <=> <<"task", x>> \in pool
            /\ \A x \in Contracts :
                  <<"contract", x>> \in pool' => <<"contract", x>> \in pool \/ (x = c /\ Q2[c][1] = "pool")
        BY <3>1, <3>4
      <3> QED BY <1>2, <1>3, <1>6, <2>1, <3>2, <3>4, <3>5 DEF Met
    <2> QED BY <2>3, <2>4
  <1> QED BY <1>7, <1>8

LEMMA ProduceOwned ==
  ASSUME Typed, Typed', NEW t \in Threads, NEW P, NEW C, NEW Q, Owned(P, C, Q), Produce(t)
  PROVE  \E P2, C2, Q2 : Owned(P2, C2, Q2)'
  <1>1. PICK f, b : Calling(t, f, b, P, C, Q)
    BY IsCalling DEF Produce, At
  <1>2. PICK c : c = f.c
    OBVIOUS
  <1>3. /\ c \in Contracts /\ c \in Cts /\ P[c] = <<"frame", t, b + 1>> /\ value[c] # Nothing
        /\ b \in Nat /\ Len(stack[t]) = b + 1 /\ ~ Idle(t) /\ Top(t).at = "produce" /\ c = Top(t).c
    BY <1>1, <1>2 DEF Calling, FrameRight, Produce, At
  <1>4. /\ StepsRight /\ steps' = steps /\ N' = N /\ Contracts' = Contracts /\ Cts' = Cts
        /\ Callbacks' = Callbacks
    BY TypesStay DEF Typed, Produce
  <1>5. \A x \in Contracts : ContractRight(x, P, C, Q)
    BY DEF Owned
  <1>6. "Produced" \notin word[c] /\ (Q[c][1] # "no" <=> word[c] = {"Produced", "Consumed"})
    BY <1>3, <1>5 DEF ContractRight, WordRight
  <1>7. Meet(t, "Produced", "Consumed") /\ UNCHANGED <<built, future, promise, heap, value, callback, task>>
    BY DEF Produce
  <1>8. PICK Q2, fs : Met(t, b, c, "Produced", Q, Q2, fs)
    <2>1. {"Produced", "Consumed"} = {"Produced", "Consumed"}
      OBVIOUS
    <2> QED BY <1>3, <1>6, <1>7, <2>1, MeetRuns
  <1> USE DEF Met
  <1>9. PICK P2 : P2 = [x \in Contracts |-> IF x = c THEN <<"done", c, 0>> ELSE P[x]]
    OBVIOUS
  <1>10. P2[c][1] = "done" /\ \A x \in Contracts : x # c => P2[x] = P[x]
    BY <1>3, <1>9
  <1>11. Stays(P, P2, t, b) /\ Stays(C, C, t, b) /\ Stays(Q, Q2, t, b)
    BY <1>3, <1>8, <1>10 DEF Stays, Above
  <1>12. \A k \in 1 .. N : Unused(k, P, C) => Unused(k, P2, C)
    <2>1. \A k \in 1 .. N : Inner(k) \in Contracts
      BY <1>4, ContractParts DEF StepsRight
    <2> QED BY <1>3, <1>10, <2>1 DEF Unused
  <1>13. FramesRight(P2, C, Q2)'
    <2>1. \A g : g.at = "run" /\ g.c = c /\ Q2[c] = <<"run", t, b + 1>> => FrameRight(g, t, b + 1, P2, C, Q2)'
      BY <1>3, <1>4 DEF FrameRight
    <2>2. \A i \in 1 .. Len(fs) : FrameRight(fs[Len(fs) - i + 1], t, b + i, P2, C, Q2)'
      <3>1. CASE fs = <<>>
        BY <3>1
      <3>2. ASSUME NEW g, fs = <<g>>, g.at = "run", g.c = c, Q2[c] = <<"run", t, b + 1>>
            PROVE  \A i \in 1 .. Len(fs) : FrameRight(fs[Len(fs) - i + 1], t, b + i, P2, C, Q2)'
        BY <1>3, <2>1, <3>2, OneFrame
      <3> QED BY <1>8, <3>1, <3>2
    <2>3. \A x \in Contracts :
             P[x][1] \notin {"none", "user", "task"} => P2[x][1] \notin {"none", "user", "task"}
      BY <1>10
    <2> QED BY <1>3, <1>4, <1>7, <1>8, <1>11, <1>12, <2>2, <2>3, FramesStay DEF Owned
  <1>14. ASSUME NEW x \in Contracts PROVE ContractRight(x, P2, C, Q2)'
    <2>1. CallbackRight(x, P2, C, Q2)'
      BY <1>3, <1>4, <1>5, <1>7, <1>8, <1>10, <1>12, CallbackStays DEF ContractRight, Unrun
    <2>2. PoolRight(x, P2, Q2)'
      BY <1>3, <1>4, <1>5, <1>7, <1>8, <1>10 DEF ContractRight, PoolRight, Nothing, IsFuture
    <2>3. WordRight(x, P2, C, Q2)'
      BY <1>3, <1>5, <1>7, <1>8, <1>10 DEF ContractRight, WordRight, Unrun, Nothing, None
    <2>4. ValueRight(x, C)'
      BY <1>5, <1>7, ValueStays DEF ContractRight
    <2>5. HeapRight(x, P2, Q2)'
      BY <1>3, <1>4, <1>5, <1>7, <1>8, <1>10 DEF ContractRight, HeapRight, Born
    <2>6. AheadRight(x, P2, C)'
      BY <1>5, <1>10 DEF ContractRight, AheadRight, Born
    <2>7. UserRight(x, P2)'
      <3>1. CASE x = c
        BY <1>10, <3>1 DEF UserRight
      <3>2. CASE x # c
        BY <1>3, <1>5, <1>8, <1>10, <3>2, UsersStay DEF ContractRight
      <3> QED BY <3>1, <3>2
    <2> QED BY <2>1, <2>2, <2>3, <2>4, <2>5, <2>6, <2>7 DEF ContractRight
  <1>15. BuilderRight(P2, C)'
    BY <1>3, <1>4, <1>7, <1>8, <1>10, BuilderStays DEF Owned, Changes
  <1>16. Owned(P2, C, Q2)'
    BY <1>4, <1>13, <1>14, <1>15 DEF Owned
  <1> QED BY <1>16

LEMMA ConsumeOwned ==
  ASSUME Typed, Typed', NEW t \in Threads, NEW P, NEW C, NEW Q, Owned(P, C, Q), ConsumeWord(t)
  PROVE  \E P2, C2, Q2 : Owned(P2, C2, Q2)'
  <1>1. PICK f, b : Calling(t, f, b, P, C, Q)
    BY IsCalling DEF ConsumeWord, At
  <1>2. PICK c : c = f.c
    OBVIOUS
  <1>3. /\ c \in Contracts /\ c \in Cts /\ C[c] = <<"frame", t, b + 1>> /\ callback[c] # None
        /\ b \in Nat /\ Len(stack[t]) = b + 1 /\ ~ Idle(t) /\ Top(t).at = "consume" /\ c = Top(t).c
    BY <1>1, <1>2 DEF Calling, FrameRight, ConsumeWord, At
  <1>4. /\ StepsRight /\ steps' = steps /\ N' = N /\ Contracts' = Contracts /\ Cts' = Cts
        /\ Callbacks' = Callbacks
    BY TypesStay DEF Typed, ConsumeWord
  <1>5. \A x \in Contracts : ContractRight(x, P, C, Q)
    BY DEF Owned
  <1>6. "Consumed" \notin word[c] /\ (Q[c][1] # "no" <=> word[c] = {"Produced", "Consumed"})
    BY <1>3, <1>5 DEF ContractRight, WordRight
  <1>7. Meet(t, "Consumed", "Produced") /\ UNCHANGED <<built, future, promise, heap, value, callback, task>>
    BY DEF ConsumeWord
  <1>8. PICK Q2, fs : Met(t, b, c, "Consumed", Q, Q2, fs)
    <2>1. {"Consumed", "Produced"} = {"Produced", "Consumed"}
      OBVIOUS
    <2> QED BY <1>3, <1>6, <1>7, <2>1, MeetRuns
  <1> USE DEF Met
  <1>9. PICK C2 : C2 = [x \in Contracts |-> IF x = c THEN <<"done", c, 0>> ELSE C[x]]
    OBVIOUS
  <1>10. C2[c][1] = "done" /\ \A x \in Contracts : x # c => C2[x] = C[x]
    BY <1>3, <1>9
  <1>11. Stays(P, P, t, b) /\ Stays(C, C2, t, b) /\ Stays(Q, Q2, t, b)
    BY <1>3, <1>8, <1>10 DEF Stays, Above
  <1>12. \A k \in 1 .. N : Unused(k, P, C) => Unused(k, P, C2)
    <2>1. \A k \in 1 .. N : Inner(k) \in Contracts
      BY <1>4, ContractParts DEF StepsRight
    <2> QED BY <1>3, <1>10, <2>1 DEF Unused
  <1>13. FramesRight(P, C2, Q2)'
    <2>1. \A g : g.at = "run" /\ g.c = c /\ Q2[c] = <<"run", t, b + 1>> => FrameRight(g, t, b + 1, P, C2, Q2)'
      BY <1>3, <1>4 DEF FrameRight
    <2>2. \A i \in 1 .. Len(fs) : FrameRight(fs[Len(fs) - i + 1], t, b + i, P, C2, Q2)'
      <3>1. CASE fs = <<>>
        BY <3>1
      <3>2. ASSUME NEW g, fs = <<g>>, g.at = "run", g.c = c, Q2[c] = <<"run", t, b + 1>>
            PROVE  \A i \in 1 .. Len(fs) : FrameRight(fs[Len(fs) - i + 1], t, b + i, P, C2, Q2)'
        BY <1>3, <2>1, <3>2, OneFrame
      <3> QED BY <1>8, <3>1, <3>2
    <2> QED BY <1>3, <1>4, <1>7, <1>8, <1>11, <1>12, <2>2, FramesStay DEF Owned
  <1>14. ASSUME NEW x \in Contracts PROVE ContractRight(x, P, C2, Q2)'
    <2>1. CallbackRight(x, P, C2, Q2)'
      BY <1>3, <1>4, <1>5, <1>7, <1>8, <1>12, CallbackStays DEF ContractRight, Unrun
    <2>2. PoolRight(x, P, Q2)'
      BY <1>3, <1>4, <1>5, <1>7, <1>8 DEF ContractRight, PoolRight, Nothing, IsFuture
    <2>3. WordRight(x, P, C2, Q2)'
      BY <1>3, <1>5, <1>7, <1>8, <1>10 DEF ContractRight, WordRight, Unrun, Nothing, None
    <2>4. ValueRight(x, C2)'
      BY <1>3, <1>5, <1>7, <1>10, ValueStays DEF ContractRight
    <2>5. HeapRight(x, P, Q2)'
      BY <1>3, <1>4, <1>5, <1>7, <1>8 DEF ContractRight, HeapRight, Born
    <2>6. AheadRight(x, P, C2)'
      <3>1. Born(c, P)
        BY <1>3, <1>5, TopFindsBorn DEF ContractRight
      <3> QED BY <1>5, <1>10, <3>1 DEF ContractRight, AheadRight, Born
    <2>7. UserRight(x, P)'
      BY <1>3, <1>5, <1>8, UsersStay DEF ContractRight
    <2> QED BY <2>1, <2>2, <2>3, <2>4, <2>5, <2>6, <2>7 DEF ContractRight
  <1>15. BuilderRight(P, C2)'
    BY <1>3, <1>4, <1>7, <1>8, <1>10, BuilderStays DEF Owned, Changes
  <1>16. Owned(P, C2, Q2)'
    BY <1>4, <1>13, <1>14, <1>15 DEF Owned
  <1> QED BY <1>16

LEMMA SetCallbackOwned ==
  ASSUME Typed, Typed', NEW t \in Threads, NEW P, NEW C, NEW Q, Owned(P, C, Q), SetCallback(t)
  PROVE  \E P2, C2, Q2 : Owned(P2, C2, Q2)'
  <1>1. PICK f, b : Calling(t, f, b, P, C, Q)
    BY IsCalling DEF SetCallback, At
  <1>2. PICK c, cb, k, g : c = f.c /\ cb = f.cb /\ k = f.cb[1] /\ g = Frame("consume", c, Nothing)
    OBVIOUS
  <1>3. /\ c \in Contracts /\ c \in Cts /\ C[c] = <<"frame", t, b + 1>>
        /\ cb \in Callbacks /\ k = cb[1] /\ k \in 1 .. N /\ Outer(k) \in Contracts
        /\ P[Outer(k)] = <<"frame", t, b + 1>> /\ (cb[2] = "outer" => Unused(k, P, C))
        /\ b \in Nat /\ Len(stack[t]) = b + 1 /\ ~ Idle(t) /\ Top(t).at = "attach"
    BY <1>1, <1>2 DEF Calling, FrameRight, SetCallback, At
  <1>4. /\ StepsRight /\ steps' = steps /\ N' = N /\ Contracts' = Contracts /\ Cts' = Cts
        /\ Callbacks' = Callbacks
    BY TypesStay DEF Typed, SetCallback
  <1>5. g.at = "consume" /\ g.c = c /\ cb # None
    <2>1. cb # None
      BY <1>3, <1>4, CallbackParts, ContractParts
    <2> QED BY <1>2, <2>1, FrameFields
  <1>6. Changes(t, b, <<g>>) /\ <<g>> \in Seq(Frames)
    <2>1. g \in Frames
      BY <1>2, <1>3, <1>4, FramesAreTyped, ValueParts DEF Labels
    <2>2. Then(t, <<g>>)
      BY <1>1, <1>2 DEF SetCallback, Calling, Then
    <2>3. <<g>> \in Seq(Frames)
      BY <2>1
    <2> QED BY <1>3, <2>2, <2>3, ThenFrames
  <1>7. /\ callback' = [callback EXCEPT ![c] = cb]
        /\ UNCHANGED <<built, future, promise, heap, word, value, task, pool>>
    BY <1>1, <1>2 DEF SetCallback, Calling
  <1>8. callback'[c] = cb /\ \A x \in Contracts : x # c => callback'[x] = callback[x]
    BY <1>3, <1>7 DEF Typed
  <1>9. PICK P2 : P2 = [x \in Contracts |-> IF x = Outer(k) THEN <<"callback", c, 0>> ELSE P[x]]
    OBVIOUS
  <1>10. P2[Outer(k)] = <<"callback", c, 0>> /\ \A x \in Contracts : x # Outer(k) => P2[x] = P[x]
    BY <1>3, <1>9
  <1>11. Stays(P, P2, t, b) /\ Stays(C, C, t, b) /\ Stays(Q, Q, t, b)
    BY <1>3, <1>10 DEF Stays, Above
  <1>12. \A j \in 1 .. N : Unused(j, P, C) => Unused(j, P2, C)
    <2>1. \A j \in 1 .. N : Inner(j) \in Contracts /\ Inner(j) # Outer(k)
      BY <1>4, ContractParts DEF StepsRight
    <2> QED BY <1>10, <2>1 DEF Unused
  <1>13. \A x \in Contracts : ContractRight(x, P, C, Q)
    BY DEF Owned
  <1>14. FramesRight(P2, C, Q)'
    <2>1. FrameRight(g, t, b + 1, P2, C, Q)'
      BY <1>3, <1>4, <1>5, <1>8 DEF FrameRight, None
    <2>2. \A i \in 1 .. Len(<<g>>) : FrameRight(<<g>>[Len(<<g>>) - i + 1], t, b + i, P2, C, Q)'
      BY <1>3, <2>1, OneFrame
    <2>3. \A x \in Contracts :
             P[x][1] \notin {"none", "user", "task"} => P2[x][1] \notin {"none", "user", "task"}
      BY <1>10
    <2> QED BY <1>3, <1>4, <1>5, <1>6, <1>7, <1>8, <1>11, <1>12, <2>2, <2>3, FramesStay DEF Owned
  <1>15. ASSUME NEW x \in Contracts PROVE ContractRight(x, P2, C, Q)'
    <2>1. CallbackRight(x, P2, C, Q)'
      <3>1. CASE x = c
        <4>1. cb[2] = "outer" => Unused(k, P2, C)
          BY <1>3, <1>12
        <4> QED BY <1>3, <1>4, <1>8, <1>10, <3>1, <4>1 DEF CallbackRight, Unused, Outer, Inner
      <3>2. CASE x # c
        BY <1>3, <1>4, <1>8, <1>10, <1>12, <1>13, <3>2, CallbackStays DEF ContractRight
      <3> QED BY <3>1, <3>2
    <2>2. PoolRight(x, P2, Q)'
      BY <1>3, <1>4, <1>7, <1>10, <1>13 DEF ContractRight, PoolRight, Nothing, IsFuture
    <2>3. WordRight(x, P2, C, Q)'
      BY <1>3, <1>5, <1>7, <1>8, <1>10, <1>13 DEF ContractRight, WordRight, Unrun, Nothing, None
    <2>4. ValueRight(x, C)'
      BY <1>7, <1>13, ValueStays DEF ContractRight
    <2>5. HeapRight(x, P2, Q)'
      BY <1>3, <1>4, <1>7, <1>10, <1>13 DEF ContractRight, HeapRight, Born
    <2>6. AheadRight(x, P2, C)'
      BY <1>10, <1>13 DEF ContractRight, AheadRight, Born
    <2>7. UserRight(x, P2)'
      <3>1. CASE x = Outer(k)
        BY <1>10, <3>1 DEF UserRight
      <3>2. CASE x # Outer(k)
        BY <1>3, <1>6, <1>10, <1>13, <3>2, UsersStay DEF ContractRight
      <3> QED BY <3>1, <3>2
    <2> QED BY <2>1, <2>2, <2>3, <2>4, <2>5, <2>6, <2>7 DEF ContractRight
  <1>16. BuilderRight(P2, C)'
    BY <1>3, <1>4, <1>6, <1>7, <1>10, BuilderStays DEF Owned, Changes
  <1>17. Owned(P2, C, Q)'
    BY <1>4, <1>14, <1>15, <1>16 DEF Owned
  <1> QED BY <1>17

\* What Run does to the owners: the contract is on its way out; what its callback
\* is to feed, and the future that was its value, are now those of the frame
\* above; the user's function may have been called.
RunMoves(t, b, c, k, P, C, Q, P2, C2, Q2) ==
    /\ Q2[c] = <<"delete", t, b + 1>>
    /\ \A x \in Contracts : x # c => Q2[x] = Q[x]
    /\ \A x \in Contracts :
          \/ P2[x] = P[x]
          \/ x = Outer(k) /\ P2[x] = <<"frame", t, b + 2>>
          \/ x = Inner(k) /\ P[x][1] = "none" /\ P2[x] = <<"user", t, b + 3>>
    /\ \A x \in Contracts :
          \/ C2[x] = C[x]
          \/ C[x] = <<"value", c, 0>> /\ C2[x] = <<"frame", t, b + 2>>
          \/ /\ x = Inner(k) /\ C[x][1] = "none" /\ P2[x] = <<"user", t, b + 3>>
             /\ C2[x] = <<"frame", t, b + 2>>

LEMMA RunLeaves ==
  ASSUME Typed, NEW t \in Threads, NEW P, NEW C, NEW Q, Owned(P, C, Q), steps' = steps,
         UNCHANGED <<built, future, promise, heap, word, callback, task, pool>>,
         NEW b \in Nat, Len(stack[t]) = b + 1, ~ Idle(t), Top(t).at = "run",
         NEW c \in Cts, Q[c] = <<"run", t, b + 1>>, value' = [value EXCEPT ![c] = Nothing],
         NEW k \in 1 .. N, P[Outer(k)] = <<"callback", c, 0>>,
         NEW fs \in Seq(Frames), Changes(t, b, fs),
         NEW P2, NEW C2, NEW Q2, RunMoves(t, b, c, k, P, C, Q, P2, C2, Q2),
         P2[Inner(k)] = P[Inner(k)] \/ (k < N /\ UserRight(Inner(k), P2)'),
         \A i \in 1 .. Len(fs) : FrameRight(fs[Len(fs) - i + 1], t, b + i, P2, C2, Q2)'
  PROVE  Owned(P2, C2, Q2)'
  <1> USE DEF RunMoves
  <1>1. /\ StepsRight /\ N' = N /\ Contracts' = Contracts /\ Cts' = Cts
        /\ Callbacks' = Callbacks
    BY TypesStay DEF Typed
  <1>2. /\ c \in Contracts /\ Outer(k) \in Contracts /\ Inner(k) \in Contracts /\ Outer(k) # Inner(k)
        /\ \A j \in 1 .. N : Inner(j) \in Contracts /\ Inner(j) # Outer(k) /\ (Inner(j) = Inner(k) => j = k)
    BY <1>1, ContractParts DEF StepsRight, Cts
  <1>3. \A x \in Contracts : ContractRight(x, P, C, Q)
    BY DEF Owned
  <1>4. /\ P[Outer(k)][1] = "callback" /\ P[Outer(k)][2] = c /\ Q[c][1] = "run" /\ Q2[c][1] = "delete"
        /\ P[c][1] = "done"
    <2>1. Q[c][1] = "run"
      OBVIOUS
    <2>2. word[c] = {"Produced", "Consumed"}
      BY <1>2, <1>3, <2>1 DEF ContractRight, WordRight
    <2>3. P[c][1] = "done"
      BY <1>2, <1>3, <2>2 DEF ContractRight, WordRight
    <2> QED BY <2>1, <2>3
  <1>5. value'[c] = Nothing /\ \A x \in Contracts : x # c => value'[x] = value[x]
    BY <1>2 DEF Typed
  <1>6. \A x \in Contracts :
           /\ \/ P2[x] = P[x]
              \/ P[x][1] = "callback" /\ P2[x][1] = "frame"
              \/ P[x][1] = "none" /\ P2[x][1] = "user" /\ P2[x][2] = t /\ P2[x][3] = b + 3 /\ x = Inner(k)
           /\ \/ C2[x] = C[x]
              \/ C[x][1] = "value" /\ C[x][2] = c
              \/ C[x][1] = "none" /\ x = Inner(k) /\ C2[x][1] = "frame" /\ C2[x][2] = t /\ C2[x][3] = b + 2
                 /\ P2[x][1] = "user" /\ P2[x][2] = t /\ P2[x][3] = b + 3
    BY <1>4
  <1>7. Stays(P, P2, t, b) /\ Stays(C, C2, t, b) /\ Stays(Q, Q2, t, b)
    <2>1. Stays(P, P2, t, b) /\ Stays(C, C2, t, b)
      BY <1>6 DEF Stays, Above
    <2>2. Stays(Q, Q2, t, b)
      BY DEF Stays, Above
    <2> QED BY <2>1, <2>2
  <1>8. \A j \in 1 .. N : j # k /\ Unused(j, P, C) => Unused(j, P2, C2)
    BY <1>2, <1>6 DEF Unused
  <1>9. FramesRight(P2, C2, Q2)'
    <2>1. \A x \in Contracts : P[x][1] = "frame" /\ value[x] # Nothing => value'[x] # Nothing
      BY <1>4, <1>5
    <2>2. \A x \in Contracts :
             P[x][1] \notin {"none", "user", "task"} => P2[x][1] \notin {"none", "user", "task"}
      BY <1>6
    <2>3. \A j \in 1 .. N : P[Outer(j)][1] = "frame" /\ ~ Above(P[Outer(j)], t, b) /\ Unused(j, P, C)
                              => Unused(j, P2, C2)
      BY <1>4, <1>8
    <2>4. \A x \in Contracts : callback[x] # None => callback'[x] # None
      OBVIOUS
    <2>5. FramesRight(P, C, Q)
      BY DEF Owned
    <2> HIDE DEF RunMoves
    <2> QED BY <1>7, <2>1, <2>2, <2>3, <2>4, <2>5, FramesStay
  <1>10. ASSUME NEW x \in Contracts PROVE ContractRight(x, P2, C2, Q2)'
    <2>1. CallbackRight(x, P2, C2, Q2)'
      <3>1. CASE x = c
        <4>1. callback[c] # None => callback[c] \in Callbacks
          BY <1>2, <1>3 DEF ContractRight, CallbackRight
        <4>2. ~ Unrun(c, Q2)
          BY <1>4 DEF Unrun
        <4> QED BY <1>1, <3>1, <4>1, <4>2 DEF CallbackRight, Unrun, None
      <3>2. CASE x # c
        <4>1. \A j \in 1 .. N : P[Outer(j)] = <<"callback", x, 0>> /\ Unused(j, P, C) => Unused(j, P2, C2)
          <5>1. \A j \in 1 .. N : P[Outer(j)] = <<"callback", x, 0>> => P[Outer(j)][2] = x
            OBVIOUS
          <5> QED BY <1>4, <1>8, <3>2, <5>1
        <4>2. \A y \in Contracts : P[y] = <<"callback", x, 0>> => P2[y] = P[y]
          <5>1. \A y \in Contracts : P[y] = <<"callback", x, 0>> => P[y][2] = x /\ P[y][1] = "callback"
            OBVIOUS
          <5> QED BY <1>4, <3>2, <5>1
        <4>3. Unrun(x, Q2) => Unrun(x, Q)
          BY <3>2 DEF Unrun
        <4>4. CallbackRight(x, P, C, Q)
          BY <1>3 DEF ContractRight
        <4> HIDE DEF RunMoves
        <4> QED BY <4>1, <4>2, <4>3, <4>4, CallbackStays
      <3> QED BY <3>1, <3>2
    <2>2. PoolRight(x, P2, Q2)'
      BY <1>1, <1>3, <1>4, <1>6 DEF ContractRight, PoolRight, Nothing, IsFuture
    <2>3. WordRight(x, P2, C2, Q2)'
      <3>1. WordRight(x, P, C, Q)
        BY <1>3 DEF ContractRight
      <3>2. /\ P[x][1] = "done" => P2[x][1] = "done"
            /\ C[x][1] = "done" => C2[x][1] = "done"
            /\ Unrun(x, Q2) => Unrun(x, Q) /\ x # c
            /\ Q2[x][1] # "no" <=> Q[x][1] # "no"
        BY <1>4, <1>6 DEF Unrun
      <3>3. Unrun(x, Q2)' <=> Unrun(x, Q2)
        BY DEF Unrun
      <3> HIDE DEF RunMoves
      <3> QED BY <1>5, <3>1, <3>2, <3>3 DEF WordRight, Nothing, None
    <2>4. ValueRight(x, C2)'
      <3>1. CASE x = c
        BY <1>5, <3>1 DEF ValueRight, Nothing
      <3>2. CASE x # c
        <4>1. \A y \in Contracts : C[y] = <<"value", x, 0>> => C2[y] = C[y]
          <5>1. \A y \in Contracts : C[y] = <<"value", x, 0>> => C[y][2] = x /\ C[y][1] = "value"
            OBVIOUS
          <5> QED BY <1>6, <3>2, <5>1
        <4>2. ValueRight(x, C)
          BY <1>3 DEF ContractRight
        <4>3. value'[x] = value[x]
          BY <1>5, <3>2
        <4> HIDE DEF RunMoves
        <4> QED BY <4>1, <4>2, <4>3, ValueStays
      <3> QED BY <3>1, <3>2
    <2>5. HeapRight(x, P2, Q2)'
      <3>1. HeapRight(x, P, Q)
        BY <1>3 DEF ContractRight
      <3>2. (Born(x, P2) => Born(x, P)) /\ (Q2[x][1] # "gone" => Q[x][1] # "gone")
        BY <1>4, <1>6 DEF Born
      <3>3. Born(x, P2)' <=> Born(x, P2)
        BY DEF Born
      <3> HIDE DEF RunMoves
      <3> QED BY <1>1, <3>1, <3>2, <3>3 DEF HeapRight
    <2>6. AheadRight(x, P2, C2)'
      <3>1. AheadRight(x, P, C)
        BY <1>3 DEF ContractRight
      <3>2. Born(x, P) => Born(x, P2)
        BY <1>6 DEF Born
      <3>3. CASE C2[x] = C[x] /\ P2[x] = P[x]
        BY <3>1, <3>3 DEF AheadRight, Born
      <3>4. CASE C2[x] = C[x] /\ P2[x] # P[x]
        BY <1>6, <3>1, <3>2, <3>4 DEF AheadRight, Born
      <3>5. CASE C[x][1] = "value"
        <4>1. Born(x, P)
          BY <3>1, <3>5 DEF AheadRight
        <4> QED BY <3>2, <4>1 DEF AheadRight, Born
      <3>6. CASE C2[x] # C[x] /\ C[x][1] # "value"
        BY <1>6, <3>6 DEF AheadRight, Born
      <3> QED BY <3>3, <3>4, <3>5, <3>6
    <2>7. UserRight(x, P2)'
      <3>1. CASE P2[x] = P[x]
        <4>1. UserRight(x, P)
          BY <1>3 DEF ContractRight
        <4> HIDE DEF RunMoves
        <4> QED BY <3>1, <4>1, UsersStay
      <3>2. CASE P2[x][1] = "frame"
        BY SMTT(30), <3>2 DEF UserRight
      <3>3. CASE P2[x] # P[x] /\ x = Inner(k)
        <4>1. UserRight(Inner(k), P2)'
          BY <3>3
        <4> QED BY <3>3, <4>1 DEF UserRight, Inner
      <3> QED BY <1>6, <3>1, <3>2, <3>3
    <2> QED BY <2>1, <2>2, <2>3, <2>4, <2>5, <2>6, <2>7 DEF ContractRight
  <1>11. BuilderRight(P2, C2)'
    <2>1. BuilderRight(P, C)
      BY DEF Owned
    <2>2. k < built
      <3>1. built \in 0 .. N + 1
        BY DEF Typed
      <3>2. k \notin built .. N
        BY <1>4, <2>1 DEF BuilderRight
      <3> QED BY <1>1, <3>1, <3>2 DEF StepsRight
    <2>3. \A x \in Contracts : P[x][1] \in {"none", "promise"} /\ P2[x] # P[x] =>
            P[x][1] = "none" /\ \E j \in 1 .. N - 1 : x = Inner(j) /\ j < built
      <3>1. ASSUME NEW x \in Contracts, P[x][1] \in {"none", "promise"}, P2[x] # P[x]
            PROVE  P[x][1] = "none" /\ x = Inner(k) /\ k < N
        BY <1>2, <1>4, <1>6, <3>1
      <3>2. k < N => k \in 1 .. N - 1
        BY <1>1 DEF StepsRight
      <3> QED BY <2>2, <3>1, <3>2
    <2>4. \A x \in Contracts : C[x][1] \in {"none", "future"} /\ C2[x] # C[x] =>
            C[x][1] = "none" /\ \E j \in 1 .. N - 1 : x = Inner(j) /\ j < built
      <3>1. ASSUME NEW x \in Contracts, C[x][1] \in {"none", "future"}, C2[x] # C[x]
            PROVE  C[x][1] = "none" /\ x = Inner(k) /\ k < N
        <4>1. C[x][1] = "none" /\ x = Inner(k) /\ P2[x][1] = "user" /\ P2[x] = <<"user", t, b + 3>>
          BY <1>6, <3>1
        <4>2. P2[x] # P[x]
          <5> SUFFICES ASSUME P2[x] = P[x] PROVE FALSE
            OBVIOUS
          <5>1. UserRight(x, P)
            BY <1>3 DEF ContractRight
          <5>2. P[x][1] = "user" /\ P[x][2] = t /\ P[x][3] = b + 3
            BY <4>1
          <5>3. b + 3 \in 1 .. (b + 1)
            BY <5>1, <5>2 DEF UserRight
          <5> QED BY <5>3
        <4> QED BY <4>1, <4>2
      <3>2. k < N => k \in 1 .. N - 1
        BY <1>1 DEF StepsRight
      <3> QED BY <2>2, <3>1, <3>2
    <2>5. \A u \in Threads \ {t} : stack'[u] = stack[u]
      BY DEF Changes
    <2>6. UNCHANGED <<built, future, promise>>
      OBVIOUS
    <2> HIDE DEF RunMoves
    <2> QED BY <2>1, <2>3, <2>4, <2>5, <2>6, BuilderStays
  <1> QED BY <1>1, <1>9, <1>10, <1>11 DEF Owned

LEMMA RunOwned ==
  ASSUME Typed, Typed', NEW t \in Threads, NEW P, NEW C, NEW Q, Owned(P, C, Q), Run(t)
  PROVE  \E P2, C2, Q2 : Owned(P2, C2, Q2)'
  <1>1. PICK f, b : Calling(t, f, b, P, C, Q)
    BY IsCalling DEF Run, At
  <1>2. PICK c, k, v, m, h : /\ c = f.c /\ k = callback[c][1] /\ v = value[c]
                             /\ m = Made(t) /\ h = Frame("delete", c, Nothing)
    OBVIOUS
  <1>3. /\ c \in Contracts /\ c \in Cts /\ Q[c] = <<"run", t, b + 1>>
        /\ b \in Nat /\ Len(stack[t]) = b + 1 /\ ~ Idle(t) /\ Top(t).at = "run" /\ c = Top(t).c
    BY <1>1, <1>2 DEF Calling, FrameRight, Run, At
  <1>4. /\ StepsRight /\ steps' = steps /\ N' = N /\ Contracts' = Contracts /\ Cts' = Cts
        /\ Callbacks' = Callbacks
    BY TypesStay DEF Typed, Run
  <1>5. /\ k \in 1 .. N /\ v \in Values /\ v # Nothing
        /\ callback[c] = Inner(k) => k < N /\ PassesOn(m, k, v)
        /\ callback[c] # Inner(k) => callback[c] = Outer(k)
        /\ Continues(m, k, v)
    BY <1>2, <1>3, OwnedTop, RunContinues
  <1>6. /\ N \in Nat /\ Outer(k) \in Contracts /\ Inner(k) \in Contracts /\ Outer(k) # Inner(k)
        /\ Outer(k)[2] = "outer" /\ Outer(k)[1] = k /\ Inner(k)[1] = k /\ Inner(k)[2] = "inner"
        /\ callback[c] # None /\ (k < N => k \in 1 .. N - 1 /\ Outer(k) \in Cts /\ Inner(k) \in Cts)
    <2>1. k \in 0 .. N /\ N \in Nat /\ N \in 0 .. N
      BY <1>4, <1>5 DEF StepsRight
    <2>2. k < N => Outer(k) # Outer(N) /\ Inner(k) # Outer(N)
      BY <2>1, ContractParts, <1>4
    <2>3. k < N => k \in 1 .. N - 1
      BY <1>5, <2>1
    <2> QED BY <1>4, <1>5, <2>1, <2>2, <2>3, ContractParts DEF Cts
  <1>7. ContractRight(c, P, C, Q)
    BY SMTT(30), <1>3 DEF Owned
  <1>8. /\ P[Outer(k)] = <<"callback", c, 0>>
        /\ callback[c] # Inner(k) => Unused(k, P, C)
        /\ IsFuture(v) => C[Sub(v)] = <<"value", c, 0>> /\ Sub(v) \in Cts /\ Sub(v) \in Contracts
    <2>1. Q[c][1] = "run"
      BY <1>3
    <2>2. Unrun(c, Q)
      BY <2>1 DEF Unrun
    <2>3. IsFuture(v) => C[Sub(v)] = <<"value", c, 0>>
      BY <1>2, <1>5, <1>7 DEF ContractRight, ValueRight
    <2> QED BY <1>2, <1>4, <1>5, <1>6, <1>7, <2>2, <2>3, SubIsContract DEF ContractRight, CallbackRight, Cts
  <1>9. /\ value' = [value EXCEPT ![c] = Nothing]
        /\ Then(t, Append(m, h))
        /\ UNCHANGED <<built, future, promise, heap, word, callback, task, pool>>
    <2>1. Top(t).c = c /\ Run(t)
      BY <1>3
    <2> QED BY <1>2, <2>1 DEF Run, CallBack, Made
  <1>10. h \in Frames /\ h.at = "delete" /\ h.c = c /\ m \in Seq(Frames)
    <2>1. h \in Frames
      BY <1>2, <1>3, <1>4, FramesAreTyped, ValueParts DEF Labels
    <2> QED BY <1>2, <1>4, <1>5, <2>1, ContinuesTyped, FrameFields
  <1>11. Append(m, h) \in Seq(Frames) /\ Changes(t, b, Append(m, h))
    <2>1. Append(m, h) \in Seq(Frames)
      BY <1>10
    <2> QED BY <1>3, <1>9, <2>1, ThenFrames
  <1>12. ASSUME NEW P2, NEW C2, NEW Q2, Q2[c] = <<"delete", t, b + 1>>
         PROVE  FrameRight(h, t, b + 1, P2, C2, Q2)'
    BY <1>3, <1>4, <1>10, <1>12 DEF FrameRight
  <1>13. PICK Q2 : Q2 = [x \in Contracts |-> IF x = c THEN <<"delete", t, b + 1>> ELSE Q[x]]
    OBVIOUS
  <1>14. Q2[c] = <<"delete", t, b + 1>> /\ \A x \in Contracts : x # c => Q2[x] = Q[x]
    BY <1>3, <1>13
  <1>15. ASSUME NEW fs, fs = Append(m, h), NEW P2, NEW C2, RunMoves(t, b, c, k, P, C, Q, P2, C2, Q2),
                P2[Inner(k)] = P[Inner(k)] \/ (k < N /\ UserRight(Inner(k), P2)'),
                \A i \in 1 .. Len(fs) : FrameRight(fs[Len(fs) - i + 1], t, b + i, P2, C2, Q2)'
         PROVE  Owned(P2, C2, Q2)'
    BY <1>3, <1>4, <1>5, <1>8, <1>9, <1>11, <1>15, RunLeaves
  <1>16. PICK P2 : P2 = [x \in Contracts |-> IF x = Outer(k) THEN <<"frame", t, b + 2>> ELSE P[x]]
    OBVIOUS
  <1>17. P2[Outer(k)] = <<"frame", t, b + 2>> /\ \A x \in Contracts : x # Outer(k) => P2[x] = P[x]
    BY <1>6, <1>16
  <1>18. PICK P3 : P3 = [x \in Contracts |-> IF x = Inner(k) THEN <<"user", t, b + 3>> ELSE P2[x]]
    OBVIOUS
  <1>19. /\ P3[Inner(k)] = <<"user", t, b + 3>> /\ P3[Outer(k)] = <<"frame", t, b + 2>>
         /\ \A x \in Contracts : x # Inner(k) => P3[x] = P2[x]
    BY <1>6, <1>17, <1>18
  <1>20. PICK C2 : C2 = [x \in Contracts |-> IF x = Inner(k) THEN <<"frame", t, b + 2>> ELSE C[x]]
    OBVIOUS
  <1>21. C2[Inner(k)] = <<"frame", t, b + 2>> /\ \A x \in Contracts : x # Inner(k) => C2[x] = C[x]
    BY <1>6, <1>20
  <1>22. PICK C3 : C3 = [x \in Contracts |-> IF x = Sub(v) THEN <<"frame", t, b + 2>> ELSE C[x]]
    OBVIOUS
  <1>23. \A x \in Contracts : IF x = Sub(v) THEN C3[x] = <<"frame", t, b + 2>> ELSE C3[x] = C[x]
    BY <1>22
  \* The user's function is called, and g will set the value or attach a callback.
  <1>24. ASSUME k < N, callback[c] # Inner(k), NEW g, m = <<CallUser(k, v), g>>,
                FrameRight(g, t, b + 2, P3, C2, Q2)'
         PROVE  \E R2, D2, S2 : Owned(R2, D2, S2)'
    <2>1. PICK u : u = CallUser(k, v)
      OBVIOUS
    <2>2. u.at = "user" /\ u.c = Inner(k)
      BY <2>1, FrameFields
    <2>3. Append(m, h) = <<u, g, h>>
      BY <1>24, <2>1, RowsOfCalls
    <2>4. FrameRight(u, t, b + 3, P3, C2, Q2)'
      BY <1>4, <1>6, <1>19, <1>24, <2>2 DEF FrameRight, Inner
    <2>5. \A i \in 1 .. Len(<<u, g, h>>) :
             FrameRight(<<u, g, h>>[Len(<<u, g, h>>) - i + 1], t, b + i, P3, C2, Q2)'
      BY <1>3, <1>12, <1>14, <1>24, <2>4, ThreeFrames
    <2>6. P[Inner(k)][1] = "none" /\ C[Inner(k)][1] = "none"
      BY <1>8, <1>24 DEF Unused
    <2>7. RunMoves(t, b, c, k, P, C, Q, P3, C2, Q2)
      BY <1>14, <1>17, <1>19, <1>21, <2>6 DEF RunMoves
    <2>8. UserRight(Inner(k), P3)'
      <3>1. Len(<<u, g, h>>) = 3 /\ <<u, g, h>>[3 - 3 + 1] = u
        OBVIOUS
      <3>2. Len(stack'[t]) = b + 3 /\ Fr(stack'[t], b + 3) = u
        BY <1>3, <1>11, <2>3, <3>1 DEF Changes
      <3>3. P3[Inner(k)][2] = t /\ P3[Inner(k)][3] = b + 3
        BY <1>19
      <3>4. b + 3 \in 1 .. b + 3
        BY <1>3
      <3> QED BY <2>2, <3>2, <3>3, <3>4 DEF UserRight, Fr, Inner
    <2>9. Owned(P3, C2, Q2)'
      BY <1>15, <1>24, <2>3, <2>5, <2>7, <2>8
    <2> QED BY <2>9
  \* Nothing is called but g.
  <1>25. ASSUME NEW g, m = <<g>>, NEW D2, FrameRight(g, t, b + 2, P2, D2, Q2)',
                D2 = C \/ (D2 = C3 /\ IsFuture(v))
         PROVE  \E R2, S2, T2 : Owned(R2, S2, T2)'
    <2>1. Append(m, h) = <<g, h>>
      BY <1>25, RowsOfCalls
    <2>2. \A i \in 1 .. Len(<<g, h>>) :
             FrameRight(<<g, h>>[Len(<<g, h>>) - i + 1], t, b + i, P2, D2, Q2)'
      BY <1>3, <1>12, <1>14, <1>25, TwoFrames
    <2>3. \A x \in Contracts : D2[x] = C[x] \/ (C[x] = <<"value", c, 0>> /\ D2[x] = <<"frame", t, b + 2>>)
      BY <1>8, <1>23, <1>25
    <2>4. RunMoves(t, b, c, k, P, C, Q, P2, D2, Q2)
      BY <1>14, <1>17, <2>3 DEF RunMoves
    <2>5. P2[Inner(k)] = P[Inner(k)]
      BY <1>6, <1>17
    <2>6. Owned(P2, D2, Q2)'
      BY <1>15, <2>1, <2>2, <2>4, <2>5
    <2> QED BY <2>6
  <1>26. CASE k < N /\ PassesOn(m, k, v)
    <2>1. PICK w \in Values : w # Nothing /\ (IsFuture(w) => w = v) /\ m = <<SetValue(Outer(k), w)>>
      BY <1>26 DEF PassesOn
    <2>2. PICK g : g = SetValue(Outer(k), w)
      OBVIOUS
    <2>3. g.at = "set" /\ g.c = Outer(k) /\ g.v = w
      BY <2>2, FrameFields
    <2>4. CASE IsFuture(w)
      <3>1. C3[Sub(w)] = <<"frame", t, b + 2>>
        BY <1>8, <1>23, <2>1, <2>4
      <3>2. FrameRight(g, t, b + 2, P2, C3, Q2)'
        BY <1>4, <1>6, <1>17, <1>26, <2>1, <2>3, <3>1 DEF FrameRight, Nothing, IsFuture, Sub, Inner, Outer
      <3> QED BY <1>25, <2>1, <2>2, <2>4, <3>2
    <2>5. CASE ~ IsFuture(w)
      <3>1. FrameRight(g, t, b + 2, P2, C, Q2)'
        BY <1>4, <1>6, <1>17, <1>26, <2>1, <2>3, <2>5 DEF FrameRight, Nothing, IsFuture, Outer
      <3> QED BY <1>25, <2>1, <2>2, <3>1
    <2> QED BY <2>4, <2>5
  <1>27. CASE callback[c] # Inner(k) /\ k < N /\ HandsOut(m, k, v)
    <2>1. PICK g : g = SetValue(Outer(k), AFuture(k))
      OBVIOUS
    <2>2. /\ g.at = "set" /\ g.c = Outer(k) /\ g.v = AFuture(k) /\ m = <<CallUser(k, v), g>>
      BY <1>27, <2>1, FrameFields DEF HandsOut
    <2>3. g.v # Nothing /\ Sub(g.v) = Inner(k)
      <3>1. k \in 1 .. N - 1
        BY <1>6, <1>27
      <3>2. AFuture(k) # Nothing /\ AFuture(k).by[1] = k
        BY <1>4, <3>1, ValueParts
      <3> QED BY <2>2, <3>2 DEF Sub
    <2>4. FrameRight(g, t, b + 2, P3, C2, Q2)'
      BY <1>4, <1>6, <1>19, <1>21, <1>27, <2>2, <2>3 DEF FrameRight, Nothing, IsFuture, Sub, Inner, Outer
    <2> QED BY <1>24, <1>27, <2>2, <2>4
  <1>28. CASE callback[c] # Inner(k) /\ k < N /\ Asks(m, k, v)
    <2>1. PICK g : g = Await(Inner(k), k)
      OBVIOUS
    <2>2. g.at = "attach" /\ g.c = Inner(k) /\ g.cb = Inner(k) /\ m = <<CallUser(k, v), g>>
      BY <1>28, <2>1, FrameFields DEF Asks
    <2>3. Inner(k) \in Callbacks /\ g.cb[1] = k /\ g.cb[2] = "inner"
      BY <1>6, <1>28, <2>2 DEF Callbacks
    <2>4. FrameRight(g, t, b + 2, P3, C2, Q2)'
      BY <1>4, <1>6, <1>19, <1>21, <1>28, <2>2, <2>3 DEF FrameRight, Inner, Outer
    <2> QED BY <1>24, <1>28, <2>2, <2>4
  <1>29. CASE k < N /\ Flattens(m, k, v)
    <2>1. PICK g : g = Await(Sub(v), k)
      OBVIOUS
    <2>2. g.at = "attach" /\ g.c = Sub(v) /\ g.cb = Inner(k) /\ m = <<g>> /\ IsFuture(v)
      BY <1>29, <2>1, FrameFields DEF Flattens
    <2>3. Inner(k) \in Callbacks /\ g.cb[1] = k /\ g.cb[2] = "inner" /\ C3[g.c] = <<"frame", t, b + 2>>
      BY <1>6, <1>8, <1>23, <1>29, <2>2 DEF Callbacks
    <2>4. FrameRight(g, t, b + 2, P2, C3, Q2)'
      BY <1>4, <1>6, <1>8, <1>17, <1>29, <2>2, <2>3 DEF FrameRight, Inner, Outer
    <2> QED BY <1>25, <2>2, <2>4
  <1>30. CASE Delivers(m, v) \/ m = <<>>
    <2>1. \A i \in 1 .. Len(Append(m, h)) :
             FrameRight(Append(m, h)[Len(Append(m, h)) - i + 1], t, b + i, P, C, Q2)'
      <3>1. CASE m = <<>>
        <4>1. Append(m, h) = <<h>>
          BY <3>1
        <4> QED BY <1>3, <1>12, <1>14, <4>1, OneFrame
      <3>2. CASE Delivers(m, v)
        <4>1. PICK g1, g2 : g1 = Frame("box", None, v) /\ g2 = Frame("fire", None, Nothing)
          OBVIOUS
        <4>2. g1.at = "box" /\ g2.at = "fire" /\ m = <<g1, g2>>
          BY <3>2, <4>1, FrameFields DEF Delivers
        <4>3. Append(m, h) = <<g1, g2, h>>
          BY <4>2, RowsOfCalls
        <4>4. FrameRight(g1, t, b + 3, P, C, Q2)' /\ FrameRight(g2, t, b + 2, P, C, Q2)'
          BY <4>2 DEF FrameRight
        <4>5. \A i \in 1 .. Len(<<g1, g2, h>>) :
                 FrameRight(<<g1, g2, h>>[Len(<<g1, g2, h>>) - i + 1], t, b + i, P, C, Q2)'
          BY <1>3, <1>12, <1>14, <4>4, ThreeFrames
        <4> QED BY <4>3, <4>5
      <3> QED BY <1>30, <3>1, <3>2
    <2>2. RunMoves(t, b, c, k, P, C, Q, P, C, Q2)
      BY <1>14 DEF RunMoves
    <2>3. Owned(P, C, Q2)'
      BY <1>15, <2>1, <2>2
    <2> QED BY <2>3
  <1>31. callback[c] # Inner(k) \/ (k < N /\ PassesOn(m, k, v))
    BY <1>5
  <1> QED BY <1>5, <1>26, <1>27, <1>28, <1>29, <1>30, <1>31 DEF Continues

\* A call that returns, and what it deletes on the way.
LEMMA ReturnsOwned ==
  ASSUME Typed, NEW t \in Threads, NEW P, NEW C, NEW Q, Owned(P, C, Q), steps' = steps,
         UNCHANGED <<built, future, promise, word, value, callback, task, pool>>,
         NEW b \in Nat, Len(stack[t]) = b + 1, ~ Idle(t), Top(t).at # "user", Then(t, <<>>),
         NEW Q2,
         \A x \in Contracts : \/ Q2[x] = Q[x]
                              \/ Q[x] = <<"delete", t, b + 1>> /\ Q2[x] = <<"gone", x, 0>>,
         \A x \in Contracts : /\ <<"contract", x>> \in heap => <<"contract", x>> \in heap' \/ Q2[x][1] = "gone"
                              /\ <<"task", x>> \in heap => <<"task", x>> \in heap' \/ P[x][1] # "task"
  PROVE  Owned(P, C, Q2)'
  <1>1. /\ StepsRight /\ N' = N /\ Contracts' = Contracts /\ Cts' = Cts
        /\ Callbacks' = Callbacks
    BY TypesStay DEF Typed
  <1>2. PICK fs : fs = <<>>
    OBVIOUS
  <1>3. fs \in Seq(Frames) /\ Len(fs) = 0 /\ Changes(t, b, fs)
    <2>1. <<>> \in Seq(Frames) /\ Len(<<>>) = 0
      OBVIOUS
    <2>2. Changes(t, b, <<>>)
      BY <2>1, ThenFrames
    <2> QED BY <1>2, <2>1, <2>2
  <1>4. \A x \in Contracts : ContractRight(x, P, C, Q)
    BY DEF Owned
  <1>5. \A x \in Contracts : Q2[x] = Q[x] \/ (Q[x][1] = "delete" /\ Q2[x][1] = "gone")
    OBVIOUS
  <1>6. Stays(P, P, t, b) /\ Stays(C, C, t, b) /\ Stays(Q, Q2, t, b)
    BY DEF Stays, Above
  <1>7. FramesRight(P, C, Q2)'
    <2>1. \A i \in 1 .. Len(fs) : FrameRight(fs[Len(fs) - i + 1], t, b + i, P, C, Q2)'
      BY <1>3
    <2>2. FramesRight(P, C, Q)
      BY DEF Owned
    <2> QED BY <1>3, <1>6, <2>1, <2>2, FramesStay
  <1>8. ASSUME NEW x \in Contracts PROVE ContractRight(x, P, C, Q2)'
    <2>0. ContractRight(x, P, C, Q)
      BY <1>4
    <2>1. CallbackRight(x, P, C, Q2)'
      <3>1. Unrun(x, Q2) => Unrun(x, Q)
        BY <1>5 DEF Unrun
      <3> QED BY <2>0, <3>1, CallbackStays DEF ContractRight
    <2>2. PoolRight(x, P, Q2)'
      <3>1. Q[x][1] = "pool" => Q2[x][1] = "pool"
        BY <1>5
      <3> QED BY <1>1, <2>0, <3>1 DEF ContractRight, PoolRight, Nothing, IsFuture
    <2>3. WordRight(x, P, C, Q2)'
      <3>1. (Unrun(x, Q2) => Unrun(x, Q)) /\ (Q2[x][1] # "no" <=> Q[x][1] # "no")
        BY <1>5 DEF Unrun
      <3>2. Unrun(x, Q2)' <=> Unrun(x, Q2)
        BY DEF Unrun
      <3> QED BY <2>0, <3>1, <3>2 DEF ContractRight, WordRight, Nothing, None
    <2>4. ValueRight(x, C)'
      BY <2>0, ValueStays DEF ContractRight
    <2>5. HeapRight(x, P, Q2)'
      <3>1. Q2[x][1] # "gone" => Q[x][1] # "gone"
        BY <1>5
      <3> QED BY <1>1, <2>0, <3>1 DEF ContractRight, HeapRight, Born
    <2>6. AheadRight(x, P, C)'
      BY <2>0 DEF ContractRight, AheadRight, Born
    <2>7. UserRight(x, P)'
      BY <1>3, <2>0, UsersStay DEF ContractRight
    <2> QED BY <2>1, <2>2, <2>3, <2>4, <2>5, <2>6, <2>7 DEF ContractRight
  <1>9. BuilderRight(P, C)'
    BY <1>3, BuilderStays DEF Owned, Changes
  <1> QED BY <1>1, <1>7, <1>8, <1>9 DEF Owned

LEMMA DeleteOwned ==
  ASSUME Typed, Typed', NEW t \in Threads, NEW P, NEW C, NEW Q, Owned(P, C, Q), Delete(t)
  PROVE  \E P2, C2, Q2 : Owned(P2, C2, Q2)'
  <1>1. PICK f, b : Calling(t, f, b, P, C, Q)
    BY IsCalling DEF Delete, At
  <1>2. PICK c : c = f.c
    OBVIOUS
  <1>3. /\ c \in Contracts /\ b \in Nat /\ Len(stack[t]) = b + 1 /\ ~ Idle(t) /\ Top(t) = f
        /\ f.at \in {"delete", "free"} /\ Then(t, <<>>)
        /\ heap' = heap \ {<<IF f.at = "free" THEN "task" ELSE "contract", c>>}
    BY <1>1, <1>2 DEF Calling, FrameRight, Delete, At
  <1>4. steps' = steps /\ UNCHANGED <<built, future, promise, word, value, callback, task, pool>>
    BY DEF Delete
  <1>5. CASE f.at = "delete"
    <2>1. PICK Q2 : Q2 = [x \in Contracts |-> IF x = c THEN <<"gone", x, 0>> ELSE Q[x]]
      OBVIOUS
    <2>2. Q[c] = <<"delete", t, b + 1>>
      BY <1>1, <1>2, <1>5 DEF Calling, FrameRight
    <2>3. \A x \in Contracts : IF x = c THEN Q2[x] = <<"gone", x, 0>> ELSE Q2[x] = Q[x]
      BY <2>1
    <2>4. /\ \A x \in Contracts : \/ Q2[x] = Q[x]
                                  \/ Q[x] = <<"delete", t, b + 1>> /\ Q2[x] = <<"gone", x, 0>>
          /\ \A x \in Contracts : /\ <<"contract", x>> \in heap => <<"contract", x>> \in heap' \/ Q2[x][1] = "gone"
                                  /\ <<"task", x>> \in heap => <<"task", x>> \in heap' \/ P[x][1] # "task"
      BY <1>3, <1>5, <2>2, <2>3
    <2>5. Owned(P, C, Q2)'
      BY <1>3, <1>4, <1>5, <2>4, ReturnsOwned
    <2> QED BY <2>5
  <1>6. CASE f.at = "free"
    <2>1. P[c][1] # "task"
      BY <1>1, <1>2, <1>6 DEF Calling, FrameRight
    <2>2. \A x \in Contracts : /\ <<"contract", x>> \in heap => <<"contract", x>> \in heap'
                               /\ <<"task", x>> \in heap => <<"task", x>> \in heap' \/ P[x][1] # "task"
      BY <1>3, <1>6, <2>1
    <2>3. Owned(P, C, Q)'
      BY <1>3, <1>4, <1>6, <2>2, ReturnsOwned
    <2> QED BY <2>3
  <1> QED BY <1>3, <1>5, <1>6

LEMMA GetsOwned ==
  ASSUME Typed, Typed', NEW t \in Threads, NEW P, NEW C, NEW Q, Owned(P, C, Q),
         ConstructBox(t) \/ Fire(t)
  PROVE  \E P2, C2, Q2 : Owned(P2, C2, Q2)'
  <1>1. PICK f, b : Calling(t, f, b, P, C, Q)
    BY IsCalling DEF ConstructBox, Fire, At
  <1>2. /\ b \in Nat /\ Len(stack[t]) = b + 1 /\ ~ Idle(t) /\ Top(t).at # "user" /\ Then(t, <<>>)
        /\ steps' = steps /\ heap' = heap
        /\ UNCHANGED <<built, future, promise, word, value, callback, task, pool>>
    BY <1>1 DEF Calling, ConstructBox, Fire, At
  <1>3. Owned(P, C, Q)'
    BY <1>2, ReturnsOwned
  <1> QED BY <1>3

LEMMA UserOwned ==
  ASSUME Typed, Typed', NEW t \in Threads, NEW P, NEW C, NEW Q, Owned(P, C, Q), User(t)
  PROVE  \E P2, C2, Q2 : Owned(P2, C2, Q2)'
  <1>1. PICK f, b : Calling(t, f, b, P, C, Q)
    BY IsCalling DEF User, At
  <1>2. PICK c, v, fs : c = f.c /\ v = Outcome(c[1], f.v) /\ fs = <<>>
    OBVIOUS
  <1>3. /\ StepsRight /\ steps' = steps /\ N' = N /\ Contracts' = Contracts /\ Cts' = Cts
        /\ Callbacks' = Callbacks
    BY TypesStay DEF Typed, User
  <1>4. /\ P[c] = <<"user", t, b + 1>> /\ \E k \in 1 .. N - 1 : c = Inner(k)
        /\ b \in Nat /\ Len(stack[t]) = b + 1 /\ ~ Idle(t) /\ Top(t) = f /\ f.at = "user" /\ f.v \in Values
    BY <1>1, <1>2 DEF Calling, FrameRight, User, At
  <1>5. /\ c \in Contracts /\ c \in Cts /\ Inner(c[1]) = c
        /\ v # Nothing /\ ~ IsFuture(v)
    <2>1. PICK k \in 1 .. N - 1 : c = Inner(k)
      BY <1>4
    <2>2. k \in 0 .. N /\ k \in Nat
      BY <1>3 DEF StepsRight
    <2>3. c \in Contracts /\ c[1] = k /\ c # Outer(N)
      BY <1>3, <2>1, <2>2, ContractParts
    <2>4. v # Nothing /\ ~ IsFuture(v)
      BY <1>2, <1>3, <1>4, <2>2, <2>3, OutcomeIsResult
    <2> QED BY <2>1, <2>3, <2>4 DEF Cts
  <1>6. /\ heap' = heap \union {<<"contract", c>>, <<"task", c>>}
        /\ task' = [task EXCEPT ![c] = v]
        /\ pool' = pool \union {<<"task", c>>}
        /\ Then(t, <<>>)
        /\ UNCHANGED <<built, future, promise, word, value, callback>>
    BY <1>2, <1>4, <1>5 DEF User, Submit
  <1>7. task'[c] = v /\ \A x \in Contracts : x # c => task'[x] = task[x]
    BY <1>5, <1>6 DEF Typed
  <1>8. fs \in Seq(Frames) /\ Len(fs) = 0 /\ Changes(t, b, fs)
    <2>1. <<>> \in Seq(Frames) /\ Len(<<>>) = 0
      OBVIOUS
    <2>2. Changes(t, b, <<>>)
      BY <1>4, <1>6, <2>1, ThenFrames
    <2> QED BY <1>2, <2>1, <2>2
  <1>9. PICK P2 : P2 = [x \in Contracts |-> IF x = c THEN <<"task", c, 0>> ELSE P[x]]
    OBVIOUS
  <1>10. P2[c][1] = "task" /\ P[c][1] = "user" /\ \A x \in Contracts : x # c => P2[x] = P[x]
    BY <1>4, <1>5, <1>9
  <1>11. Stays(P, P2, t, b) /\ Stays(C, C, t, b) /\ Stays(Q, Q, t, b)
    BY <1>4, <1>10 DEF Stays, Above
  <1>12. \A k \in 1 .. N : Unused(k, P, C) => Unused(k, P2, C)
    <2>1. \A k \in 1 .. N : Inner(k) \in Contracts
      BY <1>3, ContractParts DEF StepsRight
    <2> QED BY <1>10, <2>1 DEF Unused
  <1>13. \A x \in Contracts : ContractRight(x, P, C, Q)
    BY DEF Owned
  <1>14. FramesRight(P2, C, Q)'
    <2>1. \A i \in 1 .. Len(fs) : FrameRight(fs[Len(fs) - i + 1], t, b + i, P2, C, Q)'
      BY <1>8
    <2>2. \A x \in Contracts :
             P[x][1] \notin {"none", "user", "task"} => P2[x][1] \notin {"none", "user", "task"}
      BY <1>10
    <2> QED BY <1>3, <1>4, <1>6, <1>8, <1>11, <1>12, <2>1, <2>2, FramesStay DEF Owned
  <1>15. ASSUME NEW x \in Contracts PROVE ContractRight(x, P2, C, Q)'
    <2>0. ContractRight(x, P, C, Q)
      BY <1>13
    <2>1. CallbackRight(x, P2, C, Q)'
      <3>1. \A y \in Contracts : P[y] = <<"callback", x, 0>> => P2[y] = P[y]
        BY <1>10
      <3> QED BY <1>3, <1>6, <1>12, <2>0, <3>1, CallbackStays DEF ContractRight
    <2>2. PoolRight(x, P2, Q)'
      BY <1>3, <1>5, <1>6, <1>7, <1>10, <2>0 DEF ContractRight, PoolRight, Nothing, IsFuture
    <2>3. WordRight(x, P2, C, Q)'
      <3>1. P[x][1] = "done" => P2[x][1] = "done"
        BY <1>10
      <3> QED BY <1>6, <2>0, <3>1 DEF ContractRight, WordRight, Unrun, Nothing, None
    <2>4. ValueRight(x, C)'
      BY <1>6, <2>0, ValueStays DEF ContractRight
    <2>5. HeapRight(x, P2, Q)'
      BY <1>3, <1>6, <1>10, <2>0 DEF ContractRight, HeapRight, Born
    <2>6. AheadRight(x, P2, C)'
      BY <1>10, <2>0 DEF ContractRight, AheadRight, Born
    <2>7. UserRight(x, P2)'
      <3>1. CASE x = c
        BY <1>10, <3>1 DEF UserRight
      <3>2. CASE x # c
        <4>1. Top(t).c # x
          BY <1>2, <1>4, <3>2
        <4> QED BY <1>4, <1>8, <1>10, <2>0, <3>2, <4>1, UsersStay DEF ContractRight
      <3> QED BY <3>1, <3>2
    <2> QED BY <2>1, <2>2, <2>3, <2>4, <2>5, <2>6, <2>7 DEF ContractRight
  <1>16. BuilderRight(P2, C)'
    <2>1. \A x \in Contracts : P[x][1] \in {"none", "promise"} => P2[x] = P[x]
      BY <1>10
    <2>2. \A u \in Threads \ {t} : stack'[u] = stack[u]
      BY <1>8 DEF Changes
    <2>3. UNCHANGED <<built, future, promise>> /\ BuilderRight(P, C)
      BY <1>6 DEF Owned
    <2> QED BY <1>3, <1>4, <2>1, <2>2, <2>3, BuilderStays
  <1>17. Owned(P2, C, Q)'
    BY <1>3, <1>14, <1>15, <1>16 DEF Owned
  <1> QED BY <1>17

-----------------------------------------------------------------------------
\* What an idle thread begins: the builder, the promiser and the workers.

\* The duties that it takes over.
Begins(P, C, Q, P2, C2, Q2) ==
    /\ \A x \in Contracts :
          \/ P2[x] = P[x]
          \/ /\ \/ P[x][1] = "none" /\ P2[x][1] \in {"frame", "promise", "task"}
                \/ P[x][1] \in {"promise", "task"} /\ P2[x][1] = "frame"
             /\ x \in Cts => Born(x, P) \/ <<"contract", x>> \in heap'
    /\ \A x \in Contracts :
          \/ C2[x] = C[x]
          \/ C[x][1] \in {"none", "future"} /\ C2[x][1] \in {"frame", "future"} /\ Born(x, P2)
    /\ \A x \in Contracts : Q2[x] = Q[x] \/ (Q[x][1] = "pool" /\ Q2[x][1] = "run")
    /\ \A x \in Contracts : <<"task", x>> \in pool' =>
          \/ <<"task", x>> \in pool /\ task'[x] = task[x] /\ P2[x] = P[x]
          \/ /\ x \in Cts /\ P2[x][1] = "task" /\ <<"task", x>> \in heap'
             /\ task'[x] # Nothing /\ ~ IsFuture(task'[x])
    /\ \A x \in Contracts : <<"contract", x>> \in pool' => <<"contract", x>> \in pool /\ Q2[x] = Q[x]

LEMMA BeginsOwned ==
  ASSUME Typed, NEW t \in Threads, NEW P, NEW C, NEW Q, Owned(P, C, Q), steps' = steps,
         UNCHANGED <<word, value, callback>>, heap \subseteq heap',
         NEW fs \in Seq(Frames), Changes(t, 0, fs), Idle(t),
         NEW P2, NEW C2, NEW Q2,
         Begins(P, C, Q, P2, C2, Q2),
         \A k \in 1 .. N : P[Outer(k)] = P2[Outer(k)] /\ Unused(k, P, C) => Unused(k, P2, C2),
         \A i \in 1 .. Len(fs) : FrameRight(fs[Len(fs) - i + 1], t, 0 + i, P2, C2, Q2)',
         BuilderRight(P2, C2)'
  PROVE  Owned(P2, C2, Q2)'
  <1> USE DEF Begins
  <1>1. /\ StepsRight /\ N' = N /\ Contracts' = Contracts /\ Cts' = Cts
        /\ Callbacks' = Callbacks
    BY TypesStay DEF Typed
  <1>2. \A x \in Contracts : ContractRight(x, P, C, Q)
    BY DEF Owned
  <1>3. Len(stack[t]) = 0 /\ 0 \in Nat
    BY DEF Idle
  <1>4. Stays(P, P2, t, 0) /\ Stays(C, C2, t, 0) /\ Stays(Q, Q2, t, 0)
    BY DEF Stays
  <1>5. FramesRight(P2, C2, Q2)'
    <2>1. \A x \in Contracts :
             P[x][1] \notin {"none", "user", "task"} => P2[x][1] \notin {"none", "user", "task"}
      OBVIOUS
    <2>2. FramesRight(P, C, Q)
      BY DEF Owned
    <2>3. \A k \in 1 .. N : Outer(k) \in Contracts
      BY <1>1, ContractParts DEF StepsRight
    <2>4. \A k \in 1 .. N : P[Outer(k)][1] = "frame" /\ ~ Above(P[Outer(k)], t, 0) /\ Unused(k, P, C)
                              => Unused(k, P2, C2)
      BY <2>3
    <2> HIDE DEF Begins
    <2> QED BY <1>3, <1>4, <2>1, <2>2, <2>4, FramesStay
  <1>6. ASSUME NEW x \in Contracts PROVE ContractRight(x, P2, C2, Q2)'
    <2>0. ContractRight(x, P, C, Q)
      BY <1>2
    <2>1. CallbackRight(x, P2, C2, Q2)'
      <3>1. \A y \in Contracts : P[y] = <<"callback", x, 0>> => P2[y] = P[y]
        <4>1. \A y \in Contracts : P[y] = <<"callback", x, 0>> => P[y][1] = "callback"
          OBVIOUS
        <4> QED BY <4>1
      <3>2. \A k \in 1 .. N : Outer(k) \in Contracts
        BY <1>1, ContractParts DEF StepsRight
      <3>3. \A k \in 1 .. N : P[Outer(k)] = <<"callback", x, 0>> /\ Unused(k, P, C) => Unused(k, P2, C2)
        BY <3>1, <3>2
      <3>4. Unrun(x, Q2) => Unrun(x, Q)
        BY DEF Unrun
      <3>5. CallbackRight(x, P, C, Q) /\ callback'[x] = callback[x]
        BY <2>0 DEF ContractRight
      <3> HIDE DEF Begins
      <3> QED BY <3>1, <3>3, <3>4, <3>5, CallbackStays
    <2>2. PoolRight(x, P2, Q2)'
      BY <1>1, <2>0 DEF ContractRight, PoolRight, Nothing, IsFuture
    <2>3. WordRight(x, P2, C2, Q2)'
      <3>1. /\ P[x][1] = "done" => P2[x][1] = "done"
            /\ C[x][1] = "done" => C2[x][1] = "done"
            /\ Unrun(x, Q2) => Unrun(x, Q)
            /\ Q2[x][1] # "no" <=> Q[x][1] # "no"
        BY DEF Unrun
      <3>2. Unrun(x, Q2)' <=> Unrun(x, Q2)
        BY DEF Unrun
      <3> QED BY <2>0, <3>1, <3>2 DEF ContractRight, WordRight, Nothing, None
    <2>4. ValueRight(x, C2)'
      <3>1. \A y \in Contracts : C[y] = <<"value", x, 0>> => C2[y] = C[y]
        <4>1. \A y \in Contracts : C[y] = <<"value", x, 0>> => C[y][1] = "value"
          OBVIOUS
        <4> QED BY <4>1
      <3>2. ValueRight(x, C) /\ value'[x] = value[x]
        BY <2>0 DEF ContractRight
      <3> HIDE DEF Begins
      <3> QED BY <3>1, <3>2, ValueStays
    <2>5. HeapRight(x, P2, Q2)'
      <3>1. Q2[x][1] # "gone" => Q[x][1] # "gone"
        OBVIOUS
      <3>2. P2[x] = P[x] => (Born(x, P2) <=> Born(x, P))
        BY DEF Born
      <3>3. Born(x, P2)' <=> Born(x, P2)
        BY DEF Born
      <3> QED BY <1>1, <2>0, <3>1, <3>2, <3>3 DEF ContractRight, HeapRight
    <2>6. AheadRight(x, P2, C2)'
      <3>1. P2[x] # P[x] => Born(x, P2)
        BY DEF Born
      <3>2. P2[x] = P[x] => (Born(x, P2) <=> Born(x, P))
        BY DEF Born
      <3>3. Born(x, P2)' <=> Born(x, P2)
        BY DEF Born
      <3> QED BY <2>0, <3>1, <3>2, <3>3 DEF ContractRight, AheadRight
    <2>7. UserRight(x, P2)'
      <3>1. CASE P2[x] = P[x]
        BY <1>3, <2>0, <3>1, UsersStay DEF ContractRight
      <3>2. CASE P2[x] # P[x]
        BY <3>2 DEF UserRight
      <3> QED BY <3>1, <3>2
    <2> QED BY <2>1, <2>2, <2>3, <2>4, <2>5, <2>6, <2>7 DEF ContractRight
  <1> QED BY <1>1, <1>5, <1>6 DEF Owned

LEMMA WorkOwned ==
  ASSUME Typed, NEW w \in Workers, NEW P, NEW C, NEW Q, Owned(P, C, Q), Work(w)
  PROVE  \E P2, C2, Q2 : Owned(P2, C2, Q2)'
  <1>1. /\ StepsRight /\ steps' = steps /\ N' = N /\ Contracts' = Contracts /\ Cts' = Cts
        /\ Callbacks' = Callbacks
    BY TypesStay DEF Typed, Work
  <1>2. /\ Idle(w) /\ w \in Threads /\ w # Promiser
        /\ UNCHANGED <<built, future, promise, heap, word, value, callback, task>>
    BY ThreadsApart DEF Work
  <1>3. PICK job \in pool :
          /\ pool' = pool \ {job}
          /\ Enter(w, IF job[1] = "contract"
                        THEN <<Frame("run", job[2], Nothing)>>
                        ELSE <<SetValue(job[2], task[job[2]]), Frame("free", job[2], Nothing)>>)
    BY DEF Work
  <1>4. PICK c : c = job[2]
    OBVIOUS
  <1>5. c \in Contracts /\ (job = <<"contract", c>> \/ job = <<"task", c>>) /\ job[1] \in {"contract", "task"}
    BY <1>3, <1>4 DEF Typed
  <1>6. PoolRight(c, P, Q) /\ Nothing \in Values
    BY <1>1, <1>5, ValueParts DEF Owned, ContractRight
  <1>7. 0 \in Nat
    OBVIOUS
  <1>8. CASE job = <<"contract", c>>
    <2>1. c \in Cts /\ Q[c][1] = "pool" /\ job[1] = "contract"
      BY <1>3, <1>6, <1>8 DEF PoolRight
    <2>2. PICK g : g = Frame("run", c, Nothing)
      OBVIOUS
    <2>3. g.at = "run" /\ g.c = c /\ g \in Frames /\ <<g>> \in Seq(Frames)
      <3>1. g \in Frames
        BY <1>1, <1>5, <1>6, <2>2, FramesAreTyped DEF Labels
      <3> QED BY <2>2, <3>1, FrameFields
    <2>4. Enter(w, <<g>>)
      BY <1>3, <1>4, <2>1, <2>2
    <2>5. Changes(w, 0, <<g>>)
      BY <1>2, <2>3, <2>4, EnterChanges
    <2>6. PICK Q2 : Q2 = [x \in Contracts |-> IF x = c THEN <<"run", w, 0 + 1>> ELSE Q[x]]
      OBVIOUS
    <2>7. Q2[c] = <<"run", w, 0 + 1>> /\ Q2[c][1] = "run" /\ \A x \in Contracts : x # c => Q2[x] = Q[x]
      BY <1>5, <2>6
    <2>8. FrameRight(g, w, 0 + 1, P, C, Q2)'
      BY <1>1, <2>1, <2>3, <2>7 DEF FrameRight
    <2>9. \A i \in 1 .. Len(<<g>>) : FrameRight(<<g>>[Len(<<g>>) - i + 1], w, 0 + i, P, C, Q2)'
      BY <1>7, <2>8, OneFrame
    <2>10. Begins(P, C, Q, P, C, Q2)
      BY <1>2, <1>3, <1>8, <2>1, <2>7 DEF Begins
    <2>11. BuilderRight(P, C)'
      <3>1. BuilderRight(P, C) /\ \A u \in Threads \ {w} : stack'[u] = stack[u]
        BY <2>5 DEF Owned, Changes
      <3> QED BY <1>1, <1>2, <3>1, BuilderStays
    <2>12. Owned(P, C, Q2)'
      BY <1>1, <1>2, <2>3, <2>5, <2>9, <2>10, <2>11, BeginsOwned
    <2> QED BY <2>12
  <1>9. CASE job = <<"task", c>>
    <2>1. /\ c \in Cts /\ P[c][1] = "task" /\ job[1] = "task"
          /\ task[c] # Nothing /\ ~ IsFuture(task[c]) /\ task[c] \in Values
      BY <1>3, <1>5, <1>6, <1>9 DEF PoolRight, Typed
    <2>2. PICK v, g, h : v = task[c] /\ g = SetValue(c, v) /\ h = Frame("free", c, Nothing)
      OBVIOUS
    <2>3. /\ g.at = "set" /\ g.c = c /\ g.v = v /\ h.at = "free" /\ h.c = c
          /\ <<g, h>> \in Seq(Frames)
      <3>1. g \in Frames /\ h \in Frames
        BY <1>1, <1>5, <1>6, <2>1, <2>2, FramesAreTyped, FrameFields DEF Labels
      <3> QED BY <2>2, <3>1, FrameFields
    <2>4. Enter(w, <<g, h>>)
      BY <1>3, <1>4, <2>1, <2>2
    <2>5. Changes(w, 0, <<g, h>>)
      BY <1>2, <2>3, <2>4, EnterChanges
    <2>6. PICK P2 : P2 = [x \in Contracts |-> IF x = c THEN <<"frame", w, 0 + 2>> ELSE P[x]]
      OBVIOUS
    <2>7. P2[c] = <<"frame", w, 0 + 2>> /\ P2[c][1] = "frame" /\ \A x \in Contracts : x # c => P2[x] = P[x]
      BY <1>5, <2>6
    <2>8. FrameRight(g, w, 0 + 2, P2, C, Q)' /\ FrameRight(h, w, 0 + 1, P2, C, Q)'
      BY <1>1, <2>1, <2>2, <2>3, <2>7 DEF FrameRight, Nothing, IsFuture
    <2>9. \A i \in 1 .. Len(<<g, h>>) : FrameRight(<<g, h>>[Len(<<g, h>>) - i + 1], w, 0 + i, P2, C, Q)'
      BY <1>7, <2>8, TwoFrames
    <2>10. Begins(P, C, Q, P2, C, Q)
      BY <1>2, <1>3, <1>9, <2>1, <2>7 DEF Begins, Born
    <2>11. BuilderRight(P2, C)'
      <3>1. BuilderRight(P, C) /\ \A u \in Threads \ {w} : stack'[u] = stack[u]
        BY <2>5 DEF Owned, Changes
      <3>2. \A x \in Contracts : P[x][1] \in {"none", "promise"} => P2[x] = P[x]
        BY <2>1, <2>7
      <3> QED BY <1>1, <1>2, <3>1, <3>2, BuilderStays
    <2>12. \A k \in 1 .. N : Unused(k, P, C) => Unused(k, P2, C)
      <3>1. \A k \in 1 .. N : Inner(k) \in Contracts
        BY <1>1, ContractParts DEF StepsRight
      <3> QED BY <2>1, <2>7, <3>1 DEF Unused
    <2>13. Owned(P2, C, Q)'
      BY <1>1, <1>2, <2>3, <2>5, <2>9, <2>10, <2>11, <2>12, BeginsOwned
    <2> QED BY <2>13
  <1> QED BY <1>5, <1>8, <1>9

LEMMA SetOwned ==
  ASSUME Typed, NEW P, NEW C, NEW Q, Owned(P, C, Q), Set
  PROVE  \E P2, C2, Q2 : Owned(P2, C2, Q2)'
  <1>1. /\ StepsRight /\ steps' = steps /\ N' = N /\ Contracts' = Contracts /\ Cts' = Cts
        /\ Callbacks' = Callbacks
    BY TypesStay DEF Typed, Set
  <1>2. PICK c, v, g : c = promise /\ v = Outcome(0, Nothing) /\ g = SetValue(c, v)
    OBVIOUS
  <1>3. BuilderRight(P, C)
    BY DEF Owned
  <1>4. /\ c \in Cts /\ c \in Contracts /\ P[c][1] = "promise" /\ Idle(Promiser)
        /\ Promiser \in Threads /\ promise' = None /\ Enter(Promiser, <<g>>)
        /\ UNCHANGED <<built, future, heap, word, value, callback, task, pool>>
    BY <1>2, <1>3, ThreadsApart DEF BuilderRight, Set, Cts
  <1>5. v \in Values /\ v # Nothing /\ ~ IsFuture(v) /\ 0 \in Nat
    BY <1>1, <1>2, ValueParts, OutcomeIsResult
  <1>6. g.at = "set" /\ g.c = c /\ g.v = v /\ g \in Frames /\ <<g>> \in Seq(Frames)
    <2>1. g \in Frames
      BY <1>1, <1>2, <1>4, <1>5, FramesAreTyped, FrameFields DEF Labels
    <2> QED BY <1>2, <2>1, FrameFields
  <1>7. Changes(Promiser, 0, <<g>>)
    <2>1. Typed /\ Promiser \in Threads /\ Idle(Promiser) /\ <<g>> \in Seq(Frames) /\ Enter(Promiser, <<g>>)
      BY <1>4, <1>6
    <2> QED BY <2>1, EnterChanges
  <1>8. PICK P2 : P2 = [x \in Contracts |-> IF x = c THEN <<"frame", Promiser, 0 + 1>> ELSE P[x]]
    OBVIOUS
  <1>9. /\ P2[c] = <<"frame", Promiser, 0 + 1>> /\ P2[c][1] = "frame"
        /\ \A x \in Contracts : x # c => P2[x] = P[x]
    BY <1>4, <1>8
  <1>10. FrameRight(g, Promiser, 0 + 1, P2, C, Q)'
    BY <1>1, <1>4, <1>5, <1>6, <1>9 DEF FrameRight, Nothing, IsFuture, Promiser
  <1>11. \A i \in 1 .. Len(<<g>>) : FrameRight(<<g>>[Len(<<g>>) - i + 1], Promiser, 0 + i, P2, C, Q)'
    <2>1. PICK t : t = Promiser
      OBVIOUS
    <2>2. FrameRight(g, t, 0 + 1, P2, C, Q)'
      BY <1>10, <2>1 DEF Promiser
    <2>3. \A i \in 1 .. Len(<<g>>) : FrameRight(<<g>>[Len(<<g>>) - i + 1], t, 0 + i, P2, C, Q)'
      BY <1>5, <2>2, OneFrame
    <2> QED BY <2>1, <2>3 DEF Promiser
  <1>12. Begins(P, C, Q, P2, C, Q)
    <2>1. PoolRight(c, P, Q)
      BY <1>4 DEF Owned, ContractRight
    <2>2. <<"task", c>> \notin pool
      BY <1>4, <2>1 DEF PoolRight
    <2> QED BY <1>4, <1>9, <2>2 DEF Begins, Born
  <1>13. \A k \in 1 .. N : Unused(k, P, C) => Unused(k, P2, C)
    <2>1. \A k \in 1 .. N : Inner(k) \in Contracts
      BY <1>1, ContractParts DEF StepsRight
    <2> QED BY <1>4, <1>9, <2>1 DEF Unused
  <1>14. BuilderRight(P2, C)'
    <2>1. built # 0
      <3> SUFFICES ASSUME built = 0 PROVE FALSE
        OBVIOUS
      <3>1. c[1] \in 0 .. N /\ (c = Outer(c[1]) \/ c = Inner(c[1]))
        BY <1>1, <1>4, ContractParts
      <3>2. P[c][1] = "none"
        BY <1>3, <3>1 DEF BuilderRight, Unused
      <3> QED BY <1>4, <3>2
    <2>2. \A k \in built .. N :
             P2[Outer(k)][1] = "none" /\ C[Outer(k)][1] = "none" /\ Unused(k, P2, C)
      <3>1. \A k \in built .. N : k \in 0 .. N
        BY <1>1 DEF Typed, StepsRight
      <3>2. \A k \in built .. N : Outer(k) \in Contracts /\ Inner(k) \in Contracts
        BY <1>1, <3>1, ContractParts
      <3> QED BY <1>3, <1>4, <1>9, <3>2 DEF BuilderRight, Unused
    <2>3. \A k : Unused(k, P2, C)' <=> Unused(k, P2, C)
      BY DEF Unused, Inner
    <2> QED BY <1>1, <1>3, <1>4, <2>1, <2>2, <2>3 DEF BuilderRight, None, Outer
  <1>15. Owned(P2, C, Q)'
    <2>1. heap \subseteq heap' /\ UNCHANGED <<word, value, callback>>
      BY <1>4
    <2> QED BY <1>1, <1>4, <1>6, <1>7, <1>11, <1>12, <1>13, <1>14, <2>1, BeginsOwned
  <1> QED BY <1>15

\* What the three ways to make the first contract c leave with thread t, and where p
\* puts the duty to set its value v.
Makes(p, fs, t, c, v, g) ==
    /\ fs = <<>> \/ (fs = <<g>> /\ p = <<"frame", t, 0 + 1>>)
    /\ promise' = promise \/ (promise' = c /\ p[1] = "promise")
    /\ \/ pool' = pool /\ task' = task
       \/ /\ pool' = pool \union {<<"task", c>>} /\ task' = [task EXCEPT ![c] = v]
          /\ p[1] = "task" /\ <<"task", c>> \in heap'

\* The first contract: its value is set by the builder, by the promiser or by a task.
LEMMA MakeOwned ==
  ASSUME Typed, Typed', NEW P, NEW C, NEW Q, Owned(P, C, Q), MakeReady \/ MakeContract \/ MakeSubmitted
  PROVE  \E P2, C2, Q2 : Owned(P2, C2, Q2)'
  <1>1. /\ StepsRight /\ steps' = steps /\ N' = N /\ Contracts' = Contracts /\ Cts' = Cts
        /\ Callbacks' = Callbacks
    BY TypesStay DEF Typed, MakeReady, MakeContract, MakeSubmitted, Make
  <1>2. BuilderRight(P, C)
    BY DEF Owned
  <1>3. PICK t, c, v, g : t = Builder /\ c = Outer(0) /\ v = Outcome(0, Nothing) /\ g = SetValue(c, v)
    OBVIOUS
  <1>4. /\ t \in Threads /\ t # Promiser /\ Idle(t) /\ built = 0 /\ built' = 1
        /\ future' = FutureOf(c, "Inline") /\ <<"contract", c>> \in heap' /\ heap \subseteq heap'
        /\ UNCHANGED <<word, value, callback>>
    BY <1>3, ThreadsApart DEF MakeReady, MakeContract, MakeSubmitted, Make, Now, Create, Submit
  <1>5. c \in Contracts /\ c \in Cts /\ c # None /\ N \in Nat /\ N >= 1
    <2>1. N \in Nat /\ N >= 1 /\ 0 \in 0 .. N /\ 0 # N
      BY <1>1 DEF StepsRight
    <2> QED BY <1>1, <1>3, <2>1, ContractParts DEF Cts
  <1>6. P[c][1] = "none" /\ C[c][1] = "none" /\ Idle(Promiser)
    <2>1. 0 \in built .. N
      BY <1>4, <1>5
    <2> QED BY <1>2, <1>3, <1>4, <2>1 DEF BuilderRight
  <1>7. v \in Values /\ v # Nothing /\ ~ IsFuture(v) /\ 0 \in Nat
    BY <1>1, <1>3, ValueParts, OutcomeIsResult
  <1>8. g.at = "set" /\ g.c = c /\ g.v = v /\ g \in Frames /\ <<g>> \in Seq(Frames) /\ <<>> \in Seq(Frames)
    <2>1. g \in Frames
      BY <1>1, <1>3, <1>5, <1>7, FramesAreTyped, FrameFields DEF Labels
    <2> QED BY <1>3, <2>1, FrameFields
  <1>9. PICK C2 : C2 = [x \in Contracts |-> IF x = c THEN <<"future">> ELSE C[x]]
    OBVIOUS
  <1>10. C2[c][1] = "future" /\ \A x \in Contracts : x # c => C2[x] = C[x]
    BY <1>5, <1>9
  <1>11. \A k \in 0 .. N : Outer(k) \in Contracts /\ Inner(k) \in Contracts /\ Inner(k) # c /\ (Outer(k) = c => k = 0)
    BY <1>1, <1>3, ContractParts
  <1>12. ASSUME NEW p, p[1] \in {"frame", "promise", "task"},
                NEW fs \in Seq(Frames), Changes(t, 0, fs),
                Makes(p, fs, t, c, v, g)
         PROVE  \E P2 : Owned(P2, C2, Q)'
    <2> USE DEF Makes
    <2>1. PICK P2 : P2 = [x \in Contracts |-> IF x = c THEN p ELSE P[x]]
      OBVIOUS
    <2>2. P2[c] = p /\ \A x \in Contracts : x # c => P2[x] = P[x]
      BY <1>5, <2>1
    <2>3. \A i \in 1 .. Len(fs) : FrameRight(fs[Len(fs) - i + 1], t, 0 + i, P2, C2, Q)'
      <3>1. CASE fs = <<>>
        BY <3>1
      <3>2. CASE fs = <<g>> /\ p = <<"frame", t, 0 + 1>>
        <4>1. FrameRight(g, t, 0 + 1, P2, C2, Q)'
          BY <1>1, <1>5, <1>7, <1>8, <2>2, <3>2 DEF FrameRight, Nothing, IsFuture
        <4> QED BY <1>7, <3>2, <4>1, OneFrame
      <3> QED BY <1>12, <3>1, <3>2
    <2>4. Begins(P, C, Q, P2, C2, Q)
      <3>1. PoolRight(c, P, Q)
        BY <1>5 DEF Owned, ContractRight
      <3>2. <<"task", c>> \notin pool
        BY <1>6, <3>1 DEF PoolRight
      <3>3. Born(c, P2)
        BY <1>12, <2>2 DEF Born
      <3>4. \A x \in Contracts : \/ P2[x] = P[x]
                                 \/ P[x][1] = "none" /\ P2[x][1] \in {"frame", "promise", "task"}
                                    /\ <<"contract", x>> \in heap'
        BY <1>4, <1>6, <1>12, <2>2
      <3>5. \A x \in Contracts : C2[x] = C[x] \/ (C[x][1] = "none" /\ C2[x][1] = "future" /\ Born(x, P2))
        BY <1>6, <1>10, <3>3
      <3>6. \A x \in Contracts : <<"task", x>> \in pool' =>
              \/ <<"task", x>> \in pool /\ task'[x] = task[x] /\ P2[x] = P[x]
              \/ /\ x \in Cts /\ P2[x][1] = "task" /\ <<"task", x>> \in heap'
                 /\ task'[x] # Nothing /\ ~ IsFuture(task'[x])
        <4>1. CASE pool' = pool /\ task' = task
          BY <2>2, <3>2, <4>1
        <4>2. CASE /\ pool' = pool \union {<<"task", c>>} /\ task' = [task EXCEPT ![c] = v]
                   /\ p[1] = "task" /\ <<"task", c>> \in heap'
          <5>1. task'[c] = v /\ \A x \in Contracts : x # c => task'[x] = task[x]
            BY <1>5, <4>2 DEF Typed
          <5> QED BY <1>5, <1>7, <2>2, <4>2, <5>1
        <4> QED BY <1>12, <4>1, <4>2
      <3>7. \A x \in Contracts : <<"contract", x>> \in pool' => <<"contract", x>> \in pool
        BY <1>12
      <3> QED BY <3>4, <3>5, <3>6, <3>7 DEF Begins
    <2>5. \A k \in 0 .. N : Unused(k, P, C) => Unused(k, P2, C2)
      BY <1>10, <1>11, <2>2 DEF Unused
    <2>6. BuilderRight(P2, C2)'
      <3>1. \A k \in 1 .. N : P2[Outer(k)][1] = "none" /\ C2[Outer(k)][1] = "none" /\ Unused(k, P2, C2)
        <4>1. \A k \in 1 .. N : k \in 0 .. N /\ k \in built .. N /\ k # 0
          BY <1>4, <1>5
        <4> QED BY <1>2, <1>10, <1>11, <2>2, <2>5, <4>1 DEF BuilderRight
      <3>2. promise' # None => promise' \in Cts /\ P2[promise'][1] = "promise"
        <4>1. promise # None => promise \in Contracts /\ promise # c /\ P[promise][1] = "promise" /\ promise \in Cts
          BY <1>2, <1>6 DEF BuilderRight, Cts
        <4> QED BY <1>5, <1>12, <2>2, <4>1
      <3>3. stack'[Promiser] = stack[Promiser]
        BY <1>4, <1>12, ThreadsApart DEF Changes
      <3>4. future'.state = c
        BY <1>4 DEF FutureOf
      <3>5. \A k : Unused(k, P2, C2)' <=> Unused(k, P2, C2)
        BY DEF Unused, Inner
      <3>6. Idle(Promiser)'
        BY <1>6, <3>3 DEF Idle, Promiser
      <3> QED BY <1>1, <1>4, <1>5, <1>10, <3>1, <3>2, <3>4, <3>5, <3>6 DEF BuilderRight, None, Outer
    <2>7. Owned(P2, C2, Q)'
      <3>1. \A k \in 1 .. N : Unused(k, P, C) => Unused(k, P2, C2)
        BY <1>5, <2>5
      <3> QED BY <1>1, <1>4, <1>12, <2>3, <2>4, <2>6, <3>1, BeginsOwned
    <2> QED BY <2>7
  <1>13. ASSUME stack' = stack PROVE Changes(t, 0, <<>>)
    BY <1>4, <1>13 DEF Changes, Idle
  <1>14. CASE MakeReady
    <2>1. Enter(t, <<g>>) /\ promise' = promise /\ pool' = pool /\ task' = task
      BY <1>3, <1>14 DEF MakeReady
    <2>2. Changes(t, 0, <<g>>)
      BY <1>4, <1>8, <2>1, EnterChanges
    <2>3. PICK p : p = <<"frame", t, 0 + 1>>
      OBVIOUS
    <2>4. p[1] \in {"frame", "promise", "task"}
      BY <2>3
    <2>5. PICK fs : fs = <<g>>
      OBVIOUS
    <2>6. Makes(p, fs, t, c, v, g) /\ fs \in Seq(Frames) /\ Changes(t, 0, fs)
      BY <1>8, <2>1, <2>2, <2>3, <2>5 DEF Makes
    <2>7. \E P2 : Owned(P2, C2, Q)'
      BY <1>12, <2>4, <2>6
    <2> QED BY <2>7
  <1>15. CASE MakeContract
    <2>1. stack' = stack /\ promise' = c /\ pool' = pool /\ task' = task
      BY <1>3, <1>15 DEF MakeContract
    <2>2. PICK p, fs : p = <<"promise", c, 0>> /\ fs = <<>>
      OBVIOUS
    <2>3. p[1] = "promise" /\ fs \in Seq(Frames) /\ Changes(t, 0, fs)
      BY <1>8, <1>13, <2>1, <2>2
    <2>4. Makes(p, fs, t, c, v, g)
      BY <2>1, <2>2, <2>3 DEF Makes
    <2>5. \E P2 : Owned(P2, C2, Q)'
      BY <1>12, <2>3, <2>4
    <2> QED BY <2>5
  <1>16. CASE MakeSubmitted
    <2>1. /\ stack' = stack /\ promise' = promise /\ pool' = pool \union {<<"task", c>>}
          /\ task' = [task EXCEPT ![c] = v] /\ <<"task", c>> \in heap'
      BY <1>3, <1>16 DEF MakeSubmitted, Submit
    <2>2. PICK p, fs : p = <<"task", c, 0>> /\ fs = <<>>
      OBVIOUS
    <2>3. p[1] = "task" /\ fs \in Seq(Frames) /\ Changes(t, 0, fs)
      BY <1>8, <1>13, <2>1, <2>2
    <2>4. Makes(p, fs, t, c, v, g)
      BY <2>1, <2>2, <2>3 DEF Makes
    <2>5. \E P2 : Owned(P2, C2, Q)'
      BY <1>12, <2>3, <2>4
    <2> QED BY <2>5
  <1> QED BY <1>14, <1>15, <1>16

LEMMA ConsumesOwned ==
  ASSUME Typed, Typed', NEW P, NEW C, NEW Q, Owned(P, C, Q), NEW k \in 1 .. N, Combine(k) \/ Terminate(k)
  PROVE  \E P2, C2, Q2 : Owned(P2, C2, Q2)'
  <1>1. /\ StepsRight /\ steps' = steps /\ N' = N /\ Contracts' = Contracts /\ Cts' = Cts
        /\ Callbacks' = Callbacks
    BY TypesStay DEF Typed, Combine, Terminate
  <1>2. BuilderRight(P, C)
    BY DEF Owned
  <1>3. PICK t, s, o, g : /\ t = Builder /\ s = future.state /\ o = Outer(k)
                          /\ g = Consume(s, k, ConsumesOn(k))
    OBVIOUS
  <1>4. /\ t \in Threads /\ t # Promiser /\ Idle(t) /\ built = k /\ built' = k + 1
        /\ Enter(t, <<g>>) /\ heap \subseteq heap'
        /\ UNCHANGED <<promise, word, value, callback, task, pool>>
    BY <1>3, ThreadsApart DEF Combine, Terminate, Now, Create
  <1>5. N \in Nat /\ N >= 1 /\ k \in 0 .. N /\ k \in built .. N /\ k + 1 # 0
    BY <1>1, <1>4 DEF StepsRight
  <1>6. s \in Cts /\ s \in Contracts /\ C[s][1] = "future" /\ s # None
    BY <1>2, <1>3, <1>4, <1>5 DEF BuilderRight, Cts
  <1>7. /\ o \in Contracts /\ Inner(k) \in Contracts /\ o # Inner(k) /\ o # None /\ o[1] = k /\ o[2] = "outer"
        /\ P[o][1] = "none" /\ C[o][1] = "none" /\ Unused(k, P, C) /\ s # o
        /\ o \in Callbacks
    <2>1. steps[k].pipe # "Via"
      BY DEF Combine, Terminate
    <2>2. o \in Callbacks
      BY <1>3, <2>1 DEF Callbacks, Consumers
    <2>3. P[o][1] = "none" /\ C[o][1] = "none" /\ Unused(k, P, C)
      BY <1>2, <1>3, <1>5 DEF BuilderRight
    <2>4. s # o
      BY <1>6, <2>3
    <2> QED BY <1>1, <1>3, <1>5, <2>2, <2>3, <2>4, ContractParts
  <1>8. /\ \/ o \in Cts /\ <<"contract", o>> \in heap' /\ future'.state = o
           \/ o \notin Cts /\ future'.state = None /\ k = N
    <2>1. CASE Combine(k)
      <3>1. k # N
        BY <1>1, <2>1 DEF Combine, StepsRight
      <3>2. o # Outer(N)
        BY <1>1, <1>3, <3>1, ContractParts
      <3> QED BY <1>3, <1>7, <2>1, <3>2 DEF Cts, Combine, Create, PassOn, FutureOf
    <2>2. CASE Terminate(k)
      <3>1. k = N
        BY <1>1, <2>2 DEF Terminate, StepsRight
      <3> QED BY <1>3, <2>2, <3>1 DEF Cts, Terminate, FutureOf
    <2> QED BY <2>1, <2>2
  <1>9. g.at = "attach" /\ g.c = s /\ g.cb = o /\ <<g>> \in Seq(Frames) /\ 0 \in Nat
    <2>1. ConsumesOn(k) \in {"Inline", "Pool"}
      BY DEF ConsumesOn, Typed
    <2>2. g \in Frames
      BY <1>1, <1>3, <1>5, <1>6, <2>1, FramesAreTyped
    <2> QED BY <1>3, <2>2, FrameFields
  <1>10. Changes(t, 0, <<g>>)
    BY <1>4, <1>9, EnterChanges
  <1>11. PICK P2, C2 : /\ P2 = [x \in Contracts |-> IF x = o THEN <<"frame", t, 0 + 1>> ELSE P[x]]
                       /\ C2 = [x \in Contracts |-> IF x = s THEN <<"frame", t, 0 + 1>>
                                                    ELSE IF x = o THEN <<"future">> ELSE C[x]]
    OBVIOUS
  <1>12. /\ P2[o] = <<"frame", t, 0 + 1>> /\ P2[o][1] = "frame" /\ \A x \in Contracts : x # o => P2[x] = P[x]
         /\ C2[s] = <<"frame", t, 0 + 1>> /\ C2[s][1] = "frame" /\ C2[o][1] = "future"
         /\ \A x \in Contracts : x # s /\ x # o => C2[x] = C[x]
    BY <1>6, <1>7, <1>11
  <1>13. \A j \in 1 .. N : Unused(j, P, C) => Unused(j, P2, C2)
    <2>1. \A j \in 1 .. N : Inner(j) \in Contracts /\ Inner(j) # o
      BY <1>1, <1>3, ContractParts DEF StepsRight
    <2> QED BY <1>6, <1>12, <2>1 DEF Unused
  <1>14. FrameRight(g, t, 0 + 1, P2, C2, Q)'
    <2>1. Unused(k, P2, C2) /\ Outer(g.cb[1]) = o /\ g.cb[1] = k
      BY <1>3, <1>7, <1>9, <1>13
    <2> QED BY <1>1, <1>6, <1>7, <1>9, <1>12, <2>1 DEF FrameRight, Unused, Inner, Outer
  <1>15. \A i \in 1 .. Len(<<g>>) : FrameRight(<<g>>[Len(<<g>>) - i + 1], t, 0 + i, P2, C2, Q)'
    BY <1>9, <1>14, OneFrame
  <1>16. Begins(P, C, Q, P2, C2, Q)
    <2>1. PoolRight(o, P, Q) /\ AheadRight(s, P, C)
      BY <1>6, <1>7 DEF Owned, ContractRight
    <2>2. <<"task", o>> \notin pool
      BY <1>7, <2>1 DEF PoolRight
    <2>3. Born(o, P2) /\ Born(s, P2)
      <3>1. Born(s, P)
        BY <1>6, <2>1 DEF AheadRight
      <3> QED BY <1>6, <1>7, <1>12, <3>1 DEF Born
    <2>4. \A x \in Contracts : \/ P2[x] = P[x]
                               \/ P[x][1] = "none" /\ P2[x][1] = "frame"
                                  /\ (x \in Cts => <<"contract", x>> \in heap')
      BY <1>7, <1>8, <1>12
    <2>5. \A x \in Contracts : \/ C2[x] = C[x]
                               \/ C[x][1] \in {"none", "future"} /\ C2[x][1] \in {"frame", "future"} /\ Born(x, P2)
      BY <1>6, <1>7, <1>12, <2>3
    <2>6. \A x \in Contracts : <<"task", x>> \in pool' => <<"task", x>> \in pool /\ task'[x] = task[x] /\ P2[x] = P[x]
      BY <1>4, <1>12, <2>2
    <2>7. \A x \in Contracts : <<"contract", x>> \in pool' => <<"contract", x>> \in pool
      BY <1>4
    <2> QED BY <2>4, <2>5, <2>6, <2>7 DEF Begins
  <1>17. BuilderRight(P2, C2)'
    <2>1. ASSUME NEW j \in k + 1 .. N
          PROVE  P2[Outer(j)][1] = "none" /\ C2[Outer(j)][1] = "none" /\ Unused(j, P2, C2)
      <3>1. j \in built .. N /\ j \in 0 .. N /\ j \in 1 .. N /\ j # k
        BY <1>4, <1>5
      <3>2. P[Outer(j)][1] = "none" /\ C[Outer(j)][1] = "none" /\ Unused(j, P, C)
        BY <1>2, <3>1 DEF BuilderRight
      <3>3. Outer(j) \in Contracts /\ Outer(j) # o
        BY <1>1, <1>3, <3>1, ContractParts
      <3> QED BY <1>6, <1>12, <1>13, <3>1, <3>2, <3>3
    <2>2. promise # None => promise \in Cts /\ P2[promise][1] = "promise"
      BY <1>2, <1>7, <1>12 DEF BuilderRight, Cts
    <2>3. stack'[Promiser] = stack[Promiser]
      BY <1>10, <1>4, ThreadsApart DEF Changes
    <2>4. promise # None => Idle(Promiser)'
      BY <1>2, <2>3 DEF BuilderRight, Idle, Promiser
    <2>5. \A j : Unused(j, P2, C2)' <=> Unused(j, P2, C2)
      BY DEF Unused, Inner
    <2>6. future'.state # None => future'.state \in Cts /\ C2[future'.state][1] = "future"
      BY <1>8, <1>12
    <2>7. k + 1 \in 1 .. N => future'.state # None
      BY <1>5, <1>7, <1>8
    <2> QED BY <1>1, <1>4, <1>5, <2>1, <2>2, <2>4, <2>5, <2>6, <2>7 DEF BuilderRight, None, Outer
  <1>18. Owned(P2, C2, Q)'
    BY <1>1, <1>4, <1>9, <1>10, <1>13, <1>15, <1>16, <1>17, BeginsOwned
  <1> QED BY <1>18

LEMMA OwnedStays ==
  ASSUME Typed, NEW P, NEW C, NEW Q, Owned(P, C, Q),
         UNCHANGED <<steps, heap, word, value, callback, task, pool, stack>>, BuilderRight(P, C)'
  PROVE  Owned(P, C, Q)'
  <1>1. /\ StepsRight /\ N' = N /\ Contracts' = Contracts /\ Cts' = Cts
        /\ Callbacks' = Callbacks
    BY TypesStay DEF Typed
  <1>2. FramesRight(P, C, Q)'
    <2>1. \A t \in Threads : \A d : Fr(stack[t], d)' = Fr(stack[t], d)
      BY DEF Fr
    <2>2. PICK s : s = stack
      OBVIOUS
    <2>3. \A t \in Threads : \A d \in 1 .. Len(s[t]) : FrameRight(Fr(s[t], d), t, d, P, C, Q)
      BY <2>2 DEF Owned, FramesRight
    <2>4. ASSUME NEW f, NEW t, NEW d, FrameRight(f, t, d, P, C, Q)
          PROVE  FrameRight(f, t, d, P, C, Q)'
      BY <1>1, <2>4 DEF FrameRight, IsFuture, Nothing, None, Sub, Inner, Outer, Unused
    <2>5. \A t \in Threads : \A d \in 1 .. Len(s[t]) : FrameRight(Fr(s[t], d), t, d, P, C, Q)'
      BY <2>3, <2>4
    <2>6. s = stack'
      BY <2>2
    <2>7. ASSUME NEW t \in Threads, NEW d \in 1 .. Len(stack'[t])
          PROVE  \A g : g = Fr(stack'[t], d) => FrameRight(g, t, d, P, C, Q)'
      BY <2>5, <2>6
    <2> QED BY ZenonT(40), <2>7 DEF FramesRight, FrameRight
  <1>3. ASSUME NEW x \in Contracts PROVE ContractRight(x, P, C, Q)'
    <2>1. ContractRight(x, P, C, Q)
      BY DEF Owned
    <2>2. CallbackRight(x, P, C, Q)'
      BY <2>1, CallbackStays DEF ContractRight
    <2>3. PoolRight(x, P, Q)' /\ WordRight(x, P, C, Q)' /\ HeapRight(x, P, Q)' /\ AheadRight(x, P, C)'
      BY <1>1, <2>1 DEF ContractRight, PoolRight, WordRight, HeapRight, AheadRight, Born, Unrun, Nothing, None, IsFuture
    <2>4. ValueRight(x, C)'
      BY <2>1, ValueStays DEF ContractRight
    <2>5. UserRight(x, P)'
      BY <2>1 DEF ContractRight, UserRight, Fr
    <2> QED BY <2>2, <2>3, <2>4, <2>5 DEF ContractRight
  <1> QED BY <1>1, <1>2, <1>3 DEF Owned

LEMMA RestOwned ==
  ASSUME Typed, NEW P, NEW C, NEW Q, Owned(P, C, Q),
         (\E k \in 1 .. N : Via(k)) \/ Return \/ UNCHANGED vars
  PROVE  Owned(P, C, Q)'
  <1>1. /\ UNCHANGED <<steps, heap, word, value, callback, task, pool, stack, promise>>
        /\ future'.state = future.state
        /\ built' = built \/ (built \in 1 .. N /\ built' = built + 1)
    BY DEF Via, Now, FutureOf, Return, vars
  <1>2. /\ StepsRight /\ N' = N /\ Contracts' = Contracts /\ Cts' = Cts
    BY <1>1, TypesStay DEF Typed
  <1>3. BuilderRight(P, C)
    BY DEF Owned
  <1>4. N \in Nat /\ built \in 0 .. N + 1
    BY <1>2 DEF Typed, StepsRight
  <1>5. \A k \in built' .. N : k \in built .. N
    BY <1>1, <1>4
  <1>6. \A k : Unused(k, P, C)' <=> Unused(k, P, C)
    BY DEF Unused, Inner
  <1>7. Idle(Promiser)' <=> Idle(Promiser)
    BY <1>1 DEF Idle, Promiser
  <1>8. (built' \in 1 .. N => built \in 1 .. N) /\ (built' = 0 => built = 0)
    BY <1>1, <1>4
  <1>9. BuilderRight(P, C)'
    BY <1>1, <1>2, <1>3, <1>5, <1>6, <1>7, <1>8 DEF BuilderRight, None, Outer
  <1> QED BY <1>1, <1>9, OwnedStays

LEMMA InitOwned == Init => \E P, C, Q : Owned(P, C, Q)
  <1> SUFFICES ASSUME Init PROVE \E P, C, Q : Owned(P, C, Q)
    OBVIOUS
  <1>1. StepsRight /\ Typed
    BY InitTyped DEF Typed
  <1>2. PICK P, Q : P = [x \in Contracts |-> <<"none">>] /\ Q = [x \in Contracts |-> <<"no">>]
    OBVIOUS
  <1>3. \A x \in Contracts : P[x][1] = "none" /\ Q[x][1] = "no"
    BY <1>2
  <1>4. FramesRight(P, P, Q)
    <2>1. \A t \in Threads : stack[t] = <<>>
      BY DEF Init
    <2>2. \A t \in Threads : Len(stack[t]) = 0
      BY <2>1
    <2> QED BY <2>2 DEF FramesRight
  <1>5. DOMAIN word = Contracts
    BY DEF Init, Contracts
  <1>6. ASSUME NEW x \in Contracts PROVE ContractRight(x, P, P, Q)
    <2>1. word[x] = {} /\ value[x] = Nothing /\ callback[x] = None /\ pool = {}
      BY <1>5 DEF Init, Contracts
    <2> QED BY <1>3, <2>1 DEF ContractRight, CallbackRight, PoolRight, WordRight, ValueRight, HeapRight,
                             AheadRight, UserRight, Born
  <1>7. BuilderRight(P, P)
    <2>1. promise = None /\ built = 0 /\ future.state = None /\ Idle(Promiser)
      BY ThreadsApart DEF Init, FutureOf, Idle
    <2>2. \A k \in 0 .. N : Outer(k) \in Contracts /\ Inner(k) \in Contracts
      BY <1>1, ContractParts
    <2> QED BY <1>3, <2>1, <2>2 DEF BuilderRight, Unused
  <1>8. Owned(P, P, Q)
    BY <1>4, <1>6, <1>7 DEF Owned
  <1> QED BY <1>8

\* Every contract has one owner on each side and is run at most once, whatever the
\* threads, the pool and the inline runs do.
THEOREM OwnersAreRight == Spec => []OwnedInv
  <1>1. Init => OwnedInv
    BY InitTyped, InitOwned DEF OwnedInv
  <1>2. OwnedInv /\ [Next]_vars => OwnedInv'
    <2> SUFFICES ASSUME OwnedInv, [Next]_vars PROVE OwnedInv'
      OBVIOUS
    <2>1. PICK P, C, Q : Owned(P, C, Q)
      BY DEF OwnedInv
    <2>2. Typed /\ Typed'
      BY <2>1, NextTyped DEF OwnedInv
    <2>3. ASSUME NEW t \in Threads, Step(t) PROVE \E P2, C2, Q2 : Owned(P2, C2, Q2)'
      BY <2>1, <2>2, <2>3, ConstructValueOwned, ProduceOwned, SetCallbackOwned, ConsumeOwned, RunOwned,
         DeleteOwned, UserOwned, GetsOwned DEF Step
    <2>4. ASSUME NEW w \in Workers, Work(w) PROVE \E P2, C2, Q2 : Owned(P2, C2, Q2)'
      BY <2>1, <2>2, <2>4, WorkOwned
    <2>5. ASSUME Set PROVE \E P2, C2, Q2 : Owned(P2, C2, Q2)'
      BY <2>1, <2>2, <2>5, SetOwned
    <2>6. ASSUME MakeReady \/ MakeContract \/ MakeSubmitted PROVE \E P2, C2, Q2 : Owned(P2, C2, Q2)'
      BY <2>1, <2>2, <2>6, MakeOwned
    <2>7. ASSUME NEW k \in 1 .. N, Combine(k) \/ Terminate(k) PROVE \E P2, C2, Q2 : Owned(P2, C2, Q2)'
      BY <2>1, <2>2, <2>7, ConsumesOwned
    <2>8. ASSUME (\E k \in 1 .. N : Via(k)) \/ Return \/ UNCHANGED vars
          PROVE  \E P2, C2, Q2 : Owned(P2, C2, Q2)'
      <3>1. Owned(P, C, Q)'
        BY <2>1, <2>2, <2>8, RestOwned
      <3> QED BY <3>1
    <2>9. \E P2, C2, Q2 : Owned(P2, C2, Q2)'
      BY <2>3, <2>4, <2>5, <2>6, <2>7, <2>8 DEF Next, Build
    <2> QED BY <2>2, <2>9 DEF OwnedInv
  <1> QED BY <1>1, <1>2, PTL DEF Spec

-----------------------------------------------------------------------------
\* A contract runs once, and nothing that is in use is deleted.

\* The frames by their places in the row.
LEMMA FramesByPlace ==
  ASSUME Typed, NEW P, NEW C, NEW Q, FramesRight(P, C, Q), NEW t \in Threads, NEW i \in DOMAIN stack[t]
  PROVE  LET d == Len(stack[t]) - i + 1 IN
         /\ i \in Nat /\ d \in 1 .. Len(stack[t]) /\ FrameRight(stack[t][i], t, d, P, C, Q)
         /\ stack[t][i] \in Frames
         /\ \A e \in d + 1 .. Len(stack[t]) :
               \E j \in 1 .. i - 1 : stack[t][j] = Fr(stack[t], e)
  <1>1. stack[t] \in Seq(Frames) /\ Len(stack[t]) \in Nat /\ i \in 1 .. Len(stack[t])
    BY DEF Typed
  <1> DEFINE d == Len(stack[t]) - i + 1
  <1>2. d \in 1 .. Len(stack[t]) /\ Len(stack[t]) - d + 1 = i
    BY SMTT(30), <1>1
  <1>3. Fr(stack[t], d) = stack[t][i]
    BY <1>2 DEF Fr
  <1>4. FrameRight(Fr(stack[t], d), t, d, P, C, Q)
    BY <1>2 DEF FramesRight
  <1>5. FrameRight(stack[t][i], t, d, P, C, Q)
    BY <1>3, <1>4
  <1>6. ASSUME NEW e \in d + 1 .. Len(stack[t])
        PROVE  \E j \in 1 .. i - 1 : stack[t][j] = Fr(stack[t], e)
    <2>1. e \in Nat /\ Len(stack[t]) - i + 1 < e /\ e <= Len(stack[t])
      BY SMTT(30), <1>1, <1>2
    <2>2. Len(stack[t]) - e + 1 \in 1 .. i - 1
      BY ONLY <1>1, <2>1
    <2> QED BY <2>2 DEF Fr
  <1> QED BY <1>1, <1>2, <1>5, <1>6

LEMMA WhatWordsSay ==
  ASSUME Typed, NEW P, NEW C, NEW Q, NEW c \in Contracts, ContractRight(c, P, C, Q)
  PROVE  /\ P[c][1] # "done" \/ C[c][1] # "done" => Q[c][1] = "no"
         /\ Q[c][1] # "no" => Born(c, P) /\ callback[c] # None
         /\ Q[c][1] # "no" /\ Unrun(c, Q) => value[c] # Nothing
         /\ c \in Cts /\ Q[c][1] # "gone" /\ Born(c, P) => <<"contract", c>> \in heap
  <1>1. WordRight(c, P, C, Q) /\ HeapRight(c, P, Q)
    BY DEF ContractRight
  <1>2. Q[c][1] # "no" => "Produced" \in word[c] /\ "Consumed" \in word[c]
    BY <1>1 DEF WordRight
  <1>3. Q[c][1] # "no" => P[c][1] = "done" /\ C[c][1] = "done" /\ callback[c] # None
                          /\ (Unrun(c, Q) => value[c] # Nothing)
    BY <1>1, <1>2 DEF WordRight
  <1> QED BY <1>1, <1>3 DEF HeapRight, Born

LEMMA OwnedRunsOnce ==
  ASSUME OwnedInv
  PROVE  ContractRunsOnce
  <1>1. PICK P, C, Q : Owned(P, C, Q)
    BY DEF OwnedInv
  <1>2. Typed /\ StepsRight /\ FramesRight(P, C, Q) /\ \A c \in Contracts : ContractRight(c, P, C, Q)
    BY <1>1 DEF OwnedInv, Owned, Typed
  <1>3. DOMAIN word = Contracts
    BY <1>2 DEF Typed
  <1>4. \A c \in Contracts :
           /\ <<"contract", c>> \in pool => c \in Cts /\ Q[c][1] = "pool"
           /\ <<"task", c>> \in pool => <<"task", c>> \in heap
    BY <1>2 DEF ContractRight, PoolRight
  <1>5. TypeOK
    <2>1. pool \subseteq heap
      <3> SUFFICES ASSUME NEW x \in pool PROVE x \in heap
        OBVIOUS
      <3>1. PICK c \in Contracts : x = <<"contract", c>> \/ x = <<"task", c>>
        BY <1>2 DEF Typed
      <3>2. CASE x = <<"contract", c>>
        <4>1. c \in Cts /\ Q[c][1] = "pool"
          BY <1>4, <3>2
        <4> QED BY <1>2, <3>2, <4>1, WhatWordsSay
      <3> QED BY <1>4, <3>1, <3>2
    <2> QED BY <1>2, <1>3, <2>1 DEF Typed, TypeOK
  <1>6. ASSUME NEW c \in Contracts, NEW t \in Threads, NEW i \in DOMAIN stack[t],
               stack[t][i].at \in {"run", "delete"}, stack[t][i].c = c
        PROVE  Q[c][1] = stack[t][i].at /\ Q[c][2] = t
    <2>1. PICK d : FrameRight(stack[t][i], t, d, P, C, Q)
      BY <1>2, FramesByPlace
    <2>2. Q[c] = <<stack[t][i].at, t, d>>
      BY <1>6, <2>1 DEF FrameRight
    <2> QED BY <2>2
  <1>7. ASSUME NEW c \in Contracts
        PROVE  Cardinality(Runners(c)) + (IF <<"contract", c>> \in pool THEN 1 ELSE 0) <= 1
    <2>1. CASE Runners(c) = {}
      <3>1. Cardinality(Runners(c)) = 0
        BY <2>1, FS_EmptySet
      <3> QED BY <3>1
    <2>2. CASE Runners(c) # {}
      <3>1. PICK t : t = Q[c][2]
        OBVIOUS
      <3>2. Runners(c) = {t} /\ <<"contract", c>> \notin pool
        <4>1. ASSUME NEW u \in Runners(c) PROVE Q[c][1] \in {"run", "delete"} /\ u = t
          <5>1. PICK i \in DOMAIN stack[u] : stack[u][i].at \in {"run", "delete"} /\ stack[u][i].c = c
            BY <4>1 DEF Runners
          <5>2. u \in Threads
            BY <4>1 DEF Runners
          <5> QED BY <1>6, <3>1, <5>1, <5>2
        <4> QED BY <1>4, <2>2, <4>1
      <3>3. Cardinality(Runners(c)) = 1
        BY <3>2, FS_Singleton
      <3> QED BY <3>2, <3>3
    <2> QED BY <2>1, <2>2
  <1>8. ASSUME NEW c \in Contracts,
               <<"contract", c>> \in pool \/ (\E t \in Threads : At(t, "run") /\ Top(t).c = c)
        PROVE  value[c] # Nothing /\ callback[c] # None
    <2>1. Q[c][1] \in {"pool", "run"}
      <3>1. CASE <<"contract", c>> \in pool
        BY <1>4, <3>1
      <3>2. ASSUME NEW t \in Threads, At(t, "run"), Top(t).c = c PROVE Q[c][1] = "run"
        <4>1. 1 \in DOMAIN stack[t] /\ stack[t][1] = Top(t)
          BY <1>2, <3>2 DEF At, Idle, Top, Typed
        <4> QED BY <1>6, <3>2, <4>1 DEF At
      <3> QED BY <1>8, <3>1, <3>2
    <2> QED BY <1>2, <2>1, WhatWordsSay DEF Unrun
  <1>9. ASSUME NEW t \in Threads, NEW i \in DOMAIN stack[t],
               stack[t][i].at \in {"set", "produce", "attach", "consume", "run", "delete"}
        PROVE  \/ <<"contract", stack[t][i].c>> \in heap
               \/ stack[t][i].c[2] = "inner" /\ \E j \in 1 .. i - 1 : stack[t][j].at = "user"
    <2>1. PICK f, c, d : f = stack[t][i] /\ c = f.c /\ d = Len(stack[t]) - i + 1
      OBVIOUS
    <2>2. /\ FrameRight(f, t, d, P, C, Q) /\ i \in Nat /\ d \in 1 .. Len(stack[t])
          /\ \A e \in d + 1 .. Len(stack[t]) : \E j \in 1 .. i - 1 : stack[t][j] = Fr(stack[t], e)
      BY <1>2, <2>1, FramesByPlace
    <2>3. c \in Cts /\ c \in Contracts /\ ContractRight(c, P, C, Q)
      BY <1>2, <1>9, <2>1, <2>2 DEF FrameRight, Cts
    <2>4. CASE f.at \in {"set", "produce"}
      <3>1. P[c] = <<"frame", t, d>>
        BY <2>1, <2>2, <2>4 DEF FrameRight
      <3>2. P[c][1] = "frame"
        BY <3>1
      <3>3. Born(c, P) /\ Q[c][1] = "no"
        BY <1>2, <2>3, <3>2, WhatWordsSay DEF Born
      <3> QED BY <1>2, <2>1, <2>3, <3>3, WhatWordsSay
    <2>5. CASE f.at \in {"attach", "consume"}
      <3>1. C[c] = <<"frame", t, d>>
        BY <2>1, <2>2, <2>5 DEF FrameRight
      <3>2. C[c][1] = "frame" /\ C[c][2] = t /\ C[c][3] = d
        BY <3>1
      <3>3. Q[c][1] = "no"
        BY <1>2, <2>3, <3>2, WhatWordsSay
      <3>4. CASE Born(c, P)
        BY <1>2, <2>1, <2>3, <3>3, <3>4, WhatWordsSay
      <3>5. CASE ~ Born(c, P)
        <4>1. P[c][1] = "user" /\ P[c][2] = t /\ d < P[c][3]
          BY <2>3, <3>2, <3>5 DEF ContractRight, AheadRight
        <4>2. PICK e : e = P[c][3]
          OBVIOUS
        <4>3. /\ e \in 1 .. Len(stack[t]) /\ Fr(stack[t], e).at = "user" /\ Fr(stack[t], e).c = c
          BY <2>3, <4>1, <4>2 DEF ContractRight, UserRight
        <4>4. e \in d + 1 .. Len(stack[t])
          BY <2>2, <4>1, <4>2, <4>3
        <4>5. FrameRight(Fr(stack[t], e), t, e, P, C, Q)
          BY <1>2, <4>3 DEF FramesRight
        <4>6. c[2] = "inner"
          BY <1>2, <4>3, <4>5, ContractParts DEF FrameRight
        <4>7. \E j \in 1 .. i - 1 : stack[t][j].at = "user"
          BY <2>2, <4>3, <4>4
        <4> QED BY <2>1, <4>6, <4>7
      <3> QED BY <3>4, <3>5
    <2>6. CASE f.at \in {"run", "delete"}
      <3>1. Q[c] = <<f.at, t, d>>
        BY <2>1, <2>2, <2>6 DEF FrameRight
      <3>2. Q[c][1] \in {"run", "delete"}
        BY <2>6, <3>1
      <3> QED BY <1>2, <2>1, <2>3, <3>2, WhatWordsSay
    <2> QED BY <1>9, <2>1, <2>4, <2>5, <2>6
  <1> QED BY <1>3, <1>5, <1>7, <1>8, <1>9 DEF ContractRunsOnce

\* The party of a contract that comes second, and no other, submits it: it runs once,
\* with its value and its callback in place, and whatever a thread is about to touch
\* is not deleted before (Contract.hpp 17-37; Rendezvous.hpp 9-10).
THEOREM RunsOnce == Spec => []ContractRunsOnce
  <1>1. OwnedInv => ContractRunsOnce
    BY OwnedRunsOnce
  <1> QED BY <1>1, OwnersAreRight, PTL

-----------------------------------------------------------------------------
\* What the pipeline of results computes.

IsEvaluation(E) ==
    E = [k \in 0 .. N |-> IF k = 0 THEN Outcome(0, Nothing) ELSE Evaluate(k, E[k - 1])]

\* There is one, by induction on the number of steps.
LEMMA EvaluatedIsEvaluation ==
  ASSUME N \in Nat
  PROVE  IsEvaluation(Evaluated)
  <1> DEFINE Is(g, n) == g = [k \in 0 .. n |-> IF k = 0 THEN Outcome(0, Nothing) ELSE Evaluate(k, g[k - 1])]
             M == {n \in Nat : ~ \E g : Is(g, n)}
  <1> HIDE DEF Is
  <1>1. M = {}
    <2> SUFFICES ASSUME M # {} PROVE FALSE
      OBVIOUS
    <2>1. PICK n \in M : \A k \in M : n <= k
      <3>1. M \subseteq Nat
        OBVIOUS
      <3> HIDE DEF M
      <3> QED BY <3>1, LeastNumber
    <2>2. n # 0
      <3>1. Is([k \in 0 .. 0 |-> Outcome(0, Nothing)], 0)
        BY DEF Is
      <3> QED BY <2>1, <3>1
    <2>3. n - 1 \in Nat /\ n - 1 \notin M
      <3>1. n \in Nat
        OBVIOUS
      <3> HIDE DEF M
      <3> QED BY <2>1, <2>2, <3>1
    <2>4. PICK g : Is(g, n - 1)
      BY <2>3
    <2> DEFINE h == [k \in 0 .. n |-> IF k = n THEN Evaluate(n, g[n - 1]) ELSE g[k]]
    <2>5. \A k \in 0 .. n : h[k] = IF k = 0 THEN Outcome(0, Nothing) ELSE Evaluate(k, h[k - 1])
      <3> SUFFICES ASSUME NEW k \in 0 .. n
                   PROVE  h[k] = IF k = 0 THEN Outcome(0, Nothing) ELSE Evaluate(k, h[k - 1])
        OBVIOUS
      <3>1. CASE k = n
        <4>1. h[k] = Evaluate(n, g[n - 1]) /\ h[k - 1] = g[n - 1]
          BY <2>1, <2>2, <3>1
        <4> QED BY <2>2, <3>1, <4>1
      <3>2. CASE k # n
        <4>1. k \in 0 .. n - 1 /\ h[k] = g[k]
          BY <2>1, <2>2, <3>2
        <4>2. g[k] = IF k = 0 THEN Outcome(0, Nothing) ELSE Evaluate(k, g[k - 1])
          BY <2>4, <4>1 DEF Is
        <4>3. k # 0 => h[k - 1] = g[k - 1]
          BY <2>1, <2>2, <4>1
        <4> QED BY <4>1, <4>2, <4>3
      <3> QED BY <3>1, <3>2
    <2>6. Is(h, n)
      <3>1. h = [k \in 0 .. n |-> h[k]]
        OBVIOUS
      <3> HIDE DEF h
      <3> QED BY <2>5, <3>1 DEF Is
    <2> QED BY <2>1, <2>6
  <1>2. PICK g : Is(g, N)
    BY <1>1
  <1>3. Evaluated = CHOOSE f : Is(f, N)
    BY DEF Is, Evaluated
  <1>4. Is(Evaluated, N)
    BY <1>2, <1>3
  <1> QED BY <1>4 DEF Is, IsEvaluation

\* And only one.
LEMMA OneEvaluation ==
  ASSUME N \in Nat, NEW E, NEW F, IsEvaluation(E), IsEvaluation(F)
  PROVE  E = F
  <1> DEFINE M == {k \in 0 .. N : E[k] # F[k]}
  <1>1. /\ \A k \in 0 .. N : E[k] = IF k = 0 THEN Outcome(0, Nothing) ELSE Evaluate(k, E[k - 1])
        /\ \A k \in 0 .. N : F[k] = IF k = 0 THEN Outcome(0, Nothing) ELSE Evaluate(k, F[k - 1])
        /\ E = [k \in 0 .. N |-> E[k]] /\ F = [k \in 0 .. N |-> F[k]]
    BY DEF IsEvaluation
  <1>2. M = {}
    <2> SUFFICES ASSUME M # {} PROVE FALSE
      OBVIOUS
    <2>1. PICK k \in M : \A j \in M : k <= j
      <3>1. M \subseteq Nat
        OBVIOUS
      <3> HIDE DEF M
      <3> QED BY <3>1, LeastNumber
    <2>2. k # 0 /\ k \in Nat /\ k \in 0 .. N
      BY <1>1
    <2>3. k - 1 \in 0 .. N /\ k - 1 \notin M
      <3> HIDE DEF M
      <3> QED BY <2>1, <2>2
    <2>4. E[k - 1] = F[k - 1]
      BY <2>3
    <2> QED BY <1>1, <2>2, <2>4
  <1>3. \A k \in 0 .. N : E[k] = F[k]
    BY <1>2
  <1> QED BY <1>1, <1>3

IsResult(v) == v.tag \in {"Ok", "Failure"}

LEMMA OutcomeIsPlain == \A k, v : IsResult(Outcome(k, v)) /\ IsResult(R!Ok(v))
  BY DEF IsResult, Outcome, R!Ok, R!Failure

\* The parts of the pipeline of results, step by step.
LEMMA EvaluateIs ==
  ASSUME StepsRight, NEW k \in 1 .. N, NEW v
  PROVE  /\ IsResult(v) => IsResult(Evaluate(k, v))
         /\ steps[k].pipe \in {"Flatten", "Via", "AsTryFuture", "Get", "Detach"} => Evaluate(k, v) = v
         /\ steps[k].pipe = "Map" /\ steps[k].arg = "value" => Evaluate(k, v) = R!Ok(Append(v.by, k))
         /\ steps[k].pipe = "Map" /\ steps[k].arg # "value" => Evaluate(k, v) = Outcome(k, v)
         /\ steps[k].pipe = "MapOk" => Evaluate(k, v) = R!Map(v, R!Ok(Append(v.by, k)))
         /\ steps[k].pipe = "AndThen" => Evaluate(k, v) = IF R!IsOk(v) THEN Outcome(k, v) ELSE v
         /\ steps[k].pipe = "OrElse" => Evaluate(k, v) = IF R!IsOk(v) THEN v ELSE Outcome(k, v)
  <1>1. IsResult(Outcome(k, v)) /\ IsResult(R!Ok(Append(v.by, k)))
    BY OutcomeIsPlain
  <1>2. Outcome(k, v).by = Append(v.by, k) /\ \A by : R!Ok(by).by = by
    BY DEF Outcome, R!Ok, R!Failure
  <1>3. CASE steps[k].pipe = "MapOk"
    <2>1. Evaluate(k, v) = R!Map(v, Outcome(k, v))
      BY <1>3 DEF Evaluate, R!Pipe
    <2>2. Evaluate(k, v) = R!Map(v, R!Ok(Append(v.by, k)))
      BY <1>2, <2>1 DEF R!Map
    <2>3. R!Map(v, R!Ok(Append(v.by, k))) \in {v, R!Ok(Append(v.by, k))}
      BY <1>2 DEF R!Map
    <2> QED BY <1>1, <1>3, <2>2, <2>3
  <1>4. CASE steps[k].pipe \in {"AndThen", "OrElse"}
    <2>1. /\ steps[k].pipe = "AndThen" => Evaluate(k, v) = R!AndThen(v, Outcome(k, v))
          /\ steps[k].pipe = "OrElse" => Evaluate(k, v) = R!OrElse(v, Outcome(k, v))
      BY <1>4 DEF Evaluate, R!Pipe
    <2> QED BY <1>1, <1>4, <2>1 DEF R!AndThen, R!OrElse
  <1>5. CASE steps[k].pipe = "Map"
    BY <1>1, <1>5 DEF Evaluate
  <1>6. CASE steps[k].pipe \in {"Flatten", "Via", "AsTryFuture", "Get", "Detach"}
    BY <1>6 DEF Evaluate
  <1> QED BY <1>3, <1>4, <1>5, <1>6 DEF StepsRight, Combinators

LEMMA EvaluationIs ==
  ASSUME StepsRight, NEW E, IsEvaluation(E)
  PROVE  /\ E[0] = Outcome(0, Nothing)
         /\ \A k \in 1 .. N : E[k] = Evaluate(k, E[k - 1])
         /\ \A k \in 0 .. N : IsResult(E[k])
  <1>1. N \in Nat
    BY DEF StepsRight
  <1>2. /\ \A k \in 0 .. N : E[k] = IF k = 0 THEN Outcome(0, Nothing) ELSE Evaluate(k, E[k - 1])
    BY DEF IsEvaluation
  <1> DEFINE M == {k \in 0 .. N : ~ IsResult(E[k])}
  <1>3. M = {}
    <2> SUFFICES ASSUME M # {} PROVE FALSE
      OBVIOUS
    <2>1. PICK k \in M : \A j \in M : k <= j
      <3>1. M \subseteq Nat
        OBVIOUS
      <3> HIDE DEF M
      <3> QED BY <3>1, LeastNumber
    <2>2. k # 0 /\ k \in Nat /\ k \in 0 .. N
      BY <1>2, OutcomeIsPlain
    <2>3. k - 1 \in 0 .. N /\ k - 1 \notin M
      <3> HIDE DEF M
      <3> QED BY <1>1, <2>1, <2>2
    <2>4. IsResult(E[k - 1])
      BY <2>3
    <2> QED BY <1>1, <1>2, <2>2, <2>4, EvaluateIs
  <1> QED BY <1>1, <1>2, <1>3

-----------------------------------------------------------------------------
\* Where the schedulers say.

Latest(S) == CHOOSE j \in S : \A i \in S : i <= j
Vias(k)   == {j \in 1 .. k - 1 : steps[j].pipe = "Via"}

LEMMA ToldStays ==
  ASSUME steps' = steps, NEW k
  PROVE  ToldToRunOn(k)' = ToldToRunOn(k)
  <1>1. ToldToRunOn(k) = IF Vias(k) = {} THEN "Inline" ELSE steps[Latest(Vias(k))].arg
    BY DEF ToldToRunOn, Vias, Latest
  <1>2. ToldToRunOn(k)' = IF Vias(k)' = {} THEN "Inline" ELSE steps'[Latest(Vias(k)')].arg
    BY DEF ToldToRunOn, Vias, Latest
  <1>3. Vias(k)' = Vias(k)
    BY DEF Vias
  <1> QED BY <1>1, <1>2, <1>3

LEMMA ToldNext ==
  ASSUME StepsRight, NEW k \in 1 .. N
  PROVE  /\ steps[k].pipe = "Via" => ToldToRunOn(k + 1) = steps[k].arg
         /\ steps[k].pipe # "Via" => ToldToRunOn(k + 1) = ToldToRunOn(k)
         /\ ToldToRunOn(1) = "Inline"
  <1>1. \A j : ToldToRunOn(j) = IF Vias(j) = {} THEN "Inline" ELSE steps[Latest(Vias(j))].arg
    BY DEF ToldToRunOn, Vias, Latest
  <1>2. k \in Nat /\ k >= 1 /\ (k + 1) - 1 = k
    BY DEF StepsRight
  <1>3. Vias(1) = {}
    BY DEF Vias
  <1>4. CASE steps[k].pipe # "Via"
    <2>1. Vias(k + 1) = Vias(k)
      BY <1>2, <1>4 DEF Vias
    <2> QED BY <1>1, <1>3, <1>4, <2>1
  <1>5. CASE steps[k].pipe = "Via"
    <2>1. k \in Vias(k + 1) /\ \A j \in Vias(k + 1) : j \in Nat /\ j <= k
      BY <1>2, <1>5 DEF Vias
    <2>2. Latest(Vias(k + 1)) \in Vias(k + 1) /\ \A i \in Vias(k + 1) : i <= Latest(Vias(k + 1))
      BY <2>1 DEF Latest
    <2>3. Latest(Vias(k + 1)) = k
      BY <1>2, <2>1, <2>2
    <2> QED BY <1>1, <1>3, <1>5, <2>1, <2>3
  <1> QED BY <1>4, <1>5

On(k) == IF steps[k].pipe \in {"Flatten", "Get", "Detach"} THEN "Inline" ELSE ToldToRunOn(k)

\* The value of contract c in the pipeline of results E, or the future that stands for it.
RightOf(c, v, E) == v = E[c[1]] \/ (c[2] = "outer" /\ FutureMap(c[1]) /\ v = AFuture(c[1]))

\* What is fed from contract c by the callback cb.
Link(c, cb, E) ==
    /\ cb[2] = "outer" => /\ c[2] = "outer" /\ E[c[1]] = E[cb[1] - 1]
                          /\ FutureMap(c[1]) <=> steps[cb[1]].pipe = "Flatten"
                          /\ FutureMap(c[1]) => c[1] = cb[1] - 1
    /\ cb[2] = "inner" => c[2] = "inner" /\ E[c[1]] = E[cb[1]]

FrameTells(f, t, E) ==
    /\ f.at = "attach" => Link(f.c, f.cb, E) /\ (f.cb[2] = "outer" => f.on = On(f.cb[1]))
    /\ f.at = "run" /\ scheduler[f.c] = "Pool" => t \in Workers
    /\ f.at = "set" => RightOf(f.c, f.v, E)
    /\ f.at = "user" => Outcome(f.c[1], f.v) = E[f.c[1]]
    /\ f.at = "box" => f.v = E[N]

FramesTell(E) == \A t \in Threads : \A d \in 1 .. Len(stack[t]) : FrameTells(Fr(stack[t], d), t, E)

ContractTells(c, E) ==
    /\ \A v : v = value[c] /\ v # Nothing => RightOf(c, v, E)
    /\ \A cb : cb = callback[c] /\ cb # None =>
          Link(c, cb, E) /\ (cb[2] = "outer" => scheduler[c] = On(cb[1]))
    /\ <<"task", c>> \in pool => task[c] = E[c[1]]

\* What the builder goes on with at step k is the contract c.
Builds(k, c, E) ==
    /\ c[2] = "outer" /\ E[c[1]] = E[k - 1]
    /\ FutureMap(c[1]) <=> FutureMap(k - 1)
    /\ FutureMap(c[1]) => c[1] = k - 1

BuilderTells(E) ==
    /\ \A k \in 1 .. N : \A c : built = k /\ c = future.state =>
          Builds(k, c, E) /\ future.scheduler = ToldToRunOn(k)
    /\ promise \in {None, Outer(0)}
    /\ box # Nothing => box = E[N]
    /\ got # Nothing => got = E[N]

Tells(E) ==
    /\ IsEvaluation(E)
    /\ FramesTell(E)
    /\ \A c \in Contracts : ContractTells(c, E)
    /\ BuilderTells(E)
    /\ RunsWhereTold

\* What these say depends on the steps and on the program alone.
LEMMA TellsStay ==
  ASSUME StepsRight, steps' = steps, program' = program, NEW E
  PROVE  /\ IsEvaluation(E) => IsEvaluation(E)'
         /\ \A k, v : Outcome(k, v)' = Outcome(k, v)
         /\ \A k : On(k)' = On(k) /\ ToldToRunOn(k)' = ToldToRunOn(k)
         /\ \A k : FutureMap(k)' <=> FutureMap(k)
         /\ \A c, v : RightOf(c, v, E)' <=> RightOf(c, v, E)
         /\ \A c, cb : Link(c, cb, E)' <=> Link(c, cb, E)
  <1>1. N' = N
    BY StepsStay
  <1>2. \A k, v : Outcome(k, v)' = Outcome(k, v)
    BY DEF Outcome
  <1>3. \A k : ToldToRunOn(k)' = ToldToRunOn(k)
    BY ToldStays
  <1>4. \A k : On(k)' = On(k)
    BY <1>3 DEF On
  <1>5. \A k : FutureMap(k)' <=> FutureMap(k)
    BY <1>1 DEF FutureMap
  <1>6. \A c, v : RightOf(c, v, E)' <=> RightOf(c, v, E)
    BY <1>5 DEF RightOf, AFuture
  <1>7. \A c, cb : Link(c, cb, E)' <=> Link(c, cb, E)
    BY <1>5 DEF Link
  <1>8. \A k, v : Evaluate(k, v)' = Evaluate(k, v)
    BY <1>2 DEF Evaluate
  <1>9. IsEvaluation(E) => IsEvaluation(E)'
    <2>1. Nothing' = Nothing
      BY DEF Nothing
    <2> QED BY <1>1, <1>2, <1>8, <2>1 DEF IsEvaluation
  <1> QED BY <1>2, <1>3, <1>4, <1>5, <1>6, <1>7, <1>9

LEMMA FrameTellsStays ==
  ASSUME StepsRight, steps' = steps, program' = program, NEW E, NEW f, NEW t, FrameTells(f, t, E),
         f.at = "run" => scheduler'[f.c] = scheduler[f.c]
  PROVE  FrameTells(f, t, E)'
  <1>1. N' = N
    BY StepsStay
  <1>2. \A c, v : RightOf(c, v, E)' <=> RightOf(c, v, E)
    BY TellsStay
  <1>3. \A c, cb : Link(c, cb, E)' <=> Link(c, cb, E)
    BY TellsStay
  <1>4. \A k : On(k)' = On(k)
    BY TellsStay
  <1>5. \A k, v : Outcome(k, v)' = Outcome(k, v)
    BY TellsStay
  <1> QED BY <1>1, <1>2, <1>3, <1>4, <1>5 DEF FrameTells

LEMMA FramesTellOn ==
  ASSUME Typed, NEW P, NEW C, NEW Q, FramesRight(P, C, Q), steps' = steps, program' = program,
         NEW E, FramesTell(E), NEW t \in Threads, NEW b, NEW fs \in Seq(Frames), Changes(t, b, fs),
         \A x \in Contracts : Q[x][1] = "run" => scheduler'[x] = scheduler[x],
         \A i \in 1 .. Len(fs) : FrameTells(fs[Len(fs) - i + 1], t, E)'
  PROVE  FramesTell(E)'
  <1>1. StepsRight
    BY DEF Typed
  <1>2. ASSUME NEW u \in Threads, NEW d \in 1 .. Len(stack[u]), NEW f, f = Fr(stack[u], d)
        PROVE  FrameTells(f, u, E)'
    <2>1. FrameTells(f, u, E) /\ FrameRight(f, u, d, P, C, Q)
      BY <1>2 DEF FramesTell, FramesRight
    <2>2. f.at = "run" => f.c \in Contracts /\ Q[f.c] = <<"run", u, d>>
      BY <2>1 DEF FrameRight, Cts
    <2>3. f.at = "run" => scheduler'[f.c] = scheduler[f.c]
      BY <2>2
    <2> QED BY <1>1, <2>1, <2>3, FrameTellsStays
  <1>3. ASSUME NEW u \in Threads, NEW d \in 1 .. Len(stack'[u]), NEW f, f = Fr(stack'[u], d)
        PROVE  FrameTells(f, u, E)'
    <2>1. b \in Nat /\ Len(stack[t]) \in Nat /\ Len(fs) \in Nat /\ b <= Len(stack[t]) /\ Len(stack'[t]) = b + Len(fs)
      BY DEF Changes, Typed
    <2>2. CASE u # t
      <3>1. stack'[u] = stack[u]
        BY <2>2 DEF Changes
      <3> QED BY <1>2, <1>3, <3>1
    <2>3. CASE u = t /\ d <= b
      <3>1. d \in 1 .. Len(stack[u]) /\ Fr(stack'[u], d) = Fr(stack[u], d)
        BY <2>1, <2>3 DEF Changes
      <3> QED BY <1>2, <1>3, <3>1
    <2>4. CASE u = t /\ d > b
      <3> DEFINE i == d - b
      <3>1. i \in 1 .. Len(fs) /\ d = b + i
        BY <2>1, <2>4
      <3> HIDE DEF i
      <3>2. Fr(stack'[t], b + i) = fs[Len(fs) - i + 1]
        BY <3>1 DEF Changes
      <3>3. FrameTells(fs[Len(fs) - i + 1], t, E)'
        BY <3>1
      <3> QED BY <1>3, <2>4, <3>1, <3>2, <3>3
    <2> QED BY <2>1, <2>2, <2>3, <2>4
  <1>4. \A u \in Threads : \A d \in 1 .. Len(stack'[u]) : \A f : f = Fr(stack'[u], d) => FrameTells(f, u, E)'
    BY <1>3
  <1> QED BY <1>4 DEF FramesTell, FrameTells

-----------------------------------------------------------------------------
\* What the steps leave alone.

LEMMA ContractTellsStay ==
  ASSUME StepsRight, steps' = steps, program' = program, NEW E, NEW c, ContractTells(c, E),
         value'[c] = value[c] \/ value'[c] = Nothing, callback'[c] = callback[c],
         callback[c] # None => scheduler'[c] = scheduler[c],
         <<"task", c>> \in pool' => <<"task", c>> \in pool /\ task'[c] = task[c]
  PROVE  ContractTells(c, E)'
  <1>1. \A v : RightOf(c, v, E)' <=> RightOf(c, v, E)
    BY TellsStay
  <1>2. \A cb : Link(c, cb, E)' <=> Link(c, cb, E)
    BY TellsStay
  <1>3. \A k : On(k)' = On(k)
    BY TellsStay
  <1>4. Nothing' = Nothing /\ None' = None
    BY DEF Nothing, None
  <1>5. \A v : v = value'[c] /\ v # Nothing => RightOf(c, v, E)'
    BY <1>1 DEF ContractTells
  <1>6. \A cb : cb = callback'[c] /\ cb # None =>
           Link(c, cb, E)' /\ (cb[2] = "outer" => scheduler'[c] = On(cb[1])')
    BY <1>2, <1>3 DEF ContractTells
  <1> QED BY <1>4, <1>5, <1>6 DEF ContractTells

LEMMA BuilderTellsStay ==
  ASSUME StepsRight, steps' = steps, program' = program, NEW E, BuilderTells(E),
         UNCHANGED <<built, future>>, promise' = promise \/ promise' = None,
         box' = box \/ box' = Nothing \/ box' = E[N], got' = got \/ (got' = box /\ got' # Nothing)
  PROVE  BuilderTells(E)'
  <1>1. N' = N /\ None' = None /\ Nothing' = Nothing /\ Outer(0)' = Outer(0)
    BY StepsStay DEF None, Nothing, Outer
  <1>2. /\ \A k : ToldToRunOn(k)' = ToldToRunOn(k)
        /\ \A k : FutureMap(k)' <=> FutureMap(k)
    BY TellsStay
  <1>3. \A k, c : Builds(k, c, E)' <=> Builds(k, c, E)
    BY <1>2 DEF Builds
  <1> QED BY <1>1, <1>2, <1>3 DEF BuilderTells

LEMMA RunsStay ==
  ASSUME StepsRight, steps' = steps, ranOn' = ranOn, RunsWhereTold
  PROVE  RunsWhereTold'
  <1>1. N' = N
    BY StepsStay
  <1>2. \A k : ToldToRunOn(k)' = ToldToRunOn(k)
    BY ToldStays
  <1>3. \A k \in 1 .. N : ToldToRunOn(k)' = "Pool" => ranOn'[k] \in Workers \union {Nobody}
    BY <1>2 DEF RunsWhereTold
  <1> QED BY <1>1, <1>3 DEF RunsWhereTold, Nobody

LEMMA TellsOn ==
  ASSUME Typed, NEW P, NEW C, NEW Q, Owned(P, C, Q), steps' = steps, program' = program,
         NEW E, Tells(E), NEW t \in Threads, NEW b, NEW fs \in Seq(Frames), Changes(t, b, fs),
         \A x \in Contracts : Q[x][1] = "run" => scheduler'[x] = scheduler[x],
         \A i \in 1 .. Len(fs) : FrameTells(fs[Len(fs) - i + 1], t, E)',
         \A x \in Contracts : ContractTells(x, E)',
         BuilderTells(E)', RunsWhereTold'
  PROVE  Tells(E)'
  <1>1. StepsRight /\ Contracts' = Contracts
    BY TypesStay DEF Typed
  <1>2. IsEvaluation(E)'
    BY <1>1, TellsStay DEF Tells
  <1>3. FramesTell(E)'
    <2>1. FramesTell(E) /\ FramesRight(P, C, Q)
      BY DEF Tells, Owned
    <2> HIDE DEF FramesTell, FrameTells, ContractTells, BuilderTells, RunsWhereTold, Changes
    <2> QED BY <2>1, FramesTellOn
  <1> QED BY <1>1, <1>2, <1>3 DEF Tells

LEMMA CallTells ==
  ASSUME Typed, NEW E, FramesTell(E), NEW t \in Threads, NEW f, NEW b, NEW P, NEW C, NEW Q,
         Calling(t, f, b, P, C, Q)
  PROVE  FrameTells(f, t, E)
  <1>1. ~ Idle(t) /\ f = Top(t)
    BY DEF Calling
  <1>2. f = Fr(stack[t], Len(stack[t])) /\ Len(stack[t]) \in 1 .. Len(stack[t])
    BY <1>1, TopIsFrame
  <1> QED BY <1>2 DEF FramesTell

LEMMA OneTells ==
  ASSUME NEW t, NEW f, NEW E, FrameTells(f, t, E)'
  PROVE  \A i \in 1 .. Len(<<f>>) : FrameTells(<<f>>[Len(<<f>>) - i + 1], t, E)'
  <1> SUFFICES ASSUME NEW i \in 1 .. Len(<<f>>)
               PROVE  FrameTells(<<f>>[Len(<<f>>) - i + 1], t, E)'
    OBVIOUS
  <1>1. i = 1 /\ <<f>>[Len(<<f>>) - i + 1] = f
    OBVIOUS
  <1> QED BY <1>1

LEMMA TwoTell ==
  ASSUME NEW t, NEW f, NEW g, NEW E, FrameTells(f, t, E)', FrameTells(g, t, E)'
  PROVE  \A i \in 1 .. Len(<<f, g>>) : FrameTells(<<f, g>>[Len(<<f, g>>) - i + 1], t, E)'
  <1> SUFFICES ASSUME NEW i \in 1 .. Len(<<f, g>>)
               PROVE  FrameTells(<<f, g>>[Len(<<f, g>>) - i + 1], t, E)'
    OBVIOUS
  <1>1. <<f, g>>[Len(<<f, g>>) - i + 1] \in {f, g}
    OBVIOUS
  <1> QED BY <1>1

LEMMA ThreeTell ==
  ASSUME NEW t, NEW f, NEW g, NEW h, NEW E, FrameTells(f, t, E)', FrameTells(g, t, E)', FrameTells(h, t, E)'
  PROVE  \A i \in 1 .. Len(<<f, g, h>>) : FrameTells(<<f, g, h>>[Len(<<f, g, h>>) - i + 1], t, E)'
  <1> SUFFICES ASSUME NEW i \in 1 .. Len(<<f, g, h>>)
               PROVE  FrameTells(<<f, g, h>>[Len(<<f, g, h>>) - i + 1], t, E)'
    OBVIOUS
  <1>1. <<f, g, h>>[Len(<<f, g, h>>) - i + 1] \in {f, g, h}
    OBVIOUS
  <1> QED BY <1>1

LEMMA PlainTells ==
  ASSUME NEW t, NEW f, NEW E, f.at \in {"produce", "consume", "delete", "free", "fire"}
  PROVE  FrameTells(f, t, E)'
  BY DEF FrameTells

-----------------------------------------------------------------------------
\* The steps of a thread.

LEMMA ConstructValueTells ==
  ASSUME Typed, NEW t \in Threads, NEW P, NEW C, NEW Q, Owned(P, C, Q), NEW E, Tells(E), ConstructValue(t)
  PROVE  Tells(E)'
  <1>1. PICK f, b : Calling(t, f, b, P, C, Q)
    BY IsCalling DEF ConstructValue, At
  <1>2. PICK c, v, g : c = f.c /\ v = f.v /\ g = Frame("produce", c, Nothing)
    OBVIOUS
  <1>3. /\ c \in Contracts /\ b \in Nat /\ Len(stack[t]) = b + 1 /\ ~ Idle(t) /\ f.at = "set"
    BY <1>1, <1>2 DEF Calling, ConstructValue, At
  <1>4. StepsRight /\ steps' = steps /\ program' = program
    BY DEF Typed, ConstructValue
  <1>5. Changes(t, b, <<g>>) /\ <<g>> \in Seq(Frames)
    <2>1. g \in Frames
      BY <1>2, <1>3, <1>4, FramesAreTyped, ValueParts DEF Labels
    <2>2. Then(t, <<g>>)
      BY <1>1, <1>2 DEF ConstructValue, Calling, Then
    <2>3. <<g>> \in Seq(Frames)
      BY <2>1
    <2> QED BY <1>3, <2>2, <2>3, ThenFrames
  <1>6. /\ value' = [value EXCEPT ![c] = v]
        /\ UNCHANGED <<built, future, promise, callback, scheduler, task, pool, box, got, ranOn>>
    BY <1>1, <1>2 DEF ConstructValue, Calling
  <1>7. value'[c] = v /\ \A x \in Contracts : x # c => value'[x] = value[x]
    BY <1>3, <1>6 DEF Typed
  <1>8. FramesTell(E) /\ BuilderTells(E) /\ RunsWhereTold /\ \A x \in Contracts : ContractTells(x, E)
    BY DEF Tells
  <1>9. RightOf(c, v, E)
    BY <1>1, <1>2, <1>3, <1>8, CallTells DEF FrameTells
  <1>10. \A i \in 1 .. Len(<<g>>) : FrameTells(<<g>>[Len(<<g>>) - i + 1], t, E)'
    <2>1. FrameTells(g, t, E)'
      BY <1>2, FrameFields, PlainTells
    <2> QED BY <2>1, OneTells
  <1>11. ASSUME NEW x \in Contracts PROVE ContractTells(x, E)'
    <2>1. CASE x # c
      BY <1>4, <1>6, <1>7, <1>8, <2>1, ContractTellsStay
    <2>2. CASE x = c
      <3>1. RightOf(c, v, E)'
        BY <1>4, <1>9, TellsStay
      <3>2. \A cb : Link(c, cb, E)' <=> Link(c, cb, E)
        BY <1>4, TellsStay
      <3>3. \A k : On(k)' = On(k)
        BY <1>4, TellsStay
      <3>4. None' = None /\ Nothing' = Nothing
        BY DEF None, Nothing
      <3> QED BY <1>6, <1>7, <1>8, <2>2, <3>1, <3>2, <3>3, <3>4 DEF ContractTells
    <2> QED BY <2>1, <2>2
  <1>12. BuilderTells(E)' /\ RunsWhereTold'
    BY <1>4, <1>6, <1>8, BuilderTellsStay, RunsStay
  <1> QED BY <1>4, <1>5, <1>6, <1>10, <1>11, <1>12, TellsOn

\* A contract that is submitted to the inline scheduler may run anywhere.
LEMMA MeetTells ==
  ASSUME Typed, NEW t \in Threads, NEW P, NEW C, NEW Q, Owned(P, C, Q), NEW E, Tells(E), ~ Idle(t),
         Top(t).at \in {"produce", "consume"}, NEW me, NEW other, Meet(t, me, other),
         UNCHANGED <<steps, program, value, built, future, promise, callback, scheduler, task, box, got, ranOn>>
  PROVE  Tells(E)'
  <1>1. PICK f, b : Calling(t, f, b, P, C, Q)
    BY IsCalling
  <1>2. PICK c, g : c = f.c /\ g = Frame("run", c, Nothing)
    OBVIOUS
  <1>3. c \in Contracts /\ b \in Nat /\ Len(stack[t]) = b + 1 /\ c = Top(t).c
    BY <1>1, <1>2 DEF Calling
  <1>4. StepsRight
    BY DEF Typed
  <1>5. /\ <<g>> \in Seq(Frames) /\ <<>> \in Seq(Frames) /\ g.at = "run" /\ g.c = c
    <2>1. g \in Frames
      BY <1>2, <1>3, <1>4, FramesAreTyped, ValueParts DEF Labels
    <2> QED BY <1>2, <2>1, FrameFields
  <1>6. \/ Then(t, <<g>>) /\ pool' = pool /\ scheduler[c] = "Inline"
        \/ Then(t, <<>>) /\ pool' = pool
        \/ Then(t, <<>>) /\ pool' = pool \union {<<"contract", c>>}
    BY <1>2, <1>3 DEF Meet, SubmitContract, SubmitInline, SubmitToPool
  <1>7. FramesTell(E) /\ BuilderTells(E) /\ RunsWhereTold /\ \A x \in Contracts : ContractTells(x, E)
    BY DEF Tells
  <1>8. PICK fs : /\ fs \in Seq(Frames) /\ Then(t, fs)
                  /\ fs = <<>> \/ (fs = <<g>> /\ scheduler[c] = "Inline")
    BY <1>5, <1>6
  <1>9. Changes(t, b, fs)
    BY <1>3, <1>8, ThenFrames
  <1>10. \A i \in 1 .. Len(fs) : FrameTells(fs[Len(fs) - i + 1], t, E)'
    <2>1. CASE fs = <<>>
      BY <2>1
    <2>2. CASE fs = <<g>> /\ scheduler[c] = "Inline"
      <3>1. FrameTells(g, t, E)'
        BY <1>5, <2>2 DEF FrameTells
      <3> QED BY <2>2, <3>1, OneTells
    <2> QED BY <1>8, <2>1, <2>2
  <1>11. ASSUME NEW x \in Contracts PROVE ContractTells(x, E)'
    <2>1. <<"task", x>> \in pool' => <<"task", x>> \in pool
      BY <1>6
    <2> QED BY <1>4, <1>7, <2>1, ContractTellsStay
  <1>12. BuilderTells(E)' /\ RunsWhereTold'
    BY <1>4, <1>7, BuilderTellsStay, RunsStay
  <1> QED BY <1>8, <1>9, <1>10, <1>11, <1>12, TellsOn

LEMMA WordsTell ==
  ASSUME Typed, NEW t \in Threads, NEW P, NEW C, NEW Q, Owned(P, C, Q), NEW E, Tells(E),
         Produce(t) \/ ConsumeWord(t)
  PROVE  Tells(E)'
  <1>1. ~ Idle(t) /\ Top(t).at \in {"produce", "consume"}
    BY DEF Produce, ConsumeWord, At
  <1>2. UNCHANGED <<steps, program, value, built, future, promise, callback, scheduler, task, box, got, ranOn>>
    BY DEF Produce, ConsumeWord
  <1>3. Meet(t, "Produced", "Consumed") \/ Meet(t, "Consumed", "Produced")
    BY DEF Produce, ConsumeWord
  <1> QED BY <1>1, <1>2, <1>3, MeetTells

LEMMA SetCallbackTells ==
  ASSUME Typed, NEW t \in Threads, NEW P, NEW C, NEW Q, Owned(P, C, Q), NEW E, Tells(E), SetCallback(t)
  PROVE  Tells(E)'
  <1>1. PICK f, b : Calling(t, f, b, P, C, Q)
    BY IsCalling DEF SetCallback, At
  <1>2. PICK c, cb, on, g : c = f.c /\ cb = f.cb /\ on = f.on /\ g = Frame("consume", c, Nothing)
    OBVIOUS
  <1>3. /\ c \in Contracts /\ b \in Nat /\ Len(stack[t]) = b + 1 /\ ~ Idle(t) /\ f.at = "attach"
        /\ C[c] = <<"frame", t, b + 1>>
    BY <1>1, <1>2 DEF Calling, FrameRight, SetCallback, At
  <1>4. StepsRight /\ steps' = steps /\ program' = program
    BY DEF Typed, SetCallback
  <1>5. Changes(t, b, <<g>>) /\ <<g>> \in Seq(Frames)
    <2>1. g \in Frames
      BY <1>2, <1>3, <1>4, FramesAreTyped, ValueParts DEF Labels
    <2>2. Then(t, <<g>>)
      BY <1>1, <1>2 DEF SetCallback, Calling, Then
    <2>3. <<g>> \in Seq(Frames)
      BY <2>1
    <2> QED BY <1>3, <2>2, <2>3, ThenFrames
  <1>6. /\ callback' = [callback EXCEPT ![c] = cb] /\ scheduler' = [scheduler EXCEPT ![c] = on]
        /\ UNCHANGED <<built, future, promise, value, task, pool, box, got, ranOn>>
    BY <1>1, <1>2 DEF SetCallback, Calling
  <1>7. /\ callback'[c] = cb /\ scheduler'[c] = on
        /\ \A x \in Contracts : x # c => callback'[x] = callback[x] /\ scheduler'[x] = scheduler[x]
    BY <1>3, <1>6 DEF Typed
  <1>8. FramesTell(E) /\ BuilderTells(E) /\ RunsWhereTold /\ \A x \in Contracts : ContractTells(x, E)
    BY DEF Tells
  <1>9. Link(c, cb, E) /\ (cb[2] = "outer" => on = On(cb[1]))
    BY <1>1, <1>2, <1>3, <1>8, CallTells DEF FrameTells
  <1>10. \A i \in 1 .. Len(<<g>>) : FrameTells(<<g>>[Len(<<g>>) - i + 1], t, E)'
    <2>1. FrameTells(g, t, E)'
      BY <1>2, FrameFields, PlainTells
    <2> QED BY <2>1, OneTells
  <1>11. ASSUME NEW x \in Contracts PROVE ContractTells(x, E)'
    <2>1. CASE x # c
      BY <1>4, <1>6, <1>7, <1>8, <2>1, ContractTellsStay
    <2>2. CASE x = c
      <3>1. \A v : RightOf(c, v, E)' <=> RightOf(c, v, E)
        BY <1>4, TellsStay
      <3>2. Link(c, cb, E)'
        BY <1>4, <1>9, TellsStay
      <3>3. \A k : On(k)' = On(k)
        BY <1>4, TellsStay
      <3>4. None' = None /\ Nothing' = Nothing
        BY DEF None, Nothing
      <3> QED BY <1>6, <1>7, <1>8, <1>9, <2>2, <3>1, <3>2, <3>3, <3>4 DEF ContractTells
    <2> QED BY <2>1, <2>2
  <1>12. BuilderTells(E)' /\ RunsWhereTold'
    BY <1>4, <1>6, <1>8, BuilderTellsStay, RunsStay
  <1>13. \A x \in Contracts : Q[x][1] = "run" => scheduler'[x] = scheduler[x]
    <2>1. C[c][1] # "done"
      BY <1>3
    <2>2. Q[c][1] = "no"
      BY <1>3, <2>1, WhatWordsSay DEF Owned
    <2> QED BY <1>7, <2>2
  <1> QED BY <1>4, <1>5, <1>10, <1>11, <1>12, <1>13, TellsOn

LEMMA ReturnsTell ==
  ASSUME Typed, NEW t \in Threads, NEW P, NEW C, NEW Q, Owned(P, C, Q), NEW E, Tells(E),
         Delete(t) \/ Fire(t) \/ ConstructBox(t)
  PROVE  Tells(E)'
  <1>1. PICK f, b : Calling(t, f, b, P, C, Q)
    BY IsCalling DEF Delete, Fire, ConstructBox, At
  <1>2. b \in Nat /\ Len(stack[t]) = b + 1 /\ ~ Idle(t) /\ Top(t) = f
    BY <1>1 DEF Calling
  <1>3. /\ StepsRight /\ steps' = steps /\ program' = program
        /\ UNCHANGED <<built, future, promise, value, callback, scheduler, task, pool, got, ranOn>>
        /\ Then(t, <<>>)
    BY DEF Typed, Delete, Fire, ConstructBox
  <1>4. <<>> \in Seq(Frames)
    OBVIOUS
  <1>5. Changes(t, b, <<>>)
    BY <1>2, <1>3, <1>4, ThenFrames
  <1>6. FramesTell(E) /\ BuilderTells(E) /\ RunsWhereTold /\ \A x \in Contracts : ContractTells(x, E)
    BY DEF Tells
  <1>7. box' = box \/ box' = E[N]
    <2>1. ASSUME ConstructBox(t) PROVE box' = E[N]
      <3>1. f.at = "box" /\ box' = f.v
        BY <1>2, <2>1 DEF ConstructBox, At
      <3> QED BY <1>1, <1>6, <3>1, CallTells DEF FrameTells
    <2> QED BY <2>1 DEF Delete, Fire
  <1>8. \A i \in 1 .. Len(<<>>) : FrameTells(<<>>[Len(<<>>) - i + 1], t, E)'
    OBVIOUS
  <1>9. \A x \in Contracts : ContractTells(x, E)'
    BY <1>3, <1>6, ContractTellsStay
  <1>10. BuilderTells(E)' /\ RunsWhereTold'
    BY <1>3, <1>6, <1>7, BuilderTellsStay, RunsStay
  <1> QED BY <1>3, <1>4, <1>5, <1>8, <1>9, <1>10, TellsOn

\* The value that the task of a user's function is given is that of its step.
LEMMA UserTells ==
  ASSUME Typed, NEW t \in Threads, NEW P, NEW C, NEW Q, Owned(P, C, Q), NEW E, Tells(E), User(t)
  PROVE  Tells(E)'
  <1>1. PICK f, b : Calling(t, f, b, P, C, Q)
    BY IsCalling DEF User, At
  <1>2. b \in Nat /\ Len(stack[t]) = b + 1 /\ ~ Idle(t) /\ Top(t) = f /\ f.at = "user"
    BY <1>1 DEF Calling, User, At
  <1>3. PICK k \in 1 .. N - 1 : f.c = Inner(k)
    BY <1>1, <1>2 DEF Calling, FrameRight
  <1>4. /\ StepsRight /\ steps' = steps /\ program' = program
        /\ UNCHANGED <<built, future, promise, value, callback, scheduler, box, got, ranOn>>
        /\ Then(t, <<>>) /\ f.c[1] = k /\ Inner(k)[1] = k
    BY <1>3, ContractParts DEF Typed, User
  <1>5. /\ task' = [task EXCEPT ![Inner(k)] = Outcome(k, f.v)]
        /\ pool' = pool \union {<<"task", Inner(k)>>}
    BY <1>2, <1>3, <1>4 DEF User, Submit
  <1>6. <<>> \in Seq(Frames)
    OBVIOUS
  <1>7. Changes(t, b, <<>>)
    BY <1>2, <1>4, <1>6, ThenFrames
  <1>8. FramesTell(E) /\ BuilderTells(E) /\ RunsWhereTold /\ \A x \in Contracts : ContractTells(x, E)
    BY DEF Tells
  <1>9. Outcome(k, f.v) = E[k]
    BY <1>1, <1>2, <1>4, <1>8, CallTells DEF FrameTells
  <1>10. \A i \in 1 .. Len(<<>>) : FrameTells(<<>>[Len(<<>>) - i + 1], t, E)'
    OBVIOUS
  <1>11. ASSUME NEW x \in Contracts PROVE ContractTells(x, E)'
    <2>1. CASE x # Inner(k)
      <3>1. task'[x] = task[x] /\ (<<"task", x>> \in pool' => <<"task", x>> \in pool)
        BY <1>5, <2>1 DEF Typed
      <3> QED BY <1>4, <1>8, <3>1, ContractTellsStay
    <2>2. CASE x = Inner(k)
      <3>1. task'[x] = E[x[1]]
        BY <1>4, <1>5, <1>9, <2>2 DEF Typed
      <3>2. \A v : RightOf(x, v, E)' <=> RightOf(x, v, E)
        BY <1>4, TellsStay
      <3>3. \A cb : Link(x, cb, E)' <=> Link(x, cb, E)
        BY <1>4, TellsStay
      <3>4. \A j : On(j)' = On(j)
        BY <1>4, TellsStay
      <3>5. None' = None /\ Nothing' = Nothing
        BY DEF None, Nothing
      <3> QED BY <1>4, <1>8, <3>1, <3>2, <3>3, <3>4, <3>5 DEF ContractTells
    <2> QED BY <2>1, <2>2
  <1>12. BuilderTells(E)' /\ RunsWhereTold'
    BY <1>4, <1>8, BuilderTellsStay, RunsStay
  <1> QED BY <1>4, <1>6, <1>7, <1>10, <1>11, <1>12, TellsOn

\* What the callback of step k is called on.
Fed(k, v, E) ==
    v = E[k - 1] \/ (steps[k].pipe = "Flatten" /\ v = AFuture(k - 1))

\* The callback hands on what the pipeline of results computes, or the future
\* of it, or asks a user's function for it.
Answers(fs, k, v, E) ==
    \/ \E w : fs = <<SetValue(Outer(k), w)>> /\ RightOf(Outer(k), w, E)
    \/ HandsOut(fs, k, v) /\ FutureMap(k) /\ Outcome(k, v) = E[k]
    \/ Asks(fs, k, v) /\ Outcome(k, v) = E[k]
    \/ fs = <<Await(Inner(k - 1), k)>> /\ E[k] = E[k - 1]
    \/ Delivers(fs, v) /\ v = E[N]
    \/ fs = <<>>

LEMMA LambdaAnswers ==
  ASSUME StepsRight, NEW E, IsEvaluation(E), NEW k \in Consumers, NEW v, Fed(k, v, E)
  PROVE  Answers(Lambda(k, v), k, v, E)
  <1>1. /\ k \in 1 .. N /\ N \in Nat /\ k - 1 \in 0 .. N /\ steps[k].pipe # "Via"
        /\ steps[k].pipe \in Combinators \union {"Get", "Detach"}
        /\ steps[k].pipe \in {"Get", "Detach"} <=> k = N
    BY DEF Consumers, StepsRight
  <1>2. E[k] = Evaluate(k, E[k - 1]) /\ IsResult(E[k - 1])
    BY <1>1, EvaluationIs
  <1>3. Outer(k)[1] = k /\ Outer(k)[2] = "outer"
    BY ContractParts
  <1>4. ASSUME NEW w, w = E[k] \/ (FutureMap(k) /\ w = AFuture(k)), Lambda(k, v) = <<SetValue(Outer(k), w)>>
        PROVE  Answers(Lambda(k, v), k, v, E)
    BY <1>3, <1>4 DEF Answers, RightOf
  <1>5. CASE steps[k].pipe = "Flatten"
    <2>1. E[k] = E[k - 1]
      BY <1>1, <1>2, <1>5, EvaluateIs
    <2>2. Lambda(k, v) = <<IF v.tag = "Future" THEN Await(Inner(v.by[1]), k) ELSE SetValue(Outer(k), v)>>
      BY <1>5 DEF Lambda, FlattenLambda
    <2>3. CASE v = AFuture(k - 1)
      <3>1. v.tag = "Future" /\ v.by[1] = k - 1
        BY <2>3 DEF AFuture
      <3>2. Lambda(k, v) = <<Await(Inner(k - 1), k)>>
        BY <2>2, <3>1
      <3> QED BY <2>1, <3>2 DEF Answers
    <2>4. CASE v = E[k - 1]
      <3>1. v.tag # "Future"
        BY <1>2, <2>4 DEF IsResult
      <3>2. Lambda(k, v) = <<SetValue(Outer(k), v)>>
        BY <2>2, <3>1
      <3> QED BY <1>4, <2>1, <2>4, <3>2
    <2> QED BY <2>3, <2>4 DEF Fed
  <1>6. CASE steps[k].pipe # "Flatten"
    <2>1. v = E[k - 1] /\ E[k] = Evaluate(k, v)
      BY <1>2, <1>6 DEF Fed
    <2>2. CASE steps[k].pipe = "Map"
      <3>1. CASE steps[k].arg = "value"
        <4>1. E[k] = R!Ok(Append(v.by, k))
          BY <1>1, <2>1, <2>2, <3>1, EvaluateIs
        <4>2. Lambda(k, v) = <<SetValue(Outer(k), R!Ok(Append(v.by, k)))>>
          BY <2>2, <3>1 DEF Lambda, MapLambda
        <4> QED BY <1>4, <4>1, <4>2
      <3>2. CASE steps[k].arg # "value"
        <4>1. E[k] = Outcome(k, v) /\ FutureMap(k)
          BY <1>1, <2>1, <2>2, <3>2, EvaluateIs DEF FutureMap, GivesFuture
        <4>2. CASE steps[k].arg = "tryfuture" /\ k \in program.failing
          <5>1. Outcome(k, v).tag # "Future"
            BY OutcomeIsPlain DEF IsResult
          <5>2. Lambda(k, v) = <<>> \o <<SetValue(Outer(k), Outcome(k, v))>>
            BY <2>2, <3>2, <4>2, <5>1 DEF Lambda, MapLambda
          <5>3. Lambda(k, v) = <<SetValue(Outer(k), Outcome(k, v))>>
            <6> HIDE DEF SetValue
            <6> QED BY <5>2
          <5> QED BY <1>4, <4>1, <5>3
        <4>3. CASE ~ (steps[k].arg = "tryfuture" /\ k \in program.failing)
          <5>1. AFuture(k).tag = "Future"
            BY DEF AFuture
          <5>2. Lambda(k, v) = <<CallUser(k, v)>> \o <<SetValue(Outer(k), AFuture(k))>>
            BY <2>2, <3>2, <4>3, <5>1 DEF Lambda, MapLambda
          <5>3. Lambda(k, v) = <<CallUser(k, v), SetValue(Outer(k), AFuture(k))>>
            <6>1. \A a, b : <<a>> \o <<b>> = <<a, b>>
              BY RowsOfCalls
            <6> QED BY <5>2, <6>1
          <5> QED BY <4>1, <5>3 DEF Answers, HandsOut
        <4> QED BY <4>2, <4>3
      <3> QED BY <3>1, <3>2
    <2>3. CASE steps[k].pipe = "MapOk"
      <3>1. E[k] = R!Map(v, R!Ok(Append(v.by, k)))
        BY <1>1, <2>1, <2>3, EvaluateIs
      <3>2. Lambda(k, v) = <<SetValue(Outer(k), R!Map(v, R!Ok(Append(v.by, k))))>>
        BY <2>3 DEF Lambda, MapOkLambda
      <3> QED BY <1>4, <3>1, <3>2
    <2>4. CASE steps[k].pipe = "AndThen"
      <3>1. E[k] = IF R!IsOk(v) THEN Outcome(k, v) ELSE v
        BY <1>1, <2>1, <2>4, EvaluateIs
      <3>2. Lambda(k, v) = AndThenLambda(k, v)
        BY <2>4 DEF Lambda
      <3>3. CASE R!IsOk(v)
        BY <3>1, <3>2, <3>3 DEF AndThenLambda, Answers, Asks
      <3>4. CASE ~ R!IsOk(v)
        BY <1>4, <3>1, <3>2, <3>4 DEF AndThenLambda
      <3> QED BY <3>3, <3>4
    <2>5. CASE steps[k].pipe = "OrElse"
      <3>1. E[k] = IF R!IsOk(v) THEN v ELSE Outcome(k, v)
        BY <1>1, <2>1, <2>5, EvaluateIs
      <3>2. Lambda(k, v) = OrElseLambda(k, v)
        BY <2>5 DEF Lambda
      <3>3. CASE R!IsOk(v)
        BY <1>4, <3>1, <3>2, <3>3 DEF OrElseLambda
      <3>4. CASE ~ R!IsOk(v)
        BY <3>1, <3>2, <3>4 DEF OrElseLambda, Answers, Asks
      <3> QED BY <3>3, <3>4
    <2>6. CASE steps[k].pipe = "AsTryFuture"
      <3>1. E[k] = v
        BY <1>1, <2>1, <2>6, EvaluateIs
      <3>2. Lambda(k, v) = <<SetValue(Outer(k), v)>>
        BY <2>6 DEF Lambda, AsTryFutureLambda
      <3> QED BY <1>4, <3>1, <3>2
    <2>7. CASE steps[k].pipe \in {"Get", "Detach"}
      <3>1. E[k] = v /\ k = N
        BY <1>1, <2>1, <2>7, EvaluateIs
      <3>2. Lambda(k, v) \in {<<Frame("box", None, v), Frame("fire", None, Nothing)>>, <<>>}
        BY <2>7 DEF Lambda, GetLambda, DetachLambda
      <3> QED BY <3>1, <3>2 DEF Answers, Delivers
    <2> QED BY <1>1, <1>6, <2>2, <2>3, <2>4, <2>5, <2>6, <2>7 DEF Combinators
  <1> QED BY <1>5, <1>6

\* The frames of the callback, and the one that deletes the contract, tell the same.
LEMMA AnswersTell ==
  ASSUME StepsRight, steps' = steps, program' = program, NEW E, NEW k \in 1 .. N, NEW v, NEW m,
         Answers(m, k, v, E), NEW h, h.at = "delete", NEW t, NEW fs, fs = Append(m, h)
  PROVE  \A i \in 1 .. Len(fs) : FrameTells(fs[Len(fs) - i + 1], t, E)'
  <1>1. /\ \A c, w : RightOf(c, w, E)' <=> RightOf(c, w, E)
        /\ \A c, cb : Link(c, cb, E)' <=> Link(c, cb, E)
        /\ \A j, w : Outcome(j, w)' = Outcome(j, w)
    BY TellsStay
  <1>2. FrameTells(h, t, E)'
    BY PlainTells
  <1>3. Inner(k)[1] = k /\ Inner(k)[2] = "inner" /\ Inner(k - 1)[1] = k - 1 /\ Inner(k - 1)[2] = "inner"
        /\ N' = N
    BY ContractParts, StepsStay
  <1>4. ASSUME NEW f, NEW w, f = SetValue(Outer(k), w), RightOf(Outer(k), w, E)
        PROVE  FrameTells(f, t, E)'
    <2>1. f.at = "set" /\ f.c = Outer(k) /\ f.v = w
      BY <1>4, FrameFields
    <2> QED BY <1>1, <1>4, <2>1 DEF FrameTells
  <1>5. ASSUME NEW f, f = CallUser(k, v), Outcome(k, v) = E[k]
        PROVE  FrameTells(f, t, E)'
    <2>1. f.at = "user" /\ f.c = Inner(k) /\ f.v = v
      BY <1>5, FrameFields
    <2> QED BY <1>1, <1>3, <1>5, <2>1 DEF FrameTells
  <1>6. ASSUME NEW f, NEW j, f = Await(Inner(j), k), E[j] = E[k], Inner(j)[1] = j, Inner(j)[2] = "inner"
        PROVE  FrameTells(f, t, E)'
    <2>1. f.at = "attach" /\ f.c = Inner(j) /\ f.cb = Inner(k)
      BY <1>6, FrameFields
    <2>2. Link(Inner(j), Inner(k), E)
      BY <1>3, <1>6 DEF Link
    <2> QED BY <1>1, <1>3, <2>1, <2>2 DEF FrameTells
  <1>7. CASE \E w : m = <<SetValue(Outer(k), w)>> /\ RightOf(Outer(k), w, E)
    <2>1. PICK w, f : f = SetValue(Outer(k), w) /\ m = <<f>> /\ RightOf(Outer(k), w, E)
      BY <1>7
    <2>2. fs = <<f, h>>
      BY <2>1, RowsOfCalls
    <2> QED BY <1>2, <1>4, <2>1, <2>2, TwoTell
  <1>8. CASE HandsOut(m, k, v) /\ FutureMap(k) /\ Outcome(k, v) = E[k]
    <2>1. PICK f, g : f = CallUser(k, v) /\ g = SetValue(Outer(k), AFuture(k)) /\ m = <<f, g>>
      BY <1>8 DEF HandsOut
    <2>2. fs = <<f, g, h>>
      BY <2>1, RowsOfCalls
    <2>3. RightOf(Outer(k), AFuture(k), E)
      BY <1>8, ContractParts DEF RightOf
    <2>4. FrameTells(f, t, E)' /\ FrameTells(g, t, E)'
      BY <1>4, <1>5, <1>8, <2>1, <2>3
    <2> QED BY <1>2, <2>2, <2>4, ThreeTell
  <1>9. CASE Asks(m, k, v) /\ Outcome(k, v) = E[k]
    <2>1. PICK f, g : f = CallUser(k, v) /\ g = Await(Inner(k), k) /\ m = <<f, g>>
      BY <1>9 DEF Asks
    <2>2. fs = <<f, g, h>>
      BY <2>1, RowsOfCalls
    <2>3. FrameTells(f, t, E)' /\ FrameTells(g, t, E)'
      BY <1>3, <1>5, <1>6, <1>9, <2>1
    <2> QED BY <1>2, <2>2, <2>3, ThreeTell
  <1>10. CASE m = <<Await(Inner(k - 1), k)>> /\ E[k] = E[k - 1]
    <2>1. PICK f : f = Await(Inner(k - 1), k) /\ m = <<f>>
      BY <1>10
    <2>2. fs = <<f, h>>
      BY <2>1, RowsOfCalls
    <2>3. FrameTells(f, t, E)'
      BY <1>3, <1>6, <1>10, <2>1
    <2> QED BY <1>2, <2>2, <2>3, TwoTell
  <1>11. CASE Delivers(m, v) /\ v = E[N]
    <2>1. PICK f, g : f = Frame("box", None, v) /\ g = Frame("fire", None, Nothing) /\ m = <<f, g>>
      BY <1>11 DEF Delivers
    <2>2. fs = <<f, g, h>>
      BY <2>1, RowsOfCalls
    <2>3. f.at = "box" /\ f.v = v /\ g.at = "fire"
      BY <2>1, FrameFields
    <2>4. FrameTells(f, t, E)' /\ FrameTells(g, t, E)'
      BY <1>3, <1>11, <2>3 DEF FrameTells
    <2> QED BY <1>2, <2>2, <2>4, ThreeTell
  <1>12. CASE m = <<>>
    <2>1. fs = <<h>>
      BY <1>12
    <2> QED BY <1>2, <2>1, OneTells
  <1> QED BY <1>7, <1>8, <1>9, <1>10, <1>11, <1>12 DEF Answers

LEMMA RunTells ==
  ASSUME Typed, NEW t \in Threads, NEW P, NEW C, NEW Q, Owned(P, C, Q), NEW E, Tells(E), Run(t)
  PROVE  Tells(E)'
  <1>1. PICK f, b : Calling(t, f, b, P, C, Q)
    BY IsCalling DEF Run, At
  <1>2. PICK c, k, v, m, h : /\ c = f.c /\ k = callback[c][1] /\ v = value[c]
                             /\ m = Made(t) /\ h = Frame("delete", c, Nothing)
    OBVIOUS
  <1>3. /\ c \in Contracts /\ b \in Nat /\ Len(stack[t]) = b + 1 /\ ~ Idle(t) /\ Top(t).at = "run"
        /\ c = Top(t).c /\ f.at = "run"
    BY <1>1, <1>2 DEF Calling, Run, At
  <1>4. StepsRight /\ steps' = steps /\ program' = program
    BY DEF Typed, Run
  <1>5. /\ k \in 1 .. N /\ v \in Values /\ v # Nothing
        /\ callback[c] = Inner(k) => k < N /\ m = <<SetValue(Outer(k), v)>>
        /\ callback[c] # Inner(k) => callback[c] = Outer(k) /\ k \in Consumers /\ m = Lambda(k, v)
        /\ Continues(m, k, v)
    <2>1. callback[c] = Inner(k) => m = <<SetValue(Outer(k), v)>>
      BY <1>2, <1>3 DEF Made
    <2>2. callback[c] # Inner(k) => m = Lambda(k, v)
      BY <1>2, <1>3 DEF Made
    <2> QED BY <1>2, <1>3, <2>1, <2>2, OwnedTop, RunContinues
  <1>6. /\ value' = [value EXCEPT ![c] = Nothing]
        /\ Then(t, Append(m, h))
        /\ UNCHANGED <<built, future, promise, callback, scheduler, task, pool, box, got>>
        /\ ranOn' = ranOn \/ (callback[c] # Inner(k) /\ Calls(k, v) /\ ranOn' = [ranOn EXCEPT ![k] = t])
    <2>1. Top(t).c = c /\ Run(t)
      BY <1>3
    <2> QED BY <1>2, <2>1 DEF Run, CallBack, Made
  <1>7. h \in Frames /\ h.at = "delete" /\ m \in Seq(Frames)
    <2>1. h \in Frames
      BY <1>2, <1>3, <1>4, FramesAreTyped, ValueParts DEF Labels
    <2> QED BY <1>2, <1>4, <1>5, <2>1, ContinuesTyped, FrameFields
  <1>8. PICK fs : fs = Append(m, h)
    OBVIOUS
  <1>9. fs \in Seq(Frames) /\ Changes(t, b, fs)
    <2>1. fs \in Seq(Frames)
      BY <1>7, <1>8
    <2> QED BY <1>3, <1>6, <1>8, <2>1, ThenFrames
  <1>10. /\ IsEvaluation(E) /\ FramesTell(E) /\ BuilderTells(E) /\ RunsWhereTold
         /\ \A x \in Contracts : ContractTells(x, E)
    BY DEF Tells
  <1>11. RightOf(c, v, E)
    BY <1>2, <1>3, <1>5, <1>10 DEF ContractTells
  <1>12. /\ Outer(k) # None /\ Inner(k) # None
         /\ Outer(k)[1] = k /\ Inner(k)[1] = k /\ Outer(k)[2] = "outer" /\ Inner(k)[2] = "inner"
    BY <1>4, ContractParts
  <1>13. ASSUME callback[c] # Inner(k)
         PROVE  Link(c, Outer(k), E) /\ scheduler[c] = On(k)
    <2>1. ContractTells(c, E)
      BY <1>3, <1>10
    <2>2. callback[c] = Outer(k)
      BY <1>5, <1>13
    <2>3. \A cb : cb = Outer(k) => Link(c, cb, E) /\ (cb[2] = "outer" => scheduler[c] = On(cb[1]))
      BY <1>12, <2>1, <2>2 DEF ContractTells
    <2> QED BY <1>12, <2>3
  <1>14. Answers(m, k, v, E)
    <2>1. CASE callback[c] = Inner(k)
      <3>1. Link(c, Inner(k), E)
        BY <1>3, <1>10, <1>12, <2>1 DEF ContractTells
      <3>2. v = E[k]
        BY <1>11, <1>12, <3>1 DEF Link, RightOf
      <3> QED BY <1>5, <1>12, <2>1, <3>2 DEF Answers, RightOf
    <2>2. CASE callback[c] # Inner(k)
      <3>1. Fed(k, v, E)
        BY <1>11, <1>12, <1>13, <2>2 DEF Link, RightOf, Fed
      <3> QED BY <1>4, <1>5, <1>10, <2>2, <3>1, LambdaAnswers
    <2> QED BY <2>1, <2>2
  <1>15. \A i \in 1 .. Len(fs) : FrameTells(fs[Len(fs) - i + 1], t, E)'
    BY <1>4, <1>5, <1>7, <1>8, <1>14, AnswersTell
  <1>16. ASSUME NEW x \in Contracts PROVE ContractTells(x, E)'
    <2>1. value'[x] = value[x] \/ value'[x] = Nothing
      BY <1>6 DEF Typed
    <2> QED BY <1>4, <1>6, <1>10, <2>1, ContractTellsStay
  <1>17. BuilderTells(E)'
    BY <1>4, <1>6, <1>10, BuilderTellsStay
  <1>18. RunsWhereTold'
    <2>1. CASE ranOn' = ranOn
      BY <1>4, <1>10, <2>1, RunsStay
    <2>2. CASE callback[c] # Inner(k) /\ Calls(k, v) /\ ranOn' = [ranOn EXCEPT ![k] = t]
      <3>1. scheduler[c] = ToldToRunOn(k)
        BY <1>13, <2>2 DEF Calls, On
      <3>2. scheduler[c] = "Pool" => t \in Workers
        BY <1>1, <1>2, <1>3, <1>10, CallTells DEF FrameTells
      <3>3. N' = N /\ \A j : ToldToRunOn(j)' = ToldToRunOn(j)
        BY <1>4, StepsStay, ToldStays
      <3>4. \A j \in 1 .. N : ToldToRunOn(j)' = "Pool" => ranOn'[j] \in Workers \union {Nobody}
        <4> SUFFICES ASSUME NEW j \in 1 .. N, ToldToRunOn(j) = "Pool"
                     PROVE  ranOn'[j] \in Workers \union {Nobody}
          BY <3>3
        <4>1. j \in 0 .. N
          BY <1>4 DEF StepsRight
        <4>2. CASE j = k
          BY <2>2, <3>1, <3>2, <4>1, <4>2 DEF Typed
        <4>3. CASE j # k
          BY <1>10, <2>2, <4>1, <4>3 DEF Typed, RunsWhereTold
        <4> QED BY <4>2, <4>3
      <3> QED BY <3>3, <3>4 DEF RunsWhereTold, Nobody
    <2> QED BY <1>6, <2>1, <2>2
  <1> QED BY <1>4, <1>6, <1>9, <1>15, <1>16, <1>17, <1>18, TellsOn

\* A worker has a task of the pool or a contract that was submitted to the pool.
LEMMA WorkTells ==
  ASSUME Typed, NEW w \in Workers, NEW P, NEW C, NEW Q, Owned(P, C, Q), NEW E, Tells(E), Work(w)
  PROVE  Tells(E)'
  <1>1. PICK job \in pool :
          /\ Idle(w)
          /\ pool' = pool \ {job}
          /\ Enter(w, IF job[1] = "contract"
                        THEN <<Frame("run", job[2], Nothing)>>
                        ELSE <<SetValue(job[2], task[job[2]]), Frame("free", job[2], Nothing)>>)
          /\ ranOn' = IF job = <<"task", Outer(0)>> THEN [ranOn EXCEPT ![0] = w] ELSE ranOn
    BY DEF Work
  <1>2. PICK c, g, h, i : /\ c = job[2] /\ g = Frame("run", c, Nothing) /\ h = SetValue(c, task[c])
                          /\ i = Frame("free", c, Nothing)
    OBVIOUS
  <1>3. /\ StepsRight /\ steps' = steps /\ program' = program /\ w \in Threads
        /\ UNCHANGED <<built, future, promise, value, callback, scheduler, task, box, got>>
    BY DEF Typed, Work, Threads
  <1>4. c \in Contracts /\ (job = <<"contract", c>> \/ job = <<"task", c>>)
    BY <1>2 DEF Typed
  <1>5. /\ FramesTell(E) /\ BuilderTells(E) /\ RunsWhereTold
        /\ \A x \in Contracts : ContractTells(x, E)
    BY DEF Tells
  <1>6. /\ <<g>> \in Seq(Frames) /\ <<h, i>> \in Seq(Frames)
        /\ g.at = "run" /\ h.at = "set" /\ h.c = c /\ h.v = task[c] /\ i.at = "free"
    <2>1. g \in Frames /\ h \in Frames /\ i \in Frames
      <3>1. Nothing \in Values /\ task[c] \in Values /\ c \in Contracts \union {None}
        BY <1>3, <1>4, ValueParts DEF Typed
      <3>2. "run" \in Labels /\ "set" \in Labels /\ "free" \in Labels
        BY DEF Labels
      <3> QED BY <1>2, <1>3, <3>1, <3>2, FramesAreTyped, FrameFields
    <2> QED BY <1>2, <2>1, FrameFields
  <1>7. PICK fs : /\ fs \in Seq(Frames) /\ Enter(w, fs)
                  /\ fs = <<g>> \/ (fs = <<h, i>> /\ <<"task", c>> \in pool)
    <2>1. CASE job = <<"contract", c>>
      <3>1. Enter(w, <<g>>)
        BY <1>1, <1>2, <2>1
      <3> QED BY <1>6, <3>1
    <2>2. CASE job = <<"task", c>>
      <3>1. Enter(w, <<h, i>>) /\ <<"task", c>> \in pool
        BY <1>1, <1>2, <2>2
      <3> QED BY <1>6, <3>1
    <2> QED BY <1>4, <2>1, <2>2
  <1>8. Changes(w, 0, fs)
    BY <1>1, <1>3, <1>7, EnterChanges
  <1>9. \A j \in 1 .. Len(fs) : FrameTells(fs[Len(fs) - j + 1], w, E)'
    <2>1. CASE fs = <<g>>
      <3>1. FrameTells(g, w, E)'
        BY <1>6 DEF FrameTells
      <3> QED BY <2>1, <3>1, OneTells
    <2>2. CASE fs = <<h, i>> /\ <<"task", c>> \in pool
      <3>1. RightOf(c, task[c], E)
        BY <1>4, <1>5, <2>2 DEF ContractTells, RightOf
      <3>2. PICK v : v = task[c]
        OBVIOUS
      <3>3. RightOf(c, v, E)'
        BY <1>3, <3>1, <3>2, TellsStay
      <3>4. FrameTells(h, w, E)' /\ FrameTells(i, w, E)'
        BY <1>6, <3>2, <3>3 DEF FrameTells
      <3> QED BY <2>2, <3>4, TwoTell
    <2> QED BY <1>7, <2>1, <2>2
  <1>10. \A x \in Contracts : ContractTells(x, E)'
    BY <1>1, <1>3, <1>5, ContractTellsStay
  <1>11. BuilderTells(E)'
    BY <1>3, <1>5, BuilderTellsStay
  <1>12. RunsWhereTold'
    <2>1. N' = N /\ \A j : ToldToRunOn(j)' = ToldToRunOn(j)
      BY <1>3, StepsStay, ToldStays
    <2>2. \A j \in 1 .. N : ranOn'[j] = ranOn[j]
      BY <1>1, <1>3 DEF Typed, StepsRight
    <2>3. \A j \in 1 .. N : ToldToRunOn(j)' = "Pool" => ranOn'[j] \in Workers \union {Nobody}
      BY <1>5, <2>1, <2>2 DEF RunsWhereTold
    <2> QED BY <2>1, <2>3 DEF RunsWhereTold, Nobody
  <1> QED BY <1>3, <1>7, <1>8, <1>9, <1>10, <1>11, <1>12, TellsOn

LEMMA SetTells ==
  ASSUME Typed, NEW P, NEW C, NEW Q, Owned(P, C, Q), NEW E, Tells(E), Set
  PROVE  Tells(E)'
  <1>1. PICK v, g : v = Outcome(0, Nothing) /\ g = SetValue(Outer(0), v)
    OBVIOUS
  <1>2. /\ IsEvaluation(E) /\ BuilderTells(E) /\ RunsWhereTold /\ \A x \in Contracts : ContractTells(x, E)
    BY DEF Tells
  <1>3. /\ StepsRight /\ steps' = steps /\ program' = program /\ Promiser \in Threads
        /\ UNCHANGED <<built, future, value, callback, scheduler, task, pool, box, got, ranOn>>
        /\ promise' = None
    BY DEF Typed, Set, Threads
  <1>4. promise = Outer(0)
    BY <1>2 DEF BuilderTells, Set
  <1>5. Enter(Promiser, <<g>>) /\ Idle(Promiser)
    BY <1>1, <1>4 DEF Set, Owned, BuilderRight
  <1>6. 0 \in 0 .. N /\ v \in Values /\ v = E[0] /\ Outer(0) \in Contracts /\ Outer(0)[1] = 0
    <2>1. v \in Values
      BY <1>1, <1>3, OutcomeIsResult, ValueParts
    <2>2. v = E[0]
      BY <1>1, <1>2, <1>3, EvaluationIs
    <2>3. 0 \in 0 .. N
      BY <1>3 DEF StepsRight
    <2> QED BY <1>3, <2>1, <2>2, <2>3, ContractParts
  <1>7. <<g>> \in Seq(Frames) /\ g.at = "set" /\ g.c = Outer(0) /\ g.v = v
    <2>1. g \in Frames
      BY <1>1, <1>3, <1>6, FramesAreTyped, FrameFields DEF Labels
    <2> QED BY <1>1, <2>1, FrameFields
  <1>8. Changes(Promiser, 0, <<g>>)
    BY <1>3, <1>5, <1>7, EnterChanges
  <1>9. \A j \in 1 .. Len(<<g>>) : FrameTells(<<g>>[Len(<<g>>) - j + 1], Promiser, E)'
    <2>1. RightOf(Outer(0), v, E)'
      BY <1>6 DEF RightOf
    <2>2. FrameTells(g, Promiser, E)'
      BY <1>7, <2>1 DEF FrameTells
    <2> QED BY <2>2, OneTells
  <1>10. \A x \in Contracts : ContractTells(x, E)'
    BY <1>2, <1>3, ContractTellsStay
  <1>11. BuilderTells(E)' /\ RunsWhereTold'
    BY <1>2, <1>3, BuilderTellsStay, RunsStay
  <1> QED BY <1>3, <1>7, <1>8, <1>9, <1>10, <1>11, TellsOn

-----------------------------------------------------------------------------
\* The steps of the builder.

LEMMA NoFrames ==
  ASSUME Typed, NEW t \in Threads, UNCHANGED stack
  PROVE  Changes(t, Len(stack[t]), <<>>)
  <1>1. stack[t] \in Seq(Frames) /\ Len(stack[t]) \in Nat
    BY DEF Typed
  <1> QED BY <1>1 DEF Changes

LEMMA MakeTells ==
  ASSUME Typed, NEW P, NEW C, NEW Q, Owned(P, C, Q), NEW E, Tells(E),
         MakeReady \/ MakeContract \/ MakeSubmitted
  PROVE  Tells(E)'
  <1>1. PICK v, g : v = Outcome(0, Nothing) /\ g = SetValue(Outer(0), v)
    OBVIOUS
  <1>2. /\ IsEvaluation(E) /\ BuilderTells(E) /\ RunsWhereTold /\ \A x \in Contracts : ContractTells(x, E)
    BY DEF Tells
  <1>3. /\ StepsRight /\ steps' = steps /\ program' = program /\ Builder \in Threads
        /\ UNCHANGED <<value, callback, scheduler, box, got, ranOn>>
        /\ built' = 1 /\ Idle(Builder) /\ future' = FutureOf(Outer(0), "Inline")
        /\ promise' \in {promise, Outer(0)}
    BY DEF Typed, MakeReady, MakeContract, MakeSubmitted, Make, Now, Threads
  <1>4. 0 \in 0 .. N /\ 1 \in 1 .. N /\ v \in Values /\ v = E[0] /\ Outer(0) \in Contracts
        /\ Outer(0)[1] = 0 /\ Outer(0)[2] = "outer"
    <2>1. v \in Values
      BY <1>1, <1>3, OutcomeIsResult, ValueParts
    <2>2. v = E[0]
      BY <1>1, <1>2, <1>3, EvaluationIs
    <2>3. 0 \in 0 .. N /\ 1 \in 1 .. N
      BY <1>3 DEF StepsRight
    <2> QED BY <1>3, <2>1, <2>2, <2>3, ContractParts
  <1>5. <<g>> \in Seq(Frames) /\ <<>> \in Seq(Frames) /\ g.at = "set" /\ g.c = Outer(0) /\ g.v = v
    <2>1. g \in Frames
      BY <1>1, <1>3, <1>4, FramesAreTyped, FrameFields DEF Labels
    <2> QED BY <1>1, <2>1, FrameFields
  <1>6. PICK b, fs : /\ fs \in Seq(Frames) /\ Changes(Builder, b, fs)
                     /\ fs = <<g>> \/ fs = <<>>
    <2>1. CASE MakeReady
      <3>1. Enter(Builder, <<g>>)
        BY <1>1, <2>1 DEF MakeReady
      <3>2. Changes(Builder, 0, <<g>>)
        BY <1>3, <1>5, <3>1, EnterChanges
      <3> QED BY <1>5, <3>2
    <2>2. CASE MakeContract \/ MakeSubmitted
      <3>1. UNCHANGED stack
        BY <2>2 DEF MakeContract, MakeSubmitted
      <3>2. Changes(Builder, Len(stack[Builder]), <<>>)
        BY <1>3, <3>1, NoFrames
      <3> QED BY <1>5, <3>2
    <2> QED BY <2>1, <2>2
  <1>7. \A j \in 1 .. Len(fs) : FrameTells(fs[Len(fs) - j + 1], Builder, E)'
    <2>1. RightOf(Outer(0), v, E)'
      BY <1>4 DEF RightOf
    <2>2. FrameTells(g, Builder, E)'
      BY <1>5, <2>1 DEF FrameTells
    <2>3. CASE fs = <<g>>
      BY <2>2, <2>3, OneTells
    <2>4. CASE fs = <<>>
      BY <2>4
    <2> QED BY <1>6, <2>3, <2>4
  <1>8. ASSUME NEW x \in Contracts PROVE ContractTells(x, E)'
    <2>1. CASE MakeReady \/ MakeContract \/ x # Outer(0)
      <3>1. <<"task", x>> \in pool' => <<"task", x>> \in pool /\ task'[x] = task[x]
        BY <1>4, <2>1 DEF MakeReady, MakeContract, MakeSubmitted, Submit, Typed
      <3> QED BY <1>2, <1>3, <3>1, ContractTellsStay
    <2>2. CASE MakeSubmitted /\ x = Outer(0)
      <3>1. task'[x] = E[x[1]]
        BY <1>1, <1>4, <2>2 DEF MakeSubmitted, Submit, Typed
      <3>2. \A u : RightOf(x, u, E)' <=> RightOf(x, u, E)
        BY <1>3, TellsStay
      <3>3. \A cb : Link(x, cb, E)' <=> Link(x, cb, E)
        BY <1>3, TellsStay
      <3>4. \A j : On(j)' = On(j)
        BY <1>3, TellsStay
      <3>5. None' = None /\ Nothing' = Nothing
        BY DEF None, Nothing
      <3> QED BY <1>2, <1>3, <3>1, <3>2, <3>3, <3>4, <3>5 DEF ContractTells
    <2> QED BY <2>1, <2>2
  <1>9. BuilderTells(E)'
    <2>1. /\ \A j : ToldToRunOn(j)' = ToldToRunOn(j)
          /\ \A j : FutureMap(j)' <=> FutureMap(j)
      BY <1>3, TellsStay
    <2>2. ToldToRunOn(1) = "Inline"
      BY <1>3, <1>4, ToldNext
    <2>3. Builds(1, Outer(0), E)'
      BY <1>4, <2>1 DEF Builds, FutureMap
    <2>4. N' = N /\ None' = None /\ Nothing' = Nothing /\ Outer(0)' = Outer(0)
      BY <1>3, StepsStay DEF None, Nothing, Outer
    <2>5. \A k \in 1 .. N : \A c : built' = k /\ c = future'.state =>
             Builds(k, c, E)' /\ future'.scheduler = ToldToRunOn(k)'
      BY <1>3, <2>1, <2>2, <2>3 DEF FutureOf
    <2> QED BY <1>2, <1>3, <2>4, <2>5 DEF BuilderTells
  <1>10. RunsWhereTold'
    BY <1>2, <1>3, RunsStay
  <1> QED BY <1>3, <1>6, <1>7, <1>8, <1>9, <1>10, TellsOn

LEMMA ViaTells ==
  ASSUME Typed, NEW P, NEW C, NEW Q, Owned(P, C, Q), NEW E, Tells(E), NEW k \in 1 .. N, Via(k)
  PROVE  Tells(E)'
  <1>1. /\ IsEvaluation(E) /\ BuilderTells(E) /\ RunsWhereTold /\ \A x \in Contracts : ContractTells(x, E)
    BY DEF Tells
  <1>2. /\ StepsRight /\ steps' = steps /\ program' = program /\ Builder \in Threads
        /\ UNCHANGED <<promise, value, callback, scheduler, task, pool, stack, box, got, ranOn>>
        /\ built = k /\ built' = k + 1 /\ steps[k].pipe = "Via"
        /\ future' = FutureOf(future.state, steps[k].arg)
    BY DEF Typed, Via, Now, Threads
  <1>3. <<>> \in Seq(Frames) /\ Changes(Builder, Len(stack[Builder]), <<>>)
    <2>1. <<>> \in Seq(Frames)
      OBVIOUS
    <2> QED BY <1>2, <2>1, NoFrames
  <1>4. \A j \in 1 .. Len(<<>>) : FrameTells(<<>>[Len(<<>>) - j + 1], Builder, E)'
    OBVIOUS
  <1>5. \A x \in Contracts : ContractTells(x, E)'
    BY <1>1, <1>2, ContractTellsStay
  <1>6. BuilderTells(E)'
    <2>1. /\ \A j : ToldToRunOn(j)' = ToldToRunOn(j)
          /\ \A j : FutureMap(j)' <=> FutureMap(j)
      BY <1>2, TellsStay
    <2>2. PICK c : c = future.state
      OBVIOUS
    <2>3. Builds(k, c, E)
      BY <1>1, <1>2, <2>2 DEF BuilderTells
    <2>4. E[k] = E[k - 1]
      BY <1>1, <1>2, EvaluationIs, EvaluateIs
    <2>5. ~ FutureMap(k - 1) /\ ~ FutureMap(k)
      <3>1. FutureMap(k - 1) => steps[(k - 1) + 1].pipe = "Flatten"
        BY <1>2 DEF StepsRight, FutureMap
      <3>2. (k - 1) + 1 = k
        BY <1>2 DEF StepsRight
      <3> QED BY <1>2, <3>1, <3>2 DEF FutureMap, GivesFuture
    <2>6. Builds(k + 1, c, E)'
      <3>1. (k + 1) - 1 = k
        BY <1>2 DEF StepsRight
      <3> QED BY <2>1, <2>3, <2>4, <2>5, <3>1 DEF Builds
    <2>7. ToldToRunOn(k + 1) = steps[k].arg
      BY <1>2, ToldNext
    <2>8. N' = N /\ None' = None /\ Nothing' = Nothing /\ Outer(0)' = Outer(0)
      BY <1>2, StepsStay DEF None, Nothing, Outer
    <2>9. \A j \in 1 .. N : \A d : built' = j /\ d = future'.state =>
             Builds(j, d, E)' /\ future'.scheduler = ToldToRunOn(j)'
      <3>1. future'.state = c /\ future'.scheduler = steps[k].arg
        BY <1>2, <2>2 DEF FutureOf
      <3> QED BY <1>2, <2>1, <2>6, <2>7, <3>1
    <2> QED BY <1>1, <1>2, <2>8, <2>9 DEF BuilderTells
  <1>7. RunsWhereTold'
    BY <1>1, <1>2, RunsStay
  <1> QED BY <1>2, <1>3, <1>4, <1>5, <1>6, <1>7, TellsOn

\* The future that a combinator or a terminator consumes is that of the step before.
LEMMA ConsumesTell ==
  ASSUME Typed, NEW P, NEW C, NEW Q, Owned(P, C, Q), NEW E, Tells(E), NEW k \in 1 .. N,
         Combine(k) \/ Terminate(k)
  PROVE  Tells(E)'
  <1>1. /\ IsEvaluation(E) /\ BuilderTells(E) /\ RunsWhereTold /\ \A x \in Contracts : ContractTells(x, E)
    BY DEF Tells
  <1>2. /\ StepsRight /\ steps' = steps /\ program' = program /\ Builder \in Threads
        /\ UNCHANGED <<promise, value, callback, scheduler, task, pool, box, got, ranOn>>
        /\ built = k /\ built' = k + 1 /\ Idle(Builder) /\ steps[k].pipe # "Via"
        /\ Enter(Builder, <<Consume(future.state, k, ConsumesOn(k))>>)
    BY DEF Typed, Combine, Terminate, Now, Threads
  <1>3. PICK c, s, g : c = future.state /\ s = future.scheduler /\ g = Consume(c, k, ConsumesOn(k))
    OBVIOUS
  <1>4. Builds(k, c, E) /\ s = ToldToRunOn(k)
    BY <1>1, <1>2, <1>3 DEF BuilderTells
  <1>5. ConsumesOn(k) = On(k)
    BY <1>3, <1>4 DEF ConsumesOn, On
  <1>6. c \in Contracts /\ ConsumesOn(k) \in {"Inline", "Pool"}
    <2>1. future.state # None
      BY <1>2 DEF Owned, BuilderRight
    <2> QED BY <1>3, <2>1 DEF Typed, ConsumesOn
  <1>7. <<g>> \in Seq(Frames) /\ g.at = "attach" /\ g.c = c /\ g.cb = Outer(k) /\ g.on = On(k)
    <2>1. k \in 0 .. N
      BY <1>2 DEF StepsRight
    <2>2. g \in Frames
      BY <1>2, <1>3, <1>6, <2>1, FramesAreTyped
    <2> QED BY <1>3, <1>5, <2>2, FrameFields
  <1>8. Changes(Builder, 0, <<g>>)
    BY <1>2, <1>3, <1>7, EnterChanges
  <1>9. FutureMap(k - 1) <=> steps[k].pipe = "Flatten"
    <2>1. FutureMap(k - 1) => steps[(k - 1) + 1].pipe = "Flatten"
      BY <1>2 DEF StepsRight, FutureMap
    <2>2. (k - 1) + 1 = k
      BY <1>2 DEF StepsRight
    <2>3. steps[k].pipe = "Flatten" => FutureMap(k - 1)
      BY <1>2 DEF StepsRight
    <2> QED BY <2>1, <2>2, <2>3
  <1>10. Outer(k)[1] = k /\ Outer(k)[2] = "outer"
    BY <1>2, ContractParts
  <1>11. \A j \in 1 .. Len(<<g>>) : FrameTells(<<g>>[Len(<<g>>) - j + 1], Builder, E)'
    <2>1. Link(c, Outer(k), E)
      BY <1>4, <1>9, <1>10 DEF Link, Builds
    <2>2. Link(c, Outer(k), E)' /\ On(k)' = On(k)
      BY <1>2, <2>1, TellsStay
    <2>3. FrameTells(g, Builder, E)'
      BY <1>7, <1>10, <2>2 DEF FrameTells
    <2> QED BY <2>3, OneTells
  <1>12. \A x \in Contracts : ContractTells(x, E)'
    BY <1>1, <1>2, ContractTellsStay
  <1>13. BuilderTells(E)'
    <2>1. /\ \A j : ToldToRunOn(j)' = ToldToRunOn(j)
          /\ \A j : FutureMap(j)' <=> FutureMap(j)
      BY <1>2, TellsStay
    <2>2. N' = N /\ None' = None /\ Nothing' = Nothing /\ Outer(0)' = Outer(0)
      BY <1>2, StepsStay DEF None, Nothing, Outer
    <2>3. \A j \in 1 .. N : \A d : built' = j /\ d = future'.state =>
             Builds(j, d, E)' /\ future'.scheduler = ToldToRunOn(j)'
      <3>1. CASE Combine(k)
        <4>1. future'.state = Outer(k) /\ future'.scheduler = s
          BY <1>3, <3>1 DEF Combine, PassOn, FutureOf
        <4>2. ToldToRunOn(k + 1) = ToldToRunOn(k)
          BY <1>2, ToldNext
        <4>3. (k + 1) - 1 = k
          BY <1>2 DEF StepsRight
        <4>4. Builds(k + 1, Outer(k), E)'
          BY <1>10, <2>1, <4>3 DEF Builds
        <4> QED BY <1>2, <1>4, <2>1, <4>1, <4>2, <4>4
      <3>2. CASE Terminate(k)
        <4>1. k = N /\ N \in Nat
          BY <1>2, <3>2 DEF Terminate, StepsRight
        <4> QED BY <1>2, <4>1
      <3> QED BY <3>1, <3>2
    <2> QED BY <1>1, <1>2, <2>2, <2>3 DEF BuilderTells
  <1>14. RunsWhereTold'
    BY <1>1, <1>2, RunsStay
  <1> QED BY <1>2, <1>7, <1>8, <1>11, <1>12, <1>13, <1>14, TellsOn

LEMMA RestTells ==
  ASSUME Typed, NEW P, NEW C, NEW Q, Owned(P, C, Q), NEW E, Tells(E), Return \/ UNCHANGED vars
  PROVE  Tells(E)'
  <1>1. /\ IsEvaluation(E) /\ BuilderTells(E) /\ RunsWhereTold /\ \A x \in Contracts : ContractTells(x, E)
    BY DEF Tells
  <1>2. /\ StepsRight /\ steps' = steps /\ program' = program /\ Builder \in Threads
        /\ UNCHANGED <<built, future, promise, value, callback, scheduler, task, pool, stack, ranOn>>
        /\ box' = box \/ box' = Nothing
        /\ got' = got \/ (got' = box /\ got' # Nothing)
    BY DEF Typed, Return, vars, Threads
  <1>3. <<>> \in Seq(Frames) /\ Changes(Builder, Len(stack[Builder]), <<>>)
    <2>1. <<>> \in Seq(Frames)
      OBVIOUS
    <2> QED BY <1>2, <2>1, NoFrames
  <1>4. \A j \in 1 .. Len(<<>>) : FrameTells(<<>>[Len(<<>>) - j + 1], Builder, E)'
    OBVIOUS
  <1>5. \A x \in Contracts : ContractTells(x, E)'
    BY <1>1, <1>2, ContractTellsStay
  <1>6. BuilderTells(E)' /\ RunsWhereTold'
    BY <1>1, <1>2, BuilderTellsStay, RunsStay
  <1> QED BY <1>2, <1>3, <1>4, <1>5, <1>6, TellsOn

LEMMA InitTells == Init => Tells(Evaluated)
  <1> SUFFICES ASSUME Init PROVE Tells(Evaluated)
    OBVIOUS
  <1>1. StepsRight /\ N \in Nat
    BY InitTyped DEF Typed, StepsRight
  <1>2. PICK E : E = Evaluated
    OBVIOUS
  <1>3. IsEvaluation(E)
    BY <1>1, <1>2, EvaluatedIsEvaluation
  <1>4. FramesTell(E)
    <2>1. \A t \in Threads : Len(stack[t]) = 0
      BY DEF Init
    <2> QED BY <2>1 DEF FramesTell
  <1>5. DOMAIN word = Contracts
    BY DEF Init, Contracts
  <1>6. \A x \in Contracts : ContractTells(x, E)
    BY <1>5 DEF Init, ContractTells
  <1>7. BuilderTells(E)
    BY DEF Init, BuilderTells
  <1>8. RunsWhereTold
    BY <1>1 DEF Init, RunsWhereTold
  <1> QED BY <1>2, <1>3, <1>4, <1>6, <1>7, <1>8 DEF Tells

TellInv == OwnedInv /\ \E E : Tells(E)

\* Whatever is on its way through the pipeline, in a contract, in a call or in
\* a task of the pool, is what the pipeline of results has at that step.
THEOREM ValuesAreTold == Spec => []TellInv
  <1>1. Init => TellInv
    BY InitTyped, InitOwned, InitTells DEF OwnedInv, TellInv
  <1>2. ASSUME OwnedInv, \E E : Tells(E), [Next]_vars PROVE \E E : Tells(E)'
    <2>1. PICK P, C, Q : Owned(P, C, Q)
      BY <1>2 DEF OwnedInv
    <2>2. PICK E : Tells(E)
      BY <1>2
    <2>3. Typed
      BY <1>2 DEF OwnedInv
    <2>4. ASSUME NEW t \in Threads, Step(t) PROVE Tells(E)'
      BY <2>1, <2>2, <2>3, <2>4, ConstructValueTells, WordsTell, SetCallbackTells, RunTells, ReturnsTell,
         UserTells DEF Step
    <2>5. ASSUME NEW w \in Workers, Work(w) PROVE Tells(E)'
      BY <2>1, <2>2, <2>3, <2>5, WorkTells
    <2>6. ASSUME Build PROVE Tells(E)'
      BY <2>1, <2>2, <2>3, <2>6, MakeTells, ViaTells, ConsumesTell, RestTells DEF Build
    <2>7. ASSUME Set PROVE Tells(E)'
      BY <2>1, <2>2, <2>3, <2>7, SetTells
    <2>8. ASSUME UNCHANGED vars PROVE Tells(E)'
      BY <2>1, <2>2, <2>3, <2>8, RestTells
    <2>9. Tells(E)'
      BY <1>2, <2>4, <2>5, <2>6, <2>7, <2>8 DEF Next
    <2> QED BY <2>9
  <1>3. TellInv /\ [Next]_vars /\ OwnedInv' => TellInv'
    BY <1>2 DEF TellInv
  <1> QED BY <1>1, <1>3, OwnersAreRight, PTL DEF Spec

\* A user's function runs where the nearest Via before it has said, whatever it
\* was that met the contract: a pool's worker, the promise's thread or an
\* inline run deep inside another call.
THEOREM RunsOnItsScheduler == Spec => []RunsWhereTold
  <1>1. TellInv => RunsWhereTold
    BY DEF TellInv, Tells
  <1> QED BY <1>1, ValuesAreTold, PTL

\* Get returns what the same pipeline of plain results computes.
THEOREM GetReturnsTheResult == Spec => []GetIsResult
  <1>1. TellInv => GetIsResult
    <2> SUFFICES ASSUME TellInv PROVE GetIsResult
      OBVIOUS
    <2>1. PICK E : IsEvaluation(E) /\ BuilderTells(E)
      BY DEF TellInv, Tells
    <2>2. N \in Nat
      BY DEF TellInv, OwnedInv, Typed, StepsRight
    <2>3. E = Evaluated
      BY <2>1, <2>2, EvaluatedIsEvaluation, OneEvaluation
    <2> QED BY <2>1, <2>3 DEF BuilderTells, GetIsResult
  <1> QED BY <1>1, ValuesAreTold, PTL
=============================================================================
