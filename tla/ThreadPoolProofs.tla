-------------------------- MODULE ThreadPoolProofs --------------------------
(***************************************************************************)
(* Proofs about the thread pool, for any tasks and any finite sets of      *)
(* workers and fibers: every task and every fiber is in one place, nobody  *)
(* sleeps beside work, fibers do not nest deeper than two, and Stop leaves *)
(* nothing.                                                                *)
(*                                                                         *)
(* A fiber waits (in the queue or parked) or is in the chain of a worker;  *)
(* the fibers that carry a task are those that wait and the innermost one  *)
(* of each worker that runs a task.  So a task never moves to a fiber that *)
(* has one, and none is lost with a fiber that ends.                       *)
(***************************************************************************)
EXTENDS ThreadPool, FiniteSetTheorems, SequenceTheorems, TLAPS

USE ThreadPoolAssumption

Labels == {"off", "invoke", "pop", "asleep", "run", "check", "gone"}
Carriers == Workers \union Fibers

Occurs(x, s) == \E i \in 1 .. Len(s) : s[i] = x
Distinct(s)  == \A i, j \in 1 .. Len(s) : s[i] = s[j] => i = j

Waiting(x)  == Occurs(x, queue) \/ x \in parked
OnWorker(x) == \E w \in Workers : Running(w) /\ Top(w) = x

BaseTypeOK ==
    /\ phase \in {"new", "started", "stopping", "closed", "joined"}
    /\ onFibers \in BOOLEAN
    /\ queue \in Seq(Tasks \union Fibers)
    /\ at \in [Workers -> Labels]
    /\ invoker \in [Workers -> Fibers \union {nullptr}]
    /\ chain \in [Workers -> Seq(Fibers)]
    /\ task \in [Carriers -> Tasks \union {nullptr}]
    /\ alive \subseteq Fibers /\ parked \subseteq Fibers
    /\ left \in [Tasks -> 0 .. MaxSteps]
    /\ finished \subseteq submitted /\ submitted \subseteq Tasks

TasksInPlace ==
    /\ Distinct(queue)
    /\ \A x, y \in Carriers : task[x] = task[y] /\ task[x] # nullptr => x = y
    /\ \A x \in Carriers : ~ Occurs(task[x], queue)
    /\ \A t \in Tasks : t \in submitted \ finished <=>
          Occurs(t, queue) \/ \E x \in Carriers : task[x] = t
    /\ \A x \in Carriers : task[x] # nullptr <=> (x \in Fibers /\ Waiting(x)) \/ OnWorker(x)

FibersInPlace ==
    /\ \A f \in parked : ~ Occurs(f, queue)
    /\ \A w \in Workers : Distinct(chain[w])
    /\ \A w \in Workers, f \in Fibers : Occurs(f, chain[w]) => ~ Waiting(f)
    /\ \A v, w \in Workers, f \in Fibers : Occurs(f, chain[v]) /\ Occurs(f, chain[w]) => v = w
    /\ ~ onFibers => alive = {}
    /\ \A f \in Fibers : f \in alive <=> Waiting(f) \/ \E w \in Workers : Occurs(f, chain[w])

\* How deep a worker is where in its loop.
LoopInPlace(w) ==
    /\ Len(chain[w]) \in 0 .. 2
    /\ Len(chain[w]) = 0 <=> ~ onFibers \/ at[w] \in {"off", "invoke", "gone"}
    /\ at[w] = "invoke" => onFibers
    /\ Len(chain[w]) > 0 => invoker[w] # nullptr
    /\ onFibers /\ at[w] \in {"pop", "asleep"} => Len(chain[w]) = 1 /\ chain[w][1] = invoker[w]
    /\ Len(chain[w]) = 2 => chain[w][1] = invoker[w]

\* From Stop on nothing is pushed, and a worker leaves an empty queue.
PhaseRight ==
    /\ \A w \in Workers : at[w] = "off" <=> phase = "new"
    /\ phase \in {"stopping", "closed", "joined"} => parked = {} /\ Busy = {}
    /\ \A w \in Workers : at[w] = "gone" => phase \in {"closed", "joined"} /\ queue = <<>>
    /\ phase = "joined" => \A w \in Workers : at[w] = "gone"

IInv == /\ BaseTypeOK /\ TasksInPlace /\ FibersInPlace
        /\ \A w \in Workers : LoopInPlace(w)
        /\ PhaseRight /\ NobodySleepsBesideWork

-----------------------------------------------------------------------------
\* Sequences.

LEMMA AppendFacts ==
  ASSUME NEW S, NEW s \in Seq(S), NEW x \in S
  PROVE  /\ Append(s, x) \in Seq(S)
         /\ Len(Append(s, x)) = Len(s) + 1 /\ Len(s) \in Nat
         /\ \A i \in 1 .. Len(s) : Append(s, x)[i] = s[i]
         /\ Append(s, x)[Len(s) + 1] = x
         /\ \A y : Occurs(y, Append(s, x)) <=> Occurs(y, s) \/ y = x
         /\ Distinct(s) /\ ~ Occurs(x, s) => Distinct(Append(s, x))
  <1> DEFINE n == Len(s)
             a == Append(s, x)
  <1>1. /\ a \in Seq(S) /\ Len(a) = n + 1 /\ n \in Nat
        /\ \A i \in 1 .. n : a[i] = s[i]
        /\ a[n + 1] = x
    BY AppendProperties, LenProperties
  <1> HIDE DEF n, a
  <1>2. \A i \in 1 .. n + 1 : i \in 1 .. n \/ i = n + 1
    BY <1>1
  <1>3. n + 1 \in 1 .. n + 1 /\ \A i \in 1 .. n : i \in 1 .. n + 1
    BY <1>1
  <1>4. \A y : (\E i \in 1 .. n + 1 : a[i] = y) <=> (\E i \in 1 .. n : s[i] = y) \/ y = x
    BY <1>1, <1>2, <1>3
  <1>5. ASSUME \A i, j \in 1 .. n : s[i] = s[j] => i = j, \A i \in 1 .. n : s[i] # x
        PROVE  \A i, j \in 1 .. n + 1 : a[i] = a[j] => i = j
    BY <1>1, <1>2, <1>5
  <1> QED BY <1>1, <1>4, <1>5 DEF Occurs, Distinct, n, a

LEMMA TailFacts ==
  ASSUME NEW S, NEW s \in Seq(S), s # <<>>
  PROVE  /\ Head(s) \in S /\ Occurs(Head(s), s)
         /\ Tail(s) \in Seq(S)
         /\ Len(s) \in Nat /\ Len(Tail(s)) = Len(s) - 1
         /\ Distinct(s) => /\ Distinct(Tail(s))
                           /\ \A y : Occurs(y, Tail(s)) <=> Occurs(y, s) /\ y # Head(s)
  <1> DEFINE n == Len(s)
             q == Tail(s)
  <1>1. /\ Head(s) \in S /\ q \in Seq(S) /\ n \in Nat \ {0} /\ Len(q) = n - 1
        /\ \A i \in 1 .. n - 1 : q[i] = s[i + 1]
        /\ Head(s) = s[1]
    BY HeadTailProperties, LenProperties, EmptySeq
  <1> HIDE DEF n, q
  <1>2. 1 \in 1 .. n /\ (\A i \in 1 .. n - 1 : i + 1 \in 1 .. n /\ i + 1 # 1)
    BY <1>1
  <1>3. \A i \in 1 .. n : i # 1 => i - 1 \in 1 .. n - 1 /\ (i - 1) + 1 = i
    BY <1>1
  <1>4. ASSUME \A i, j \in 1 .. n : s[i] = s[j] => i = j
        PROVE  /\ \A i, j \in 1 .. n - 1 : q[i] = q[j] => i = j
               /\ \A y : (\E i \in 1 .. n - 1 : q[i] = y) <=> (\E i \in 1 .. n : s[i] = y) /\ y # s[1]
    <2>1. \A i, j \in 1 .. n - 1 : q[i] = q[j] => i = j
      BY <1>1, <1>2, <1>4
    <2>2. \A i \in 1 .. n - 1 : q[i] # s[1] /\ (\E j \in 1 .. n : s[j] = q[i])
      BY <1>1, <1>2, <1>4
    <2>3. ASSUME NEW i \in 1 .. n, s[i] # s[1] PROVE \E j \in 1 .. n - 1 : q[j] = s[i]
      <3>1. i # 1
        BY <2>3
      <3> QED BY <1>1, <1>3, <3>1
    <2> QED BY <2>1, <2>2, <2>3
  <1> QED BY <1>1, <1>2, <1>4 DEF Occurs, Distinct, n, q

LEMMA FrontFacts ==
  ASSUME NEW S, NEW s \in Seq(S), Len(s) > 0
  PROVE  /\ Seqs!Front(s) \in Seq(S)
         /\ Len(s) \in Nat /\ Len(Seqs!Front(s)) = Len(s) - 1
         /\ \A i \in 1 .. Len(s) - 1 : Seqs!Front(s)[i] = s[i]
         /\ Distinct(s) => /\ Distinct(Seqs!Front(s))
                           /\ \A y : Occurs(y, Seqs!Front(s)) <=> Occurs(y, s) /\ y # s[Len(s)]
  <1> DEFINE n == Len(s)
             q == Seqs!Front(s)
  <1>1. n \in Nat /\ n > 0 /\ \A i \in 1 .. n : s[i] \in S
    BY LenProperties, ElementOfSeq
  <1> HIDE DEF n
  <1>2. q = SubSeq(s, 1, n - 1)
    BY DEF Seqs!Front, n
  <1>3. 1 \in Int /\ n - 1 \in Int /\ \A i \in 1 .. n - 1 : s[i] \in S
    BY <1>1
  <1>4. /\ SubSeq(s, 1, n - 1) \in Seq(S)
        /\ Len(SubSeq(s, 1, n - 1)) = IF 1 <= n - 1 THEN n - 1 - 1 + 1 ELSE 0
        /\ \A i \in 1 .. n - 1 - 1 + 1 : SubSeq(s, 1, n - 1)[i] = s[1 + i - 1]
    BY <1>3, SubSeqProperties
  <1> HIDE DEF q
  <1>5. q \in Seq(S) /\ Len(q) = n - 1 /\ \A i \in 1 .. n - 1 : q[i] = s[i]
    BY <1>1, <1>2, <1>4
  <1>6. /\ n \in 1 .. n /\ (\A i \in 1 .. n - 1 : i \in 1 .. n /\ i # n)
        /\ \A i \in 1 .. n : i # n => i \in 1 .. n - 1
    BY <1>1
  <1>7. ASSUME \A i, j \in 1 .. n : s[i] = s[j] => i = j
        PROVE  /\ \A i, j \in 1 .. n - 1 : q[i] = q[j] => i = j
               /\ \A y : (\E i \in 1 .. n - 1 : q[i] = y) <=> (\E i \in 1 .. n : s[i] = y) /\ y # s[n]
    BY <1>5, <1>6, <1>7
  <1> QED BY <1>1, <1>5, <1>7 DEF Occurs, Distinct, n, q

\* Who executes on a worker.
LEMMA TopFacts ==
  ASSUME NEW w \in Workers, chain[w] \in Seq(Fibers)
  PROVE  /\ Len(chain[w]) \in Nat
         /\ chain[w] = <<>> <=> Len(chain[w]) = 0
         /\ Len(chain[w]) = 0 => Top(w) = w /\ \A f : ~ Occurs(f, chain[w])
         /\ Len(chain[w]) > 0 => /\ Top(w) = chain[w][Len(chain[w])] /\ Top(w) \in Fibers
                                 /\ Occurs(Top(w), chain[w])
         /\ Top(w) \in Carriers
  <1>1. Len(chain[w]) \in Nat /\ (chain[w] = <<>> <=> Len(chain[w]) = 0)
    BY EmptySeq, LenProperties
  <1>2. CASE Len(chain[w]) = 0
    <2>1. 1 .. 0 = {}
      OBVIOUS
    <2> QED BY <1>1, <1>2, <2>1 DEF Top, Carriers, Occurs
  <1>3. CASE Len(chain[w]) > 0
    <2>1. Len(chain[w]) \in 1 .. Len(chain[w]) /\ Len(chain[w]) # 0
      BY <1>1, <1>3
    <2>2. chain[w][Len(chain[w])] \in Fibers
      BY <2>1, ElementOfSeq
    <2> QED BY <1>1, <1>3, <2>1, <2>2 DEF Top, Carriers, Occurs, Seqs!Last
  <1> QED BY <1>1, <1>2, <1>3

\* What is left of a chain when the innermost fiber leaves it.
LEMMA InnermostFacts ==
  ASSUME NEW w \in Workers, chain[w] \in Seq(Fibers), Distinct(chain[w]), Len(chain[w]) \in {1, 2}
  PROVE  /\ Top(w) \in Fibers /\ Occurs(Top(w), chain[w]) /\ Top(w) = chain[w][Len(chain[w])]
         /\ Seqs!Front(chain[w]) \in Seq(Fibers) /\ Distinct(Seqs!Front(chain[w]))
         /\ Len(Seqs!Front(chain[w])) = Len(chain[w]) - 1
         /\ \A i \in 1 .. Len(chain[w]) - 1 : Seqs!Front(chain[w])[i] = chain[w][i]
         /\ \A y : Occurs(y, Seqs!Front(chain[w])) <=> Occurs(y, chain[w]) /\ y # Top(w)
  <1>1. Len(chain[w]) > 0
    <2>1. \A n \in {1, 2} : n > 0
      OBVIOUS
    <2> QED BY ONLY <2>1, Len(chain[w]) \in {1, 2}
  <1>2. Top(w) \in Fibers /\ Occurs(Top(w), chain[w]) /\ Top(w) = chain[w][Len(chain[w])]
    BY ONLY <1>1, w \in Workers, chain[w] \in Seq(Fibers), TopFacts
  <1>3. PICK s \in Seq(Fibers) : s = chain[w]
    OBVIOUS
  <1>4. /\ Seqs!Front(s) \in Seq(Fibers) /\ Len(Seqs!Front(s)) = Len(s) - 1
        /\ \A i \in 1 .. Len(s) - 1 : Seqs!Front(s)[i] = s[i]
        /\ Distinct(s) => /\ Distinct(Seqs!Front(s))
                          /\ \A y : Occurs(y, Seqs!Front(s)) <=> Occurs(y, s) /\ y # s[Len(s)]
    <2>1. Len(s) > 0
      BY <1>1, <1>3
    <2> QED BY ONLY <2>1, s \in Seq(Fibers), FrontFacts
  <1> QED BY <1>2, <1>3, <1>4

-----------------------------------------------------------------------------
\* Parts of a step.

LEMMA Types ==
  ASSUME BaseTypeOK, TasksInPlace, FibersInPlace
  PROVE  TypeOK
  <1>1. parked \subseteq alive
    BY DEF BaseTypeOK, FibersInPlace, Waiting
  <1>2. ASSUME NEW w \in Workers, Running(w) PROVE task[Top(w)] # nullptr
    <2>1. Top(w) \in Carriers
      BY TopFacts DEF BaseTypeOK
    <2> QED BY <1>2, <2>1 DEF TasksInPlace, OnWorker
  <1> QED BY <1>1, <1>2 DEF TypeOK, BaseTypeOK, Labels, Carriers

Poppers(a) == {w \in Workers : a[w] = "pop"}

LEMMA PoppersShift ==
  ASSUME NEW a, NEW b, NEW w \in Workers, \A v \in Workers : v # w => b[v] = a[v]
  PROVE  /\ Cardinality(Poppers(a)) \in Nat /\ Cardinality(Poppers(b)) \in Nat
         /\ a[w] # "pop" /\ b[w] # "pop" => Cardinality(Poppers(b)) = Cardinality(Poppers(a))
         /\ a[w] # "pop" /\ b[w] = "pop" => Cardinality(Poppers(b)) = Cardinality(Poppers(a)) + 1
         /\ a[w] = "pop" /\ b[w] # "pop" => Cardinality(Poppers(b)) = Cardinality(Poppers(a)) - 1
  <1>1. IsFiniteSet(Poppers(a)) /\ IsFiniteSet(Poppers(b))
    BY FS_Subset DEF Poppers
  <1>2. Cardinality(Poppers(a)) \in Nat /\ Cardinality(Poppers(b)) \in Nat
    BY <1>1, FS_CardinalityType
  <1>3. ASSUME a[w] # "pop", b[w] # "pop" PROVE Poppers(b) = Poppers(a)
    BY <1>3 DEF Poppers
  <1>4. ASSUME a[w] # "pop", b[w] = "pop"
        PROVE  Poppers(b) = Poppers(a) \union {w} /\ w \notin Poppers(a)
    BY <1>4 DEF Poppers
  <1>5. ASSUME a[w] = "pop", b[w] # "pop"
        PROVE  Poppers(b) = Poppers(a) \ {w} /\ w \in Poppers(a)
    BY <1>5 DEF Poppers
  <1> QED BY <1>1, <1>2, <1>3, <1>4, <1>5, FS_AddElement, FS_RemoveElement

\* The worker w goes on, and nobody else but for one that sleeps.
Moves(w, l) ==
    \A v \in Workers : \/ at'[v] = (IF v = w THEN l ELSE at[v])
                       \/ at[v] = "asleep" /\ at'[v] = "pop"

\* Push, by a worker that goes on at l or by somebody else.
LEMMA PushFacts ==
  ASSUME BaseTypeOK, NobodySleepsBesideWork, NEW x \in Tasks \union Fibers,
         NEW w \in Workers, NEW l \in Labels, at[w] = l \/ (at[w] = "run" /\ l \notin {"pop", "asleep"}),
         Push(x, [at EXCEPT ![w] = l])
  PROVE  /\ queue' \in Seq(Tasks \union Fibers)
         /\ \A y : Occurs(y, queue') <=> Occurs(y, queue) \/ y = x
         /\ Distinct(queue) /\ ~ Occurs(x, queue) => Distinct(queue')
         /\ at' \in [Workers -> Labels]
         /\ Moves(w, l)
         /\ NobodySleepsBesideWork'
  <1> DEFINE a == [at EXCEPT ![w] = l]
  <1>0. at \in [Workers -> Labels] /\ queue \in Seq(Tasks \union Fibers)
    BY DEF BaseTypeOK
  <1>1. queue' = Append(queue, x) /\ at' \in NotifyOne(a)
    BY DEF Push
  <1>2. /\ queue' \in Seq(Tasks \union Fibers) /\ Len(queue') = Len(queue) + 1 /\ Len(queue) \in Nat
        /\ \A y : Occurs(y, queue') <=> Occurs(y, queue) \/ y = x
        /\ Distinct(queue) /\ ~ Occurs(x, queue) => Distinct(queue')
    BY <1>0, <1>1, AppendFacts
  <1>3. /\ a \in [Workers -> Labels] /\ a[w] = l
        /\ \A v \in Workers : v # w => a[v] = at[v]
        /\ \A v \in Workers : a[v] = "pop" <=> at[v] = "pop"
        /\ \A v \in Workers : a[v] = "asleep" <=> at[v] = "asleep"
    BY <1>0 DEF Labels
  <1>p. Poppers(a) = Poppers(at)
    BY <1>3 DEF Poppers
  <1> HIDE DEF a
  <1>4. CASE Sleepers = {}
    <2>1. at' = a
      BY <1>1, <1>4 DEF NotifyOne
    <2>2. Sleepers' = {}
      BY <1>3, <1>4, <2>1 DEF Sleepers
    <2> QED BY <1>2, <1>3, <2>1, <2>2 DEF Moves, NobodySleepsBesideWork
  <1>5. CASE Sleepers # {}
    <2>1. PICK v \in Sleepers : at' = [a EXCEPT ![v] = "pop"]
      BY <1>1, <1>5 DEF NotifyOne
    <2>2. v \in Workers /\ at[v] = "asleep" /\ a[v] = "asleep"
      BY <1>3, <2>1 DEF Sleepers
    <2>3. /\ at' \in [Workers -> Labels] /\ at'[v] = "pop"
          /\ \A u \in Workers : u # v => at'[u] = a[u]
      BY <1>3, <2>1, <2>2 DEF Labels
    <2>4. /\ Cardinality(Poppers(at')) = Cardinality(Poppers(at)) + 1
          /\ Cardinality(Poppers(at)) \in Nat /\ Cardinality(Poppers(at')) \in Nat
      <3>1. v \in Workers /\ a[v] # "pop" /\ at'[v] = "pop" /\ \A u \in Workers : u # v => at'[u] = a[u]
        BY <2>2, <2>3
      <3>2. /\ Cardinality(Poppers(at')) = Cardinality(Poppers(a)) + 1
            /\ Cardinality(Poppers(a)) \in Nat /\ Cardinality(Poppers(at')) \in Nat
        BY ONLY <3>1, PoppersShift
      <3> QED BY <1>p, <3>2
    <2>5. Len(queue) <= Cardinality(Poppers(at))
      BY <1>5 DEF NobodySleepsBesideWork, Poppers
    <2>6. Len(queue') <= Cardinality(Poppers(at'))
      BY <1>2, <2>4, <2>5
    <2>7. NobodySleepsBesideWork'
      BY <2>6 DEF NobodySleepsBesideWork, Poppers
    <2>8. Moves(w, l)
      BY <1>3, <2>2, <2>3 DEF Moves
    <2> QED BY <1>2, <2>3, <2>7, <2>8
  <1> QED BY <1>4, <1>5

\* A worker that nobody but a Push moves is where it was.
LEMMA LoopIsKept ==
  ASSUME NEW v \in Workers, LoopInPlace(v), UNCHANGED onFibers,
         chain'[v] = chain[v], invoker'[v] = invoker[v],
         at'[v] = at[v] \/ (at[v] = "asleep" /\ at'[v] = "pop")
  PROVE  LoopInPlace(v)'
  BY DEF LoopInPlace

\* Nothing moves.
LEMMA PlacesAreKept ==
  ASSUME IInv, UNCHANGED <<onFibers, queue, chain, task, alive, parked, left, submitted, finished>>,
         \A v \in Workers : Running(v)' <=> Running(v)
  PROVE  TasksInPlace' /\ FibersInPlace'
  <1>1. \A v \in Workers : Top(v)' = Top(v)
    BY DEF Top
  <1>2. \A x : OnWorker(x)' <=> OnWorker(x)
    BY <1>1 DEF OnWorker
  <1>3. \A x : Waiting(x)' <=> Waiting(x)
    BY DEF Waiting
  <1>4. TasksInPlace'
    BY <1>2, <1>3 DEF IInv, TasksInPlace
  <1>5. FibersInPlace'
    BY <1>3 DEF IInv, FibersInPlace
  <1> QED BY <1>4, <1>5

-----------------------------------------------------------------------------
\* Steps that move no task and no fiber.

LEMMA InitIInv == Init => IInv
  <1> SUFFICES ASSUME Init PROVE IInv
    OBVIOUS
  <1> USE DEF Init
  <1>1. Len(<<>>) = 0 /\ 1 .. 0 = {}
    OBVIOUS
  <1>2. \A x : ~ Occurs(x, <<>>)
    BY <1>1 DEF Occurs
  <1>3. Distinct(<<>>)
    BY <1>1 DEF Distinct
  <1>4. \A x : ~ Waiting(x) /\ ~ OnWorker(x)
    BY <1>2 DEF Waiting, OnWorker, Running
  <1>5. BaseTypeOK
    BY DEF BaseTypeOK, Labels, Carriers
  <1>6. TasksInPlace
    BY <1>2, <1>3, <1>4 DEF TasksInPlace, Carriers
  <1>7. FibersInPlace
    BY <1>2, <1>3, <1>4 DEF FibersInPlace
  <1>8. \A w \in Workers : LoopInPlace(w)
    BY <1>1 DEF LoopInPlace
  <1>9. PhaseRight /\ NobodySleepsBesideWork
    BY DEF PhaseRight, NobodySleepsBesideWork, Sleepers
  <1> QED BY <1>5, <1>6, <1>7, <1>8, <1>9 DEF IInv

LEMMA StartIInv == IInv /\ Start => IInv'
  <1> SUFFICES ASSUME IInv, Start PROVE IInv'
    OBVIOUS
  <1> USE DEF IInv
  <1>1. /\ phase = "new" /\ phase' = "started"
        /\ at' = [w \in Workers |-> IF onFibers THEN "invoke" ELSE "pop"]
        /\ UNCHANGED <<onFibers, queue, invoker, chain, task, alive, parked, left, submitted, finished>>
    BY DEF Start
  <1>2. \A w \in Workers : at[w] = "off" /\ at'[w] = IF onFibers THEN "invoke" ELSE "pop"
    BY <1>1 DEF PhaseRight
  <1>3. BaseTypeOK'
    BY <1>1 DEF BaseTypeOK, Labels
  <1>4. TasksInPlace' /\ FibersInPlace'
    BY <1>1, <1>2, PlacesAreKept DEF Running
  <1>5. \A w \in Workers : LoopInPlace(w)'
    <2> SUFFICES ASSUME NEW w \in Workers PROVE LoopInPlace(w)'
      OBVIOUS
    <2>1. LoopInPlace(w) /\ chain'[w] = chain[w] /\ invoker'[w] = invoker[w]
      BY <1>1
    <2> QED BY <1>1, <1>2, <2>1 DEF LoopInPlace, BaseTypeOK
  <1>6. PhaseRight' /\ NobodySleepsBesideWork'
    BY <1>1, <1>2 DEF PhaseRight, NobodySleepsBesideWork, Sleepers
  <1> QED BY <1>3, <1>4, <1>5, <1>6

LEMMA StopIInv == IInv /\ (Stop \/ Join) => IInv'
  <1> SUFFICES ASSUME IInv, Stop \/ Join PROVE IInv'
    OBVIOUS
  <1> USE DEF IInv
  <1>1. UNCHANGED <<onFibers, queue, at, invoker, chain, task, alive, parked, left, submitted, finished>>
    BY DEF Stop, Join
  <1>2. \/ phase = "started" /\ parked = {} /\ Busy = {} /\ phase' = "stopping"
        \/ phase = "closed" /\ (\A w \in Workers : at[w] = "gone") /\ phase' = "joined"
    BY DEF Stop, Join
  <1>3. BaseTypeOK'
    BY <1>1, <1>2 DEF BaseTypeOK
  <1>4. TasksInPlace' /\ FibersInPlace'
    BY <1>1, PlacesAreKept DEF Running
  <1>5. \A w \in Workers : LoopInPlace(w)'
    BY <1>1, LoopIsKept
  <1>6. PhaseRight' /\ NobodySleepsBesideWork'
    BY <1>1, <1>2 DEF PhaseRight, NobodySleepsBesideWork, Sleepers, Busy
  <1> QED BY <1>3, <1>4, <1>5, <1>6

LEMMA CloseIInv == IInv /\ Close => IInv'
  <1> SUFFICES ASSUME IInv, Close PROVE IInv'
    OBVIOUS
  <1> USE DEF IInv
  <1>1. /\ phase = "stopping" /\ phase' = "closed"
        /\ at' = [w \in Workers |-> IF w \in Sleepers THEN "pop" ELSE at[w]]
        /\ UNCHANGED <<onFibers, queue, invoker, chain, task, alive, parked, left, submitted, finished>>
    BY DEF Close
  <1>2. \A w \in Workers : /\ at[w] = "asleep" => at'[w] = "pop"
                           /\ at[w] # "asleep" => at'[w] = at[w]
    BY <1>1 DEF Sleepers
  <1>3. BaseTypeOK'
    BY <1>1 DEF BaseTypeOK, Labels
  <1>4. TasksInPlace' /\ FibersInPlace'
    BY <1>1, <1>2, PlacesAreKept DEF Running
  <1>5. \A w \in Workers : LoopInPlace(w)'
    BY <1>1, <1>2, LoopIsKept
  <1>6. PhaseRight' /\ NobodySleepsBesideWork'
    BY <1>1, <1>2 DEF PhaseRight, NobodySleepsBesideWork, Sleepers, Busy
  <1> QED BY <1>3, <1>4, <1>5, <1>6

\* A worker moves that runs nothing before or after.
LEMMA MoveIInv ==
  ASSUME IInv, NEW w \in Workers, NEW l \in Labels, l # "run", at[w] # "run",
         at' = [at EXCEPT ![w] = l],
         UNCHANGED <<phase, onFibers, queue, invoker, chain, task, alive, parked, left, submitted, finished>>,
         LoopInPlace(w)', l # "off", at[w] # "off",
         l = "gone" => Drained,
         l = "asleep" \/ at[w] = "pop" => \/ queue = <<>>
                                          \/ at[w] = l,
         at[w] # "gone"
  PROVE  IInv'
  <1> USE DEF IInv
  <1>1. /\ at \in [Workers -> Labels] /\ at' \in [Workers -> Labels] /\ at'[w] = l
        /\ \A v \in Workers : v # w => at'[v] = at[v]
    BY DEF BaseTypeOK
  <1>2. BaseTypeOK'
    BY <1>1 DEF BaseTypeOK
  <1>3. TasksInPlace' /\ FibersInPlace'
    BY <1>1, PlacesAreKept DEF Running
  <1>4. \A v \in Workers : LoopInPlace(v)'
    <2> SUFFICES ASSUME NEW v \in Workers, v # w PROVE LoopInPlace(v)'
      OBVIOUS
    <2> QED BY <1>1, LoopIsKept
  <1>5. PhaseRight'
    BY <1>1 DEF PhaseRight, Busy, Drained
  <1>6. NobodySleepsBesideWork'
    <2>1. /\ Cardinality(Poppers(at)) \in Nat /\ Cardinality(Poppers(at')) \in Nat
          /\ at[w] # "pop" => Cardinality(Poppers(at')) >= Cardinality(Poppers(at))
      <3>1. w \in Workers /\ (\A v \in Workers : v # w => at'[v] = at[v])
        BY <1>1
      <3> QED BY ONLY <3>1, PoppersShift
    <2>2. Len(queue) \in Nat /\ (queue = <<>> => Len(queue) = 0)
      BY LenProperties, EmptySeq DEF BaseTypeOK
    <2>3. CASE queue = <<>>
      BY <2>1, <2>2, <2>3 DEF NobodySleepsBesideWork, Poppers
    <2>4. CASE at[w] = l
      <3>1. at' = at
        BY <1>1, <2>4
      <3> QED BY <3>1 DEF NobodySleepsBesideWork, Sleepers
    <2>5. CASE l # "asleep" /\ at[w] # "pop"
      <3>1. Sleepers' \subseteq Sleepers
        BY <1>1, <2>5 DEF Sleepers
      <3> QED BY <2>1, <2>2, <2>5, <3>1 DEF NobodySleepsBesideWork, Poppers
    <2> QED BY <2>3, <2>4, <2>5
  <1> QED BY <1>2, <1>3, <1>4, <1>5, <1>6

LEMMA SleepIInv ==
  ASSUME IInv, NEW w \in Workers, Sleep(w) \/ WakeForNothing(w)
  PROVE  IInv'
  <1>1. PICK l \in {"asleep", "pop"} :
           /\ at' = [at EXCEPT ![w] = l]
           /\ l = "asleep" => at[w] = "pop" /\ queue = <<>>
           /\ l = "pop" => at[w] = "asleep"
           /\ UNCHANGED <<phase, onFibers, queue, invoker, chain, task, alive, parked, left, submitted, finished>>
    BY DEF Sleep, WakeForNothing, Sleepers
  <1>2. at'[w] = l
    BY <1>1 DEF IInv, BaseTypeOK
  <1>3. LoopInPlace(w)'
    BY <1>1, <1>2 DEF IInv, LoopInPlace
  <1> QED BY <1>1, <1>3, MoveIInv DEF Labels

LEMMA CheckOnIInv ==
  ASSUME IInv, NEW w \in Workers, Check(w), GoesOn(w)
  PROVE  IInv'
  <1>1. /\ at[w] = "check" /\ at' = [at EXCEPT ![w] = "pop"]
        /\ UNCHANGED <<phase, onFibers, queue, invoker, chain, task, alive, parked, left, submitted, finished>>
        /\ Top(w) \in {w, invoker[w]}
    BY DEF Check, GoesOn
  <1>2. at'[w] = "pop"
    BY <1>1 DEF IInv, BaseTypeOK
  <1>3. chain[w] \in Seq(Fibers) /\ Distinct(chain[w]) /\ LoopInPlace(w)
    BY DEF IInv, BaseTypeOK, FibersInPlace
  <1>4. ASSUME onFibers PROVE Len(chain[w]) = 1 /\ chain[w][1] = invoker[w]
    <2>1. Len(chain[w]) \in {1, 2} /\ (Len(chain[w]) = 2 => chain[w][1] = invoker[w])
      BY <1>1, <1>3, <1>4 DEF LoopInPlace
    <2>2. chain[w][Len(chain[w])] = invoker[w]
      BY <1>1, <1>3, <2>1, TopFacts
    <2>3. Len(chain[w]) # 2
      BY <1>3, <2>1, <2>2 DEF Distinct
    <2> QED BY <2>1, <2>2, <2>3
  <1>5. LoopInPlace(w)'
    BY <1>1, <1>2, <1>3, <1>4 DEF LoopInPlace
  <1> QED BY <1>1, <1>5, MoveIInv DEF Labels

LEMMA LeaveInlineIInv ==
  ASSUME IInv, NEW w \in Workers, Leave(w), chain[w] = <<>>
  PROVE  IInv'
  <1>1. /\ at[w] = "pop" /\ Drained /\ queue = <<>> /\ at' = [at EXCEPT ![w] = "gone"]
        /\ UNCHANGED <<phase, onFibers, queue, invoker, chain, task, alive, parked, left, submitted, finished>>
    BY DEF Leave, Drained
  <1>2. at'[w] = "gone" /\ Len(chain[w]) = 0
    BY <1>1 DEF IInv, BaseTypeOK
  <1>3. LoopInPlace(w)'
    BY <1>1, <1>2 DEF IInv, LoopInPlace
  <1> QED BY <1>1, <1>3, MoveIInv DEF Labels

-----------------------------------------------------------------------------
\* Steps that move a task or a fiber.

\* Nobody executes on two workers, and who executes does not wait.
LEMMA TopIsAlone ==
  ASSUME IInv, NEW w \in Workers
  PROVE  /\ \A v \in Workers : Top(v) = Top(w) => v = w
         /\ Top(w) \in Fibers => ~ Waiting(Top(w))
         /\ Top(w) \in Carriers
         /\ at[w] = "run" => task[Top(w)] \in Tasks
         /\ at[w] # "run" => task[Top(w)] = nullptr
  <1>1. \A v \in Workers : /\ Top(v) = v \/ (Top(v) \in Fibers /\ Occurs(Top(v), chain[v]))
                           /\ Top(v) \in Carriers
    BY TopFacts DEF IInv, BaseTypeOK
  <1>2. \A v \in Workers : Top(v) = Top(w) => v = w
    BY <1>1 DEF IInv, FibersInPlace
  <1>3. Top(w) \in Fibers => ~ Waiting(Top(w))
    BY <1>1 DEF IInv, FibersInPlace
  <1>4. task[Top(w)] # nullptr <=> OnWorker(Top(w))
    BY <1>1, <1>3 DEF IInv, TasksInPlace
  <1>5. OnWorker(Top(w)) <=> at[w] = "run"
    BY <1>2 DEF OnWorker, Running
  <1>6. task[Top(w)] \in Tasks \union {nullptr}
    BY <1>1 DEF IInv, BaseTypeOK
  <1> QED BY <1>1, <1>2, <1>3, <1>4, <1>5, <1>6

\* A fiber is created in the chain of its worker.
LEMMA InvokeIInv ==
  ASSUME IInv, NEW w \in Workers, Invoke(w)
  PROVE  IInv'
  <1> USE DEF IInv
  <1>0. PICK f \in Fibers :
          /\ f \notin alive /\ alive' = alive \union {f}
          /\ invoker' = [invoker EXCEPT ![w] = f]
          /\ chain' = [chain EXCEPT ![w] = <<f>>]
    BY DEF Invoke, Create
  <1>1. /\ at[w] = "invoke" /\ at' = [at EXCEPT ![w] = "pop"]
        /\ UNCHANGED <<phase, onFibers, queue, task, parked, left, submitted, finished>>
    BY DEF Invoke
  <1>p. /\ at \in [Workers -> Labels] /\ at' \in [Workers -> Labels] /\ at'[w] = "pop"
        /\ \A v \in Workers : v # w => at'[v] = at[v]
        /\ invoker'[w] = f /\ \A v \in Workers : v # w => invoker'[v] = invoker[v]
        /\ chain'[w] = <<f>> /\ \A v \in Workers : v # w => chain'[v] = chain[v]
        /\ chain' \in [Workers -> Seq(Fibers)]
    BY <1>0, <1>1 DEF BaseTypeOK, Labels
  <1>c. /\ Len(<<f>>) = 1 /\ <<f>>[1] = f
        /\ \A x : Occurs(x, <<f>>) <=> x = f
        /\ Distinct(<<f>>)
    <2>1. Len(<<f>>) = 1 /\ <<f>>[1] = f /\ 1 .. 1 = {1}
      OBVIOUS
    <2> QED BY <2>1 DEF Occurs, Distinct
  <1>i. onFibers /\ phase # "new"
    BY <1>1 DEF LoopInPlace, PhaseRight
  <1>2. BaseTypeOK'
    BY <1>0, <1>1, <1>p DEF BaseTypeOK
  <1>3. \A x : Waiting(x)' <=> Waiting(x)
    BY <1>1 DEF Waiting
  <1>4. \A x : OnWorker(x)' <=> OnWorker(x)
    <2>1. \A v \in Workers : v # w => Top(v)' = Top(v)
      BY <1>p DEF Top
    <2> QED BY <1>1, <1>p, <2>1 DEF OnWorker, Running
  <1>5. TasksInPlace'
    BY <1>1, <1>3, <1>4 DEF TasksInPlace
  <1>6. FibersInPlace'
    <2>1. ~ Waiting(f) /\ \A v \in Workers : ~ Occurs(f, chain[v])
      BY <1>0 DEF FibersInPlace
    <2>2. \A v \in Workers, g \in Fibers :
             Occurs(g, chain'[v]) <=> (IF v = w THEN g = f ELSE Occurs(g, chain[v]))
      <3>1. \A v \in Workers : v # w => chain'[v] = chain[v]
        BY <1>p
      <3>2. \A g : Occurs(g, chain'[w]) <=> g = f
        BY <1>p, <1>c
      <3> QED BY ONLY <3>1, <3>2
    <2>3. \A v \in Workers : Distinct(chain'[v])
      BY <1>p, <1>c DEF FibersInPlace
    <2>4. \A g \in Fibers : ~ Occurs(g, chain[w])
      <3>1. Len(chain[w]) = 0
        BY <1>1 DEF LoopInPlace
      <3> QED BY <3>1, TopFacts DEF BaseTypeOK
    <2>5. \A g \in Fibers : g \in alive' <=> g \in alive \/ g = f
      BY <1>0
    <2>6. \A g \in Fibers : g \in alive' <=> Waiting(g)' \/ \E v \in Workers : Occurs(g, chain'[v])
      BY <2>2, <2>4, <2>5, <1>3 DEF FibersInPlace
    <2>7. /\ \A v \in Workers, g \in Fibers : Occurs(g, chain'[v]) => ~ Waiting(g)'
          /\ \A u, v \in Workers, g \in Fibers : Occurs(g, chain'[u]) /\ Occurs(g, chain'[v]) => u = v
      BY <2>1, <2>2, <1>3 DEF FibersInPlace
    <2>8. (\A g \in parked' : ~ Occurs(g, queue')) /\ (~ onFibers' => alive' = {})
      BY <1>1, <1>i DEF FibersInPlace
    <2> QED BY <2>3, <2>6, <2>7, <2>8 DEF FibersInPlace
  <1>7. \A v \in Workers : LoopInPlace(v)'
    <2> SUFFICES ASSUME NEW v \in Workers PROVE LoopInPlace(v)'
      OBVIOUS
    <2>1. CASE v = w
      BY <1>0, <1>1, <1>p, <1>c, <1>i, <2>1 DEF LoopInPlace
    <2>2. CASE v # w
      BY <1>1, <1>p, <2>2, LoopIsKept
    <2> QED BY <2>1, <2>2
  <1>8. PhaseRight'
    BY <1>1, <1>p DEF PhaseRight, Busy
  <1>9. NobodySleepsBesideWork'
    <2>1. /\ Cardinality(Poppers(at)) \in Nat /\ Cardinality(Poppers(at')) \in Nat
          /\ Cardinality(Poppers(at')) = Cardinality(Poppers(at)) + 1
      <3>1. at[w] # "pop" /\ at'[w] = "pop" /\ \A v \in Workers : v # w => at'[v] = at[v]
        BY <1>1, <1>p
      <3> QED BY ONLY <3>1, PoppersShift, w \in Workers, ThreadPoolAssumption
    <2>2. Sleepers' = Sleepers /\ Len(queue) \in Nat
      BY <1>1, <1>p, LenProperties DEF Sleepers, BaseTypeOK
    <2> QED BY <1>1, <2>1, <2>2 DEF NobodySleepsBesideWork, Poppers
  <1> QED BY <1>2, <1>5, <1>6, <1>7, <1>8, <1>9

\* A fiber ends, in Pop of a closed queue or where it was not created.
LEMMA CompleteIInv ==
  ASSUME IInv, NEW w \in Workers, NEW inv, Complete(w, inv),
         UNCHANGED <<phase, onFibers, queue, task, parked, left, submitted, finished>>,
         Len(chain[w]) > 0,
         \/ at[w] = "pop" /\ Drained /\ inv = nullptr
         \/ at[w] = "check" /\ inv = invoker[w]
  PROVE  IInv'
  <1> USE DEF IInv
  <1>1. /\ alive' = alive \ {Top(w)}
        /\ chain' = [chain EXCEPT ![w] = Seqs!Front(chain[w])]
        /\ invoker' = [invoker EXCEPT ![w] = inv]
        /\ at' = [at EXCEPT ![w] = Left(w, inv)]
    BY DEF Complete, Destroy
  <1>i. /\ onFibers /\ Len(chain[w]) \in {1, 2} /\ invoker[w] # nullptr
        /\ at[w] = "pop" => Len(chain[w]) = 1
        /\ phase # "new"
    BY DEF LoopInPlace, PhaseRight
  <1>q. at[w] = "pop" => queue = <<>> /\ phase \in {"closed", "joined"}
    BY DEF Drained
  <1>l. /\ Left(w, inv) \in {"check", "invoke", "gone"}
        /\ Len(chain[w]) = 2 => Left(w, inv) = "check" /\ inv = invoker[w]
        /\ Len(chain[w]) = 1 => Left(w, inv) \in {"invoke", "gone"}
        /\ Left(w, inv) = "gone" => at[w] = "pop"
    <2>1. CASE Len(chain[w]) = 1
      <3>1. ~ Len(chain[w]) > 1
        BY <2>1
      <3> QED BY <1>i, <2>1, <3>1 DEF Left
    <2>2. CASE Len(chain[w]) = 2
      <3>1. Len(chain[w]) > 1 /\ Len(chain[w]) # 1
        BY <2>2
      <3> QED BY <1>i, <3>1 DEF Left
    <2> QED BY <1>i, <2>1, <2>2
  <1>f. /\ Seqs!Front(chain[w]) \in Seq(Fibers)
        /\ Len(Seqs!Front(chain[w])) = Len(chain[w]) - 1
        /\ \A i \in 1 .. Len(chain[w]) - 1 : Seqs!Front(chain[w])[i] = chain[w][i]
        /\ Distinct(Seqs!Front(chain[w]))
        /\ \A y : Occurs(y, Seqs!Front(chain[w])) <=> Occurs(y, chain[w]) /\ y # Top(w)
        /\ Top(w) \in Fibers /\ Occurs(Top(w), chain[w])
    <2>1. chain[w] \in Seq(Fibers) /\ Distinct(chain[w])
      BY DEF BaseTypeOK, FibersInPlace
    <2> QED BY <1>i, <2>1, InnermostFacts
  <1>p. /\ at \in [Workers -> Labels] /\ at' \in [Workers -> Labels] /\ at'[w] = Left(w, inv)
        /\ \A v \in Workers : v # w => at'[v] = at[v]
        /\ invoker' \in [Workers -> Fibers \union {nullptr}]
        /\ invoker'[w] = inv /\ \A v \in Workers : v # w => invoker'[v] = invoker[v]
        /\ chain'[w] = Seqs!Front(chain[w]) /\ \A v \in Workers : v # w => chain'[v] = chain[v]
        /\ chain' \in [Workers -> Seq(Fibers)]
    BY <1>1, <1>l, <1>f DEF BaseTypeOK, Labels
  <1> HIDE DEF Left
  <1>2. BaseTypeOK'
    BY <1>1, <1>p DEF BaseTypeOK
  <1>3. \A x : Waiting(x)' <=> Waiting(x)
    BY DEF Waiting
  <1>4. \A x : OnWorker(x)' <=> OnWorker(x)
    <2>1. \A v \in Workers : v # w => Top(v)' = Top(v)
      BY <1>p DEF Top
    <2>2. at[w] # "run" /\ at'[w] # "run" /\ \A v \in Workers : v # w => at'[v] = at[v]
      BY <1>p, <1>l
    <2> QED BY ONLY <2>1, <2>2 DEF OnWorker, Running
  <1>5. TasksInPlace'
    BY <1>3, <1>4 DEF TasksInPlace
  <1>6. FibersInPlace'
    BY <1>1, <1>p, <1>f, <1>i, <1>3 DEF FibersInPlace
  <1>7. \A v \in Workers : LoopInPlace(v)'
    <2> SUFFICES ASSUME NEW v \in Workers PROVE LoopInPlace(v)'
      OBVIOUS
    <2>1. CASE v = w
      <3>1. CASE Len(chain[w]) = 1
        <4>1. Len(chain'[w]) = 0 /\ at'[w] \in {"invoke", "gone"}
          BY <1>p, <1>f, <1>l, <3>1
        <4> QED BY <1>i, <2>1, <4>1 DEF LoopInPlace
      <3>2. CASE Len(chain[w]) = 2
        <4>1. Len(chain'[w]) = 1 /\ at'[w] = "check" /\ invoker'[w] = invoker[w]
          BY <1>p, <1>f, <1>l, <3>2
        <4> QED BY <1>i, <2>1, <4>1 DEF LoopInPlace
      <3> QED BY <1>i, <3>1, <3>2
    <2>2. CASE v # w
      BY <1>p, <2>2, LoopIsKept
    <2> QED BY <2>1, <2>2
  <1>8. PhaseRight'
    BY <1>p, <1>l, <1>q, <1>i DEF PhaseRight, Busy
  <1>9. NobodySleepsBesideWork'
    <2>1. /\ Cardinality(Poppers(at)) \in Nat /\ Cardinality(Poppers(at')) \in Nat
          /\ at[w] # "pop" => Cardinality(Poppers(at')) = Cardinality(Poppers(at))
      <3>1. at'[w] # "pop" /\ \A v \in Workers : v # w => at'[v] = at[v]
        BY <1>p, <1>l
      <3> QED BY ONLY <3>1, PoppersShift, w \in Workers, ThreadPoolAssumption
    <2>2. Sleepers' \subseteq Sleepers /\ Len(queue) \in Nat /\ (queue = <<>> => Len(queue) = 0)
      BY <1>p, <1>l, LenProperties, EmptySeq DEF Sleepers, BaseTypeOK
    <2> QED BY <1>q, <2>1, <2>2 DEF NobodySleepsBesideWork, Poppers
  <1> QED BY <1>2, <1>5, <1>6, <1>7, <1>8, <1>9

\* Pop gives the worker something, and it runs.
LEMMA PopFacts ==
  ASSUME IInv, NEW w \in Workers, at[w] = "pop", queue # <<>>,
         queue' = Tail(queue), at' = [at EXCEPT ![w] = "run"],
         UNCHANGED <<phase, onFibers, parked, left, submitted, finished>>
  PROVE  /\ Head(queue) \in Tasks \union Fibers /\ Occurs(Head(queue), queue)
         /\ queue' \in Seq(Tasks \union Fibers) /\ Distinct(queue')
         /\ \A y : Occurs(y, queue') <=> Occurs(y, queue) /\ y # Head(queue)
         /\ at' \in [Workers -> Labels] /\ at'[w] = "run"
         /\ \A v \in Workers : v # w => at'[v] = at[v]
         /\ PhaseRight' /\ NobodySleepsBesideWork'
  <1>1. /\ Head(queue) \in Tasks \union Fibers /\ Occurs(Head(queue), queue)
        /\ queue' \in Seq(Tasks \union Fibers) /\ Distinct(queue')
        /\ \A y : Occurs(y, queue') <=> Occurs(y, queue) /\ y # Head(queue)
        /\ Len(queue) \in Nat /\ Len(queue') = Len(queue) - 1
    BY TailFacts DEF IInv, BaseTypeOK, TasksInPlace
  <1>2. /\ at \in [Workers -> Labels] /\ at' \in [Workers -> Labels] /\ at'[w] = "run"
        /\ \A v \in Workers : v # w => at'[v] = at[v]
    BY DEF IInv, BaseTypeOK, Labels
  <1>3. PhaseRight'
    BY <1>2 DEF IInv, PhaseRight, Busy
  <1>4. NobodySleepsBesideWork'
    <2>1. /\ Cardinality(Poppers(at)) \in Nat /\ Cardinality(Poppers(at')) \in Nat
          /\ Cardinality(Poppers(at')) = Cardinality(Poppers(at)) - 1
      <3>1. at[w] = "pop" /\ at'[w] # "pop" /\ \A v \in Workers : v # w => at'[v] = at[v]
        BY <1>2
      <3> QED BY ONLY <3>1, PoppersShift, w \in Workers, ThreadPoolAssumption
    <2>2. Sleepers' = Sleepers
      BY <1>2 DEF Sleepers
    <2> QED BY <1>1, <2>1, <2>2 DEF IInv, NobodySleepsBesideWork, Poppers
  <1> QED BY <1>1, <1>2, <1>3, <1>4

LEMMA TakeTaskIInv ==
  ASSUME IInv, NEW w \in Workers, Take(w), Head(queue) \in Tasks
  PROVE  IInv'
  <1> USE DEF IInv
  <1> DEFINE t == Head(queue)
             x == Top(w)
  <1>1. /\ at[w] = "pop" /\ queue # <<>> /\ queue' = Tail(queue) /\ at' = [at EXCEPT ![w] = "run"]
        /\ task' = [task EXCEPT ![x] = t]
        /\ UNCHANGED <<phase, onFibers, invoker, chain, alive, parked, left, submitted, finished>>
    BY DEF Take
  <1>2. /\ Occurs(t, queue) /\ queue' \in Seq(Tasks \union Fibers) /\ Distinct(queue')
        /\ \A y : Occurs(y, queue') <=> Occurs(y, queue) /\ y # t
        /\ at' \in [Workers -> Labels] /\ at'[w] = "run"
        /\ \A v \in Workers : v # w => at'[v] = at[v]
        /\ PhaseRight' /\ NobodySleepsBesideWork'
    BY <1>1, PopFacts
  <1>x. /\ x \in Carriers /\ task[x] = nullptr /\ (x \in Fibers => ~ Waiting(x))
        /\ \A v \in Workers : Top(v) = x => v = w
    BY <1>1, TopIsAlone
  <1>t. t \in Tasks /\ t \notin Fibers /\ t # nullptr
    OBVIOUS
  <1> HIDE DEF t, x
  <1>p. /\ task' \in [Carriers -> Tasks \union {nullptr}] /\ task'[x] = t
        /\ \A y \in Carriers : y # x => task'[y] = task[y]
    BY <1>1, <1>x, <1>t DEF BaseTypeOK
  <1>3. BaseTypeOK'
    BY <1>1, <1>2, <1>p DEF BaseTypeOK
  <1>4. \A f \in Fibers : Waiting(f)' <=> Waiting(f)
    BY <1>1, <1>2, <1>t DEF Waiting
  <1>5. \A y : OnWorker(y)' <=> OnWorker(y) \/ y = x
    <2>1. \A v \in Workers : Top(v)' = Top(v)
      BY <1>1 DEF Top
    <2> QED BY <1>1, <1>2, <2>1 DEF OnWorker, Running, x
  <1>6. TasksInPlace'
    <2>1. \A y \in Carriers : task[y] # t
      BY <1>2 DEF TasksInPlace
    <2>2. \A y, z \in Carriers : task'[y] = task'[z] /\ task'[y] # nullptr => y = z
      BY <1>p, <2>1 DEF TasksInPlace
    <2>3. \A y \in Carriers : ~ Occurs(task'[y], queue')
      BY <1>2, <1>p DEF TasksInPlace
    <2>4. \A u \in Tasks : u \in submitted' \ finished' <=>
             Occurs(u, queue') \/ \E y \in Carriers : task'[y] = u
      BY <1>1, <1>2, <1>p, <1>x DEF TasksInPlace
    <2>5. \A y \in Carriers : task'[y] # nullptr <=> (y \in Fibers /\ Waiting(y)') \/ OnWorker(y)'
      BY <1>4, <1>5, <1>p, <1>t DEF TasksInPlace
    <2> QED BY <1>2, <2>2, <2>3, <2>4, <2>5 DEF TasksInPlace
  <1>7. FibersInPlace'
    BY <1>1, <1>2, <1>4 DEF FibersInPlace
  <1>8. \A v \in Workers : LoopInPlace(v)'
    <2> SUFFICES ASSUME NEW v \in Workers PROVE LoopInPlace(v)'
      OBVIOUS
    <2>1. CASE v = w
      BY <1>1, <1>2, <2>1 DEF LoopInPlace
    <2>2. CASE v # w
      BY <1>1, <1>2, <2>2, LoopIsKept
    <2> QED BY <2>1, <2>2
  <1> QED BY <1>2, <1>3, <1>6, <1>7, <1>8

LEMMA TakeFiberIInv ==
  ASSUME IInv, NEW w \in Workers, Take(w), Head(queue) \notin Tasks
  PROVE  IInv'
  <1> USE DEF IInv
  <1> DEFINE f == Head(queue)
  <1>1. /\ at[w] = "pop" /\ queue # <<>> /\ queue' = Tail(queue) /\ at' = [at EXCEPT ![w] = "run"]
        /\ chain' = [chain EXCEPT ![w] = Append(chain[w], f)]
        /\ UNCHANGED <<phase, onFibers, task, invoker, alive, parked, left, submitted, finished>>
    BY DEF Take
  <1>2. /\ f \in Tasks \union Fibers
        /\ Occurs(f, queue) /\ queue' \in Seq(Tasks \union Fibers) /\ Distinct(queue')
        /\ \A y : Occurs(y, queue') <=> Occurs(y, queue) /\ y # f
        /\ at' \in [Workers -> Labels] /\ at'[w] = "run"
        /\ \A v \in Workers : v # w => at'[v] = at[v]
        /\ PhaseRight' /\ NobodySleepsBesideWork'
    BY <1>1, PopFacts
  <1>f. /\ f \in Fibers /\ Waiting(f) /\ f \in alive /\ f \notin parked
        /\ \A v \in Workers : ~ Occurs(f, chain[v])
    BY <1>2 DEF Waiting, FibersInPlace
  <1> HIDE DEF f
  <1>i. onFibers /\ Len(chain[w]) = 1 /\ chain[w][1] = invoker[w] /\ invoker[w] # nullptr
    BY <1>1, <1>f DEF LoopInPlace, FibersInPlace
  <1>c. /\ Append(chain[w], f) \in Seq(Fibers) /\ Distinct(Append(chain[w], f))
        /\ Len(Append(chain[w], f)) = 2
        /\ Append(chain[w], f)[1] = invoker[w] /\ Append(chain[w], f)[2] = f
        /\ \A y : Occurs(y, Append(chain[w], f)) <=> Occurs(y, chain[w]) \/ y = f
    <2>1. chain[w] \in Seq(Fibers) /\ Distinct(chain[w]) /\ ~ Occurs(f, chain[w])
      BY <1>f DEF BaseTypeOK, FibersInPlace
    <2>2. 1 \in 1 .. 1 /\ 1 + 1 = 2
      OBVIOUS
    <2> QED BY <1>f, <1>i, <2>1, <2>2, AppendFacts
  <1>p. /\ chain' \in [Workers -> Seq(Fibers)] /\ chain'[w] = Append(chain[w], f)
        /\ \A v \in Workers : v # w => chain'[v] = chain[v]
    BY <1>1, <1>c DEF BaseTypeOK
  <1>3. BaseTypeOK'
    BY <1>1, <1>2, <1>p DEF BaseTypeOK
  <1>4. \A g : Waiting(g)' <=> Waiting(g) /\ g # f
    BY <1>1, <1>2, <1>f DEF Waiting
  <1>5. \A y : OnWorker(y)' <=> OnWorker(y) \/ y = f
    <2>1. \A v \in Workers : v # w => Top(v)' = Top(v)
      BY <1>p DEF Top
    <2>2. Top(w)' = f
      <3>1. chain'[w] # <<>>
        BY <1>p, <1>c, EmptySeq
      <3> QED BY <1>p, <1>c, <3>1 DEF Top, Seqs!Last
    <2> QED BY <1>1, <1>2, <2>1, <2>2 DEF OnWorker, Running
  <1>6. TasksInPlace'
    <2>1. \A y \in Carriers : task[y] # f
      BY <1>f DEF BaseTypeOK
    <2>2. \A u \in Tasks : u # f
      BY <1>f
    <2>3. \A y \in Carriers : ~ Occurs(task'[y], queue')
      BY <1>1, <1>2 DEF TasksInPlace
    <2>4. \A u \in Tasks : u \in submitted' \ finished' <=>
             Occurs(u, queue') \/ \E y \in Carriers : task'[y] = u
      BY <1>1, <1>2, <2>2 DEF TasksInPlace
    <2>5. \A y \in Carriers : task'[y] # nullptr <=> (y \in Fibers /\ Waiting(y)') \/ OnWorker(y)'
      BY <1>1, <1>4, <1>5, <1>f DEF TasksInPlace
    <2> QED BY <1>1, <1>2, <2>3, <2>4, <2>5 DEF TasksInPlace
  <1>7. FibersInPlace'
    <2>1. \A v \in Workers, g \in Fibers :
             Occurs(g, chain'[v]) <=> Occurs(g, chain[v]) \/ (v = w /\ g = f)
      BY <1>p, <1>c
    <2>2. \A v \in Workers : Distinct(chain'[v])
      BY <1>p, <1>c DEF FibersInPlace
    <2>3. \A v \in Workers, g \in Fibers : Occurs(g, chain'[v]) => ~ Waiting(g)'
      BY <1>4, <2>1 DEF FibersInPlace
    <2>4. \A u, v \in Workers, g \in Fibers : Occurs(g, chain'[u]) /\ Occurs(g, chain'[v]) => u = v
      BY <1>f, <2>1 DEF FibersInPlace
    <2>5. \A g \in Fibers : g \in alive' <=> Waiting(g)' \/ \E v \in Workers : Occurs(g, chain'[v])
      BY <1>1, <1>4, <1>f, <2>1 DEF FibersInPlace
    <2>6. (\A g \in parked' : ~ Occurs(g, queue')) /\ (~ onFibers' => alive' = {})
      BY <1>1, <1>2 DEF FibersInPlace
    <2> QED BY <2>2, <2>3, <2>4, <2>5, <2>6 DEF FibersInPlace
  <1>8. \A v \in Workers : LoopInPlace(v)'
    <2> SUFFICES ASSUME NEW v \in Workers PROVE LoopInPlace(v)'
      OBVIOUS
    <2>1. CASE v = w
      BY <1>1, <1>2, <1>i, <1>p, <1>c, <2>1 DEF LoopInPlace
    <2>2. CASE v # w
      BY <1>1, <1>2, <1>p, <2>2, LoopIsKept
    <2> QED BY <2>1, <2>2
  <1> QED BY <1>2, <1>3, <1>6, <1>7, <1>8

\* A task ends.
LEMMA FinishIInv ==
  ASSUME IInv, NEW w \in Workers, Finish(w)
  PROVE  IInv'
  <1> USE DEF IInv
  <1> DEFINE x == Top(w)
             t == task[x]
  <1>1. /\ at[w] = "run" /\ at' = [at EXCEPT ![w] = "check"]
        /\ finished' = finished \union {t}
        /\ task' = [task EXCEPT ![x] = nullptr]
        /\ UNCHANGED <<phase, onFibers, queue, invoker, chain, alive, parked, left, submitted>>
    BY DEF Finish, Running
  <1>x. /\ x \in Carriers /\ t \in Tasks /\ (x \in Fibers => ~ Waiting(x))
        /\ \A v \in Workers : Top(v) = x => v = w
    BY <1>1, TopIsAlone
  <1>t. t \in submitted \ finished /\ ~ Occurs(t, queue) /\ t # nullptr
    BY <1>x DEF TasksInPlace
  <1>p. /\ at' \in [Workers -> Labels] /\ at'[w] = "check" /\ (\A v \in Workers : v # w => at'[v] = at[v])
        /\ task' \in [Carriers -> Tasks \union {nullptr}] /\ task'[x] = nullptr
        /\ \A y \in Carriers : y # x => task'[y] = task[y]
    BY <1>1, <1>x DEF BaseTypeOK, Labels
  <1>u. \A y \in Carriers : task[y] = t => y = x
    BY <1>x, <1>t DEF TasksInPlace
  <1>e. /\ at[w] = "run" /\ Running(w) /\ Top(w) = x
    BY <1>1 DEF Running
  <1>q. ~ Occurs(nullptr, queue)
    <2>1. \A i \in 1 .. Len(queue) : queue[i] \in Tasks \union Fibers
      BY ElementOfSeq DEF BaseTypeOK
    <2> QED BY <2>1 DEF Occurs
  <1>f. \A u \in Tasks : u \in submitted \ finished' <=> u \in submitted \ finished /\ u # t
    BY <1>1
  <1> HIDE DEF t, x
  <1>2. BaseTypeOK'
    BY <1>1, <1>p, <1>t DEF BaseTypeOK
  <1>3. \A f : Waiting(f)' <=> Waiting(f)
    BY <1>1 DEF Waiting
  <1>4. \A y : OnWorker(y)' <=> OnWorker(y) /\ y # x
    <2>1. \A v \in Workers : Top(v)' = Top(v)
      BY <1>1 DEF Top
    <2> QED BY <1>p, <1>x, <1>e, <2>1 DEF OnWorker, Running
  <1>5. TasksInPlace'
    <2>1. \A y, z \in Carriers : task'[y] = task'[z] /\ task'[y] # nullptr => y = z
      BY <1>p DEF TasksInPlace
    <2>2. \A y \in Carriers : ~ Occurs(task'[y], queue')
      BY <1>1, <1>p, <1>q DEF TasksInPlace
    <2>3. \A u \in Tasks : u \in submitted' \ finished' <=>
             Occurs(u, queue') \/ \E y \in Carriers : task'[y] = u
      <3> SUFFICES ASSUME NEW u \in Tasks
                   PROVE  u \in submitted' \ finished' <=>
                             Occurs(u, queue') \/ \E y \in Carriers : task'[y] = u
        OBVIOUS
      <3>1. u \in submitted \ finished <=> Occurs(u, queue) \/ \E y \in Carriers : task[y] = u
        BY DEF TasksInPlace
      <3>2. (\E y \in Carriers : task'[y] = u) <=> u # t /\ \E y \in Carriers : task[y] = u
        BY <1>p, <1>u, <1>t, <1>x DEF t
      <3> QED BY <1>1, <1>f, <1>t, <3>1, <3>2
    <2>4. \A y \in Carriers : task'[y] # nullptr <=> (y \in Fibers /\ Waiting(y)') \/ OnWorker(y)'
      BY <1>3, <1>4, <1>p, <1>x DEF TasksInPlace
    <2> QED BY <1>1, <2>1, <2>2, <2>3, <2>4 DEF TasksInPlace
  <1>6. FibersInPlace'
    BY <1>1, <1>3 DEF FibersInPlace
  <1>7. \A v \in Workers : LoopInPlace(v)'
    <2> SUFFICES ASSUME NEW v \in Workers PROVE LoopInPlace(v)'
      OBVIOUS
    <2>1. CASE v = w
      BY <1>1, <1>p, <2>1 DEF LoopInPlace
    <2>2. CASE v # w
      BY <1>1, <1>p, <2>2, LoopIsKept
    <2> QED BY <2>1, <2>2
  <1>8. PhaseRight'
    BY <1>1, <1>p DEF PhaseRight, Busy
  <1>9. NobodySleepsBesideWork'
    <2>1. Poppers(at') = Poppers(at) /\ Sleepers' = Sleepers
      BY <1>p, <1>e DEF Poppers, Sleepers
    <2> QED BY <1>1, <2>1 DEF NobodySleepsBesideWork, Poppers
  <1> QED BY <1>2, <1>5, <1>6, <1>7, <1>8, <1>9

\* A task is pushed.
LEMMA SubmitIInv ==
  ASSUME IInv, NEW t \in Tasks, SubmitTask(t), left' \in [Tasks -> 0 .. MaxSteps],
         phase \in {"new", "started"},
         UNCHANGED <<phase, onFibers, invoker, chain, task, alive, parked, finished>>
  PROVE  IInv'
  <1> USE DEF IInv
  <1>0. PICK w \in Workers : TRUE
    OBVIOUS
  <1>1. t \notin submitted /\ submitted' = submitted \union {t} /\ Push(t, at)
    BY DEF SubmitTask
  <1>2. /\ t \notin Fibers /\ ~ Occurs(t, queue) /\ t \notin finished
        /\ \A x \in Carriers : task[x] # t
    BY <1>1 DEF TasksInPlace, BaseTypeOK
  <1>3. /\ queue' \in Seq(Tasks \union Fibers) /\ Distinct(queue')
        /\ \A y : Occurs(y, queue') <=> Occurs(y, queue) \/ y = t
        /\ at' \in [Workers -> Labels]
        /\ Moves(w, at[w])
        /\ NobodySleepsBesideWork'
    <2>1. at[w] \in Labels /\ at = [at EXCEPT ![w] = at[w]] /\ Distinct(queue)
      BY DEF BaseTypeOK, TasksInPlace
    <2>2. Push(t, [at EXCEPT ![w] = at[w]])
      BY <1>1, <2>1
    <2> QED BY <1>2, <2>1, <2>2, PushFacts
  <1>4. \A v \in Workers : at'[v] = at[v] \/ (at[v] = "asleep" /\ at'[v] = "pop")
    BY <1>3 DEF Moves
  <1>5. BaseTypeOK'
    BY <1>1, <1>3 DEF BaseTypeOK
  <1>6. \A f \in Fibers : Waiting(f)' <=> Waiting(f)
    BY <1>2, <1>3 DEF Waiting
  <1>7. \A x : OnWorker(x)' <=> OnWorker(x)
    <2>1. \A v \in Workers : Top(v)' = Top(v)
      BY DEF Top
    <2> QED BY <1>4, <2>1 DEF OnWorker, Running
  <1>8. TasksInPlace'
    <2>1. \A x \in Carriers : ~ Occurs(task'[x], queue')
      BY <1>2, <1>3 DEF TasksInPlace
    <2>2. \A u \in Tasks : u \in submitted' \ finished' <=>
             Occurs(u, queue') \/ \E y \in Carriers : task'[y] = u
      BY <1>1, <1>2, <1>3 DEF TasksInPlace
    <2>3. \A y \in Carriers : task'[y] # nullptr <=> (y \in Fibers /\ Waiting(y)') \/ OnWorker(y)'
      BY <1>6, <1>7 DEF TasksInPlace
    <2> QED BY <1>3, <2>1, <2>2, <2>3 DEF TasksInPlace
  <1>9. FibersInPlace'
    <2>1. \A f \in parked' : ~ Occurs(f, queue')
      BY <1>2, <1>3 DEF FibersInPlace, BaseTypeOK
    <2> QED BY <1>6, <2>1 DEF FibersInPlace
  <1>10. \A v \in Workers : LoopInPlace(v)'
    BY <1>4, LoopIsKept
  <1>11. PhaseRight'
    BY <1>4 DEF PhaseRight
  <1> QED BY <1>3, <1>5, <1>8, <1>9, <1>10, <1>11

LEMMA TaskSubmitsIInv ==
  ASSUME IInv, NEW w \in Workers, SubmitFromTask(w)
  PROVE  IInv'
  <1>1. PICK t \in Tasks, n \in 0 .. MaxSteps :
          /\ SubmitTask(t)
          /\ left' = [left EXCEPT ![task[Top(w)]] = @ - 1, ![t] = n]
    BY DEF SubmitFromTask
  <1> DEFINE s == task[Top(w)]
  <1>2. at[w] = "run" /\ left[s] > 0
    BY DEF SubmitFromTask, MayStep, Running
  <1>3. s \in Tasks /\ s \in submitted \ finished
    BY <1>2, TopIsAlone DEF IInv, TasksInPlace
  <1> HIDE DEF s
  <1>4. phase \in {"new", "started"}
    BY <1>2, <1>3 DEF IInv, PhaseRight, Busy, BaseTypeOK
  <1>5. left' \in [Tasks -> 0 .. MaxSteps]
    <2>1. left \in [Tasks -> 0 .. MaxSteps] /\ left[s] - 1 \in 0 .. MaxSteps /\ n \in 0 .. MaxSteps
      BY <1>2, <1>3 DEF IInv, BaseTypeOK
    <2>2. left' = [[left EXCEPT ![s] = left[s] - 1] EXCEPT ![t] = n]
      BY <1>1, <1>3, <2>1 DEF s
    <2> QED BY <1>3, <2>1, <2>2
  <1> QED BY <1>1, <1>4, <1>5, SubmitIInv DEF SubmitFromTask

LEMMA ClientSubmitsIInv ==
  ASSUME IInv, NEW t \in Tasks, Submit(t)
  PROVE  IInv'
  <1>1. left' \in [Tasks -> 0 .. MaxSteps]
    BY DEF Submit, IInv, BaseTypeOK
  <1> QED BY <1>1, SubmitIInv DEF Submit

\* A fiber that waits is pushed.
LEMMA WakeIInv ==
  ASSUME IInv, NEW f \in Fibers, Wake(f)
  PROVE  IInv'
  <1> USE DEF IInv
  <1>0. PICK w \in Workers : TRUE
    OBVIOUS
  <1>1. /\ f \in parked /\ parked' = parked \ {f} /\ Push(f, at)
        /\ UNCHANGED <<phase, onFibers, invoker, chain, task, alive, left, submitted, finished>>
    BY DEF Wake
  <1>2. f \notin Tasks /\ ~ Occurs(f, queue)
    BY <1>1 DEF FibersInPlace
  <1>3. /\ queue' \in Seq(Tasks \union Fibers) /\ Distinct(queue')
        /\ \A y : Occurs(y, queue') <=> Occurs(y, queue) \/ y = f
        /\ at' \in [Workers -> Labels]
        /\ Moves(w, at[w])
        /\ NobodySleepsBesideWork'
    <2>1. at[w] \in Labels /\ at = [at EXCEPT ![w] = at[w]] /\ Distinct(queue)
      BY DEF BaseTypeOK, TasksInPlace
    <2>2. Push(f, [at EXCEPT ![w] = at[w]])
      BY <1>1, <2>1
    <2> QED BY <1>2, <2>1, <2>2, PushFacts
  <1>4. \A v \in Workers : at'[v] = at[v] \/ (at[v] = "asleep" /\ at'[v] = "pop")
    BY <1>3 DEF Moves
  <1>5. BaseTypeOK'
    BY <1>1, <1>3 DEF BaseTypeOK
  <1>6. \A g : Waiting(g)' <=> Waiting(g)
    BY <1>1, <1>3 DEF Waiting
  <1>7. \A x : OnWorker(x)' <=> OnWorker(x)
    <2>1. \A v \in Workers : Top(v)' = Top(v)
      BY <1>1 DEF Top
    <2> QED BY <1>4, <2>1 DEF OnWorker, Running
  <1>8. TasksInPlace'
    <2>1. \A x \in Carriers : task[x] # f
      BY DEF BaseTypeOK
    <2>2. \A x \in Carriers : ~ Occurs(task'[x], queue')
      BY <1>1, <1>3, <2>1 DEF TasksInPlace
    <2>3. \A u \in Tasks : u \in submitted' \ finished' <=>
             Occurs(u, queue') \/ \E y \in Carriers : task'[y] = u
      BY <1>1, <1>2, <1>3 DEF TasksInPlace
    <2>4. \A y \in Carriers : task'[y] # nullptr <=> (y \in Fibers /\ Waiting(y)') \/ OnWorker(y)'
      BY <1>1, <1>6, <1>7 DEF TasksInPlace
    <2> QED BY <1>1, <1>3, <2>2, <2>3, <2>4 DEF TasksInPlace
  <1>9. FibersInPlace'
    <2>1. \A g \in parked' : ~ Occurs(g, queue')
      BY <1>1, <1>3 DEF FibersInPlace
    <2> QED BY <1>1, <1>6, <2>1 DEF FibersInPlace
  <1>10. \A v \in Workers : LoopInPlace(v)'
    BY <1>1, <1>4, LoopIsKept
  <1>11. PhaseRight'
    BY <1>1, <1>4 DEF PhaseRight
  <1> QED BY <1>3, <1>5, <1>8, <1>9, <1>10, <1>11

\* What a suspension takes from its worker.
LEMMA SuspendFacts ==
  ASSUME IInv, NEW w \in Workers, Suspend(w)
  PROVE  /\ at[w] = "run" /\ phase = "started" /\ invoker[w] # nullptr
         /\ Top(w) \in Fibers /\ Top(w) \notin Tasks /\ ~ Waiting(Top(w)) /\ task[Top(w)] # nullptr
         /\ \A v \in Workers : Top(v) = Top(w) => v = w
         /\ left' \in [Tasks -> 0 .. MaxSteps]
         /\ chain' \in [Workers -> Seq(Fibers)]
         /\ \A v \in Workers : v # w => chain'[v] = chain[v]
         /\ Distinct(chain'[w])
         /\ \A y : Occurs(y, chain'[w]) <=> Occurs(y, chain[w]) /\ y # Top(w)
         /\ Occurs(Top(w), chain[w])
         /\ \/ Len(chain'[w]) = 0 /\ Left(w, invoker[w]) = "invoke"
            \/ Len(chain'[w]) = 1 /\ Left(w, invoker[w]) = "check"
  <1> USE DEF IInv
  <1> DEFINE s == task[Top(w)]
  <1>1. /\ onFibers /\ at[w] = "run" /\ left[s] > 0
        /\ left' = [left EXCEPT ![s] = left[s] - 1]
        /\ chain' = [chain EXCEPT ![w] = Seqs!Front(chain[w])]
    BY DEF Suspend, MayStep, Running
  <1>2. chain[w] \in Seq(Fibers) /\ Distinct(chain[w])
    BY DEF BaseTypeOK, FibersInPlace
  <1>3. Len(chain[w]) \in {1, 2} /\ invoker[w] # nullptr
    BY <1>1 DEF LoopInPlace
  <1>4. /\ Top(w) \in Fibers /\ Top(w) \notin Tasks /\ Occurs(Top(w), chain[w])
    BY <1>2, <1>3, InnermostFacts
  <1>5. /\ ~ Waiting(Top(w)) /\ s \in Tasks /\ s # nullptr
        /\ \A v \in Workers : Top(v) = Top(w) => v = w
    BY <1>1, <1>4, TopIsAlone
  <1>6. /\ Seqs!Front(chain[w]) \in Seq(Fibers) /\ Distinct(Seqs!Front(chain[w]))
        /\ Len(Seqs!Front(chain[w])) = Len(chain[w]) - 1
        /\ \A y : Occurs(y, Seqs!Front(chain[w])) <=> Occurs(y, chain[w]) /\ y # Top(w)
    BY <1>2, <1>3, InnermostFacts
  <1>7. /\ chain' \in [Workers -> Seq(Fibers)] /\ chain'[w] = Seqs!Front(chain[w])
        /\ \A v \in Workers : v # w => chain'[v] = chain[v]
    BY <1>1, <1>6 DEF BaseTypeOK
  <1>8. left' \in [Tasks -> 0 .. MaxSteps]
    <2>1. left \in [Tasks -> 0 .. MaxSteps] /\ left[s] - 1 \in 0 .. MaxSteps
      BY <1>1, <1>5 DEF BaseTypeOK
    <2> QED BY <1>1, <2>1
  <1>9. phase = "started"
    <2>1. s \in submitted \ finished
      BY <1>4, <1>5 DEF TasksInPlace, Carriers
    <2>2. Busy # {}
      BY <1>1, <2>1 DEF Busy
    <2> QED BY <1>1, <2>2 DEF PhaseRight, BaseTypeOK
  <1>10. \/ Len(chain'[w]) = 0 /\ Left(w, invoker[w]) = "invoke"
         \/ Len(chain'[w]) = 1 /\ Left(w, invoker[w]) = "check"
    <2>1. CASE Len(chain[w]) = 1
      <3>1. ~ Len(chain[w]) > 1 /\ Len(chain'[w]) = 0
        BY <1>6, <1>7, <2>1
      <3> QED BY <1>3, <3>1 DEF Left
    <2>2. CASE Len(chain[w]) = 2
      <3>1. Len(chain[w]) > 1 /\ Len(chain'[w]) = 1
        BY <1>6, <1>7, <2>2
      <3> QED BY <3>1 DEF Left
    <2> QED BY <1>3, <2>1, <2>2
  <1> QED BY <1>1, <1>3, <1>4, <1>5, <1>6, <1>7, <1>8, <1>9, <1>10

\* A fiber that leaves its worker, to where it waits.
LEMMA SuspendIInv ==
  ASSUME IInv, NEW w \in Workers, Suspend(w), Moves(w, Left(w, invoker[w])), at' \in [Workers -> Labels],
         queue' \in Seq(Tasks \union Fibers), Distinct(queue'),
         parked' \subseteq Fibers,
         \A t \in Tasks : Occurs(t, queue') <=> Occurs(t, queue),
         \A y : Waiting(y)' <=> Waiting(y) \/ y = Top(w),
         \A y \in Tasks \union {nullptr} : Occurs(y, queue') => Occurs(y, queue),
         \A f \in parked' : ~ Occurs(f, queue'),
         NobodySleepsBesideWork'
  PROVE  IInv'
  <1> USE DEF IInv
  <1> DEFINE x == Top(w)
             l == Left(w, invoker[w])
  <1>1. UNCHANGED <<phase, onFibers, invoker, task, alive, submitted, finished>>
    BY DEF Suspend
  <1>2. /\ at[w] = "run" /\ phase = "started" /\ invoker[w] # nullptr
        /\ x \in Fibers /\ ~ Waiting(x) /\ task[x] # nullptr
        /\ \A v \in Workers : Top(v) = x => v = w
        /\ left' \in [Tasks -> 0 .. MaxSteps]
        /\ chain' \in [Workers -> Seq(Fibers)]
        /\ \A v \in Workers : v # w => chain'[v] = chain[v]
        /\ Distinct(chain'[w])
        /\ \A y : Occurs(y, chain'[w]) <=> Occurs(y, chain[w]) /\ y # x
        /\ Occurs(x, chain[w])
        /\ \/ Len(chain'[w]) = 0 /\ l = "invoke"
           \/ Len(chain'[w]) = 1 /\ l = "check"
    BY SuspendFacts
  <1>3. /\ \A v \in Workers : v # w => at'[v] = at[v] \/ (at[v] = "asleep" /\ at'[v] = "pop")
        /\ at'[w] = l
        /\ \A v \in Workers : v # w => Top(v)' = Top(v)
        /\ Top(w) = x
    <2>1. \A v \in Workers : v # w => Top(v)' = Top(v)
      BY <1>2 DEF Top
    <2> QED BY <1>2, <2>1 DEF Moves
  <1> HIDE DEF x, l
  <1>4. BaseTypeOK'
    BY <1>1, <1>2 DEF BaseTypeOK
  <1>5. \A y : OnWorker(y)' <=> OnWorker(y) /\ y # x
    BY <1>2, <1>3 DEF OnWorker, Running
  <1>6. \A y : Waiting(y)' <=> Waiting(y) \/ y = x
    BY DEF x
  <1>7. TasksInPlace'
    <2>1. \A y \in Carriers : task[y] \in Tasks \union {nullptr}
      BY DEF BaseTypeOK
    <2>2. \A y \in Carriers : ~ Occurs(task'[y], queue')
      BY <1>1, <2>1 DEF TasksInPlace
    <2>3. \A u \in Tasks : u \in submitted' \ finished' <=>
             Occurs(u, queue') \/ \E y \in Carriers : task'[y] = u
      BY <1>1 DEF TasksInPlace
    <2>4. \A y \in Carriers : task'[y] # nullptr <=> (y \in Fibers /\ Waiting(y)') \/ OnWorker(y)'
      BY <1>1, <1>2, <1>5, <1>6 DEF TasksInPlace
    <2> QED BY <1>1, <2>2, <2>3, <2>4 DEF TasksInPlace
  <1>8. FibersInPlace'
    <2>1. \A v \in Workers, g \in Fibers :
             Occurs(g, chain'[v]) <=> Occurs(g, chain[v]) /\ g # x
      <3>1. \A v \in Workers : Occurs(x, chain[v]) => v = w
        BY <1>2 DEF FibersInPlace
      <3> QED BY <1>2, <3>1
    <2>2. \A v \in Workers : Distinct(chain'[v])
      BY <1>2 DEF FibersInPlace
    <2>3. \A v \in Workers, g \in Fibers : Occurs(g, chain'[v]) => ~ Waiting(g)'
      BY <1>6, <2>1 DEF FibersInPlace
    <2>4. \A u, v \in Workers, g \in Fibers : Occurs(g, chain'[u]) /\ Occurs(g, chain'[v]) => u = v
      BY <2>1 DEF FibersInPlace
    <2>5. \A g \in Fibers : g \in alive' <=> Waiting(g)' \/ \E v \in Workers : Occurs(g, chain'[v])
      BY <1>1, <1>2, <1>6, <2>1 DEF FibersInPlace
    <2> QED BY <1>1, <2>2, <2>3, <2>4, <2>5 DEF FibersInPlace
  <1>9. \A v \in Workers : LoopInPlace(v)'
    <2> SUFFICES ASSUME NEW v \in Workers PROVE LoopInPlace(v)'
      OBVIOUS
    <2>1. CASE v = w
      <3>1. onFibers
        BY <1>1, <1>2 DEF Suspend
      <3>2. at'[w] = l /\ invoker'[w] = invoker[w] /\ onFibers'
        BY <1>1, <1>3, <3>1
      <3>3. CASE Len(chain'[w]) = 0 /\ l = "invoke"
        BY <1>2, <2>1, <3>2, <3>3 DEF LoopInPlace
      <3>4. CASE Len(chain'[w]) = 1 /\ l = "check"
        BY <1>2, <2>1, <3>2, <3>4 DEF LoopInPlace
      <3> QED BY <1>2, <3>3, <3>4
    <2>2. CASE v # w
      BY <1>1, <1>2, <1>3, <2>2, LoopIsKept
    <2> QED BY <2>1, <2>2
  <1>10. PhaseRight'
    BY <1>1, <1>2, <1>3 DEF PhaseRight
  <1> QED BY <1>4, <1>7, <1>8, <1>9, <1>10

LEMMA YieldIInv ==
  ASSUME IInv, NEW w \in Workers, Yield(w)
  PROVE  IInv'
  <1> DEFINE x == Top(w)
             l == Left(w, invoker[w])
  <1>1. Suspend(w) /\ Push(x, [at EXCEPT ![w] = l]) /\ parked' = parked
    BY DEF Yield
  <1>2. /\ at[w] = "run" /\ x \in Fibers /\ x \notin Tasks /\ ~ Waiting(x) /\ l \in {"invoke", "check"}
    BY <1>1, SuspendFacts
  <1> HIDE DEF x, l
  <1>3. /\ queue' \in Seq(Tasks \union Fibers) /\ Distinct(queue')
        /\ \A y : Occurs(y, queue') <=> Occurs(y, queue) \/ y = x
        /\ at' \in [Workers -> Labels]
        /\ Moves(w, l)
        /\ NobodySleepsBesideWork'
    <2>1. ~ Occurs(x, queue) /\ Distinct(queue) /\ BaseTypeOK /\ NobodySleepsBesideWork
      BY <1>2 DEF Waiting, IInv, TasksInPlace
    <2>2. l \in Labels /\ l \notin {"pop", "asleep"}
      BY <1>2 DEF Labels
    <2> QED BY <1>1, <1>2, <2>1, <2>2, PushFacts
  <1>4. \A y : Waiting(y)' <=> Waiting(y) \/ y = x
    BY <1>1, <1>3 DEF Waiting
  <1>5. \A t \in Tasks \union {nullptr} : Occurs(t, queue') <=> Occurs(t, queue)
    BY <1>2, <1>3
  <1>6. parked' \subseteq Fibers /\ \A f \in parked' : ~ Occurs(f, queue')
    BY <1>1, <1>2, <1>3 DEF IInv, BaseTypeOK, FibersInPlace, Waiting
  <1> QED BY <1>1, <1>3, <1>4, <1>5, <1>6, SuspendIInv DEF x, l

LEMMA ParkIInv ==
  ASSUME IInv, NEW w \in Workers, Park(w)
  PROVE  IInv'
  <1> DEFINE x == Top(w)
             l == Left(w, invoker[w])
  <1>1. /\ Suspend(w) /\ parked' = parked \union {x} /\ at' = [at EXCEPT ![w] = l] /\ queue' = queue
    BY DEF Park
  <1>2. /\ at[w] = "run" /\ x \in Fibers /\ x \notin Tasks /\ ~ Waiting(x) /\ l \in {"invoke", "check"}
    BY <1>1, SuspendFacts
  <1> HIDE DEF x, l
  <1>3. /\ at \in [Workers -> Labels] /\ at' \in [Workers -> Labels] /\ at'[w] = l
        /\ \A v \in Workers : v # w => at'[v] = at[v]
    BY <1>1, <1>2 DEF IInv, BaseTypeOK, Labels
  <1>4. Moves(w, l)
    BY <1>3 DEF Moves
  <1>5. NobodySleepsBesideWork'
    <2>1. Poppers(at') = Poppers(at) /\ Sleepers' = Sleepers
      BY <1>2, <1>3 DEF Poppers, Sleepers
    <2> QED BY <1>1, <2>1 DEF IInv, NobodySleepsBesideWork, Poppers
  <1>6. \A y : Waiting(y)' <=> Waiting(y) \/ y = x
    BY <1>1 DEF Waiting
  <1>7. /\ queue' \in Seq(Tasks \union Fibers) /\ Distinct(queue') /\ parked' \subseteq Fibers
        /\ \A f \in parked' : ~ Occurs(f, queue')
        /\ \A y : Occurs(y, queue') <=> Occurs(y, queue)
    BY <1>1, <1>2 DEF IInv, BaseTypeOK, TasksInPlace, FibersInPlace, Waiting
  <1> QED BY <1>1, <1>3, <1>4, <1>5, <1>6, <1>7, SuspendIInv DEF x, l

\* A fiber takes the place of the one that switches to it.
LEMMA SwitchToIInv ==
  ASSUME IInv, NEW w \in Workers, SwitchTo(w)
  PROVE  IInv'
  <1> USE DEF IInv
  <1> DEFINE x == Top(w)
  <1>0. PICK f \in parked :
          /\ parked' = parked \ {f}
          /\ chain' = [chain EXCEPT ![w] = Append(Seqs!Front(chain[w]), f)]
    BY DEF SwitchTo
  <1>1. /\ onFibers /\ at[w] = "run" /\ Push(x, at)
        /\ UNCHANGED <<phase, onFibers, invoker, task, alive, left, submitted, finished>>
    BY DEF SwitchTo, Running
  <1>2. chain[w] \in Seq(Fibers) /\ Distinct(chain[w]) /\ f \in Fibers
    BY DEF BaseTypeOK, FibersInPlace
  <1>3. /\ Len(chain[w]) \in {1, 2} /\ invoker[w] # nullptr
        /\ Len(chain[w]) = 2 => chain[w][1] = invoker[w]
    BY <1>1 DEF LoopInPlace
  <1>4. /\ x \in Fibers /\ x \notin Tasks /\ Occurs(x, chain[w]) /\ x = chain[w][Len(chain[w])]
        /\ ~ Waiting(x) /\ task[x] # nullptr
        /\ \A v \in Workers : Top(v) = x => v = w
    <2>1. /\ x \in Fibers /\ Occurs(x, chain[w]) /\ x = chain[w][Len(chain[w])]
      BY <1>2, <1>3, InnermostFacts
    <2> QED BY <1>1, <2>1, TopIsAlone
  <1>f. /\ Waiting(f) /\ ~ Occurs(f, queue) /\ f # x /\ \A v \in Workers : ~ Occurs(f, chain[v])
    BY <1>2, <1>4 DEF FibersInPlace, Waiting
  <1> DEFINE s == Seqs!Front(chain[w])
             c == Append(s, f)
  <1>5. /\ s \in Seq(Fibers) /\ Distinct(s) /\ Len(s) = Len(chain[w]) - 1
        /\ \A i \in 1 .. Len(chain[w]) - 1 : s[i] = chain[w][i]
        /\ \A y : Occurs(y, s) <=> Occurs(y, chain[w]) /\ y # x
    BY <1>2, <1>3, InnermostFacts
  <1>c. /\ c \in Seq(Fibers) /\ Distinct(c) /\ Len(c) = Len(chain[w])
        /\ Len(chain[w]) = 2 => c[1] = chain[w][1]
        /\ c[Len(c)] = f
        /\ \A y : Occurs(y, c) <=> (Occurs(y, chain[w]) /\ y # x) \/ y = f
    <2>1. ~ Occurs(f, s) /\ f \in Fibers
      BY <1>2, <1>5, <1>f
    <2> HIDE DEF s
    <2>2. /\ c \in Seq(Fibers) /\ Distinct(c) /\ Len(c) = Len(s) + 1 /\ Len(s) \in Nat
          /\ \A i \in 1 .. Len(s) : c[i] = s[i]
          /\ c[Len(s) + 1] = f
          /\ \A y : Occurs(y, c) <=> Occurs(y, s) \/ y = f
      BY <1>5, <2>1, AppendFacts
    <2> HIDE DEF c
    <2>3. Len(c) = Len(chain[w])
      BY <1>3, <1>5, <2>2
    <2>4. ASSUME Len(chain[w]) = 2 PROVE c[1] = chain[w][1]
      <3>1. 1 \in 1 .. Len(s) /\ 1 \in 1 .. Len(chain[w]) - 1
        BY <1>5, <2>4
      <3> QED BY <1>5, <2>2, <3>1
    <2> QED BY <1>5, <2>2, <2>3, <2>4
  <1> HIDE DEF s, c, x
  <1>p. /\ chain' \in [Workers -> Seq(Fibers)] /\ chain'[w] = c
        /\ \A v \in Workers : v # w => chain'[v] = chain[v]
    BY <1>0, <1>c DEF BaseTypeOK, c, s
  <1>6. /\ queue' \in Seq(Tasks \union Fibers) /\ Distinct(queue')
        /\ \A y : Occurs(y, queue') <=> Occurs(y, queue) \/ y = x
        /\ at' \in [Workers -> Labels]
        /\ Moves(w, at[w])
        /\ NobodySleepsBesideWork'
    <2>1. at[w] \in Labels /\ at = [at EXCEPT ![w] = at[w]] /\ Distinct(queue)
      BY DEF BaseTypeOK, TasksInPlace
    <2>2. Push(x, [at EXCEPT ![w] = at[w]]) /\ ~ Occurs(x, queue)
      BY <1>1, <1>4, <2>1 DEF Waiting
    <2> QED BY <1>4, <2>1, <2>2, PushFacts
  <1>7. \A v \in Workers : at'[v] = at[v] \/ (at[v] = "asleep" /\ at'[v] = "pop")
    BY <1>6 DEF Moves
  <1>8. BaseTypeOK'
    BY <1>0, <1>1, <1>6, <1>p DEF BaseTypeOK
  <1>9. \A y : Waiting(y)' <=> (Waiting(y) /\ y # f) \/ y = x
    BY <1>0, <1>6, <1>f DEF Waiting
  <1>10. \A y : OnWorker(y)' <=> (OnWorker(y) /\ y # x) \/ y = f
    <2>1. \A v \in Workers : v # w => Top(v)' = Top(v)
      BY <1>p DEF Top
    <2>2. Top(w)' = f
      <3>1. chain'[w] # <<>>
        <4>1. chain'[w] = c
          BY <1>p
        <4>2. Len(c) \in {1, 2}
          <5>1. Len(c) = Len(chain[w])
            BY <1>c
          <5> QED BY <1>3, <5>1
        <4>3. Len(<<>>) = 0
          OBVIOUS
        <4> QED BY <4>1, <4>2, <4>3
      <3> QED BY <1>p, <1>c, <3>1 DEF Top, Seqs!Last
    <2>3. Top(w) = x
      BY DEF x
    <2>4. \A v \in Workers : Running(v)' <=> Running(v)
      BY <1>7 DEF Running
    <2>5. Running(w)
      BY <1>1 DEF Running
    <2> QED BY <1>4, <2>1, <2>2, <2>3, <2>4, <2>5 DEF OnWorker
  <1>11. TasksInPlace'
    <2>1. \A y \in Carriers : task[y] # x
      BY <1>4 DEF BaseTypeOK
    <2>2. \A y \in Carriers : ~ Occurs(task'[y], queue')
      BY <1>1, <1>6, <2>1 DEF TasksInPlace
    <2>3. \A u \in Tasks : u \in submitted' \ finished' <=>
             Occurs(u, queue') \/ \E y \in Carriers : task'[y] = u
      BY <1>1, <1>4, <1>6 DEF TasksInPlace
    <2>4. \A y \in Carriers : task'[y] # nullptr <=> (y \in Fibers /\ Waiting(y)') \/ OnWorker(y)'
      BY <1>1, <1>2, <1>4, <1>f, <1>9, <1>10 DEF TasksInPlace
    <2> QED BY <1>1, <1>6, <2>2, <2>3, <2>4 DEF TasksInPlace
  <1>12. FibersInPlace'
    <2>1. \A v \in Workers, g \in Fibers :
             Occurs(g, chain'[v]) <=> (Occurs(g, chain[v]) /\ g # x) \/ (v = w /\ g = f)
      <3>1. \A v \in Workers : Occurs(x, chain[v]) => v = w
        BY <1>4 DEF FibersInPlace
      <3> QED BY <1>p, <1>c, <3>1
    <2>2. \A v \in Workers : Distinct(chain'[v])
      BY <1>p, <1>c DEF FibersInPlace
    <2>3. \A v \in Workers, g \in Fibers : Occurs(g, chain'[v]) => ~ Waiting(g)'
      BY <1>9, <1>f, <2>1 DEF FibersInPlace
    <2>4. \A u, v \in Workers, g \in Fibers : Occurs(g, chain'[u]) /\ Occurs(g, chain'[v]) => u = v
      BY <1>f, <2>1 DEF FibersInPlace
    <2>5. \A g \in Fibers : g \in alive' <=> Waiting(g)' \/ \E v \in Workers : Occurs(g, chain'[v])
      BY <1>1, <1>4, <1>f, <1>9, <2>1 DEF FibersInPlace
    <2>6. \A g \in parked' : ~ Occurs(g, queue')
      BY <1>0, <1>4, <1>6 DEF FibersInPlace, Waiting
    <2> QED BY <1>1, <2>2, <2>3, <2>4, <2>5, <2>6 DEF FibersInPlace
  <1>13. \A v \in Workers : LoopInPlace(v)'
    <2> SUFFICES ASSUME NEW v \in Workers PROVE LoopInPlace(v)'
      OBVIOUS
    <2>1. CASE v = w
      BY <1>1, <1>3, <1>7, <1>p, <1>c, <2>1 DEF LoopInPlace
    <2>2. CASE v # w
      BY <1>1, <1>7, <1>p, <2>2, LoopIsKept
    <2> QED BY <2>1, <2>2
  <1>14. PhaseRight'
    BY <1>0, <1>1, <1>7 DEF PhaseRight
  <1> QED BY <1>6, <1>8, <1>11, <1>12, <1>13, <1>14

-----------------------------------------------------------------------------
\* The theorems.

LEMMA StutterIInv == IInv /\ UNCHANGED vars => IInv'
  <1> SUFFICES ASSUME IInv, UNCHANGED vars PROVE IInv'
    OBVIOUS
  <1> USE DEF vars, IInv
  <1>1. BaseTypeOK'
    BY DEF BaseTypeOK
  <1>2. TasksInPlace' /\ FibersInPlace'
    BY PlacesAreKept DEF Running
  <1>3. \A w \in Workers : LoopInPlace(w)'
    BY LoopIsKept
  <1>4. PhaseRight' /\ NobodySleepsBesideWork'
    BY DEF PhaseRight, NobodySleepsBesideWork, Sleepers, Busy
  <1> QED BY <1>1, <1>2, <1>3, <1>4

LEMMA LeaveIInv ==
  ASSUME IInv, NEW w \in Workers, Leave(w)
  PROVE  IInv'
  <1>1. CASE chain[w] = <<>>
    BY <1>1, LeaveInlineIInv
  <1>2. CASE chain[w] # <<>>
    <2>1. Len(chain[w]) > 0
      <3>1. chain[w] \in Seq(Fibers)
        BY DEF IInv, BaseTypeOK
      <3> QED BY <1>2, <3>1, TopFacts
    <2> QED BY <1>2, <2>1, CompleteIInv DEF Leave
  <1> QED BY <1>1, <1>2

LEMMA CheckIInv ==
  ASSUME IInv, NEW w \in Workers, Check(w)
  PROVE  IInv'
  <1>1. CASE GoesOn(w)
    BY <1>1, CheckOnIInv
  <1>2. CASE ~ GoesOn(w)
    <2>1. Len(chain[w]) > 0
      <3>1. Top(w) # w /\ chain[w] \in Seq(Fibers)
        BY <1>2 DEF GoesOn, IInv, BaseTypeOK
      <3> QED BY <3>1, TopFacts
    <2> QED BY <1>2, <2>1, CompleteIInv DEF Check
  <1> QED BY <1>1, <1>2

LEMMA NextIInv == IInv /\ [Next]_vars => IInv'
  <1> SUFFICES ASSUME IInv, [Next]_vars PROVE IInv'
    OBVIOUS
  <1>1. CASE Start \/ Stop \/ Close \/ Join
    BY <1>1, StartIInv, StopIInv, CloseIInv
  <1>2. ASSUME NEW t \in Tasks, Submit(t) PROVE IInv'
    BY <1>2, ClientSubmitsIInv
  <1>3. ASSUME NEW f \in Fibers, Wake(f) PROVE IInv'
    BY <1>3, WakeIInv
  <1>4. ASSUME NEW w \in Workers, Loop(w) PROVE IInv'
    BY <1>4, InvokeIInv, TakeTaskIInv, TakeFiberIInv, SleepIInv, LeaveIInv, CheckIInv DEF Loop
  <1>5. ASSUME NEW w \in Workers, TaskDoes(w) PROVE IInv'
    BY <1>5, TaskSubmitsIInv, YieldIInv, ParkIInv, SwitchToIInv, FinishIInv DEF TaskDoes
  <1>6. ASSUME NEW w \in Workers, WakeForNothing(w) PROVE IInv'
    BY <1>6, SleepIInv
  <1>7. CASE UNCHANGED vars
    BY <1>7, StutterIInv
  <1> QED BY <1>1, <1>2, <1>3, <1>4, <1>5, <1>6, <1>7 DEF Next

LEMMA Invariance == Spec => []IInv
  BY InitIInv, NextIInv, PTL DEF Spec

\* A set with at most one member.
LEMMA OneOrNone ==
  ASSUME NEW S, \A x, y \in S : x = y
  PROVE  Cardinality(S) = IF S = {} THEN 0 ELSE 1
  <1>1. CASE S = {}
    BY <1>1, FS_EmptySet
  <1>2. CASE S # {}
    <2>1. PICK x : S = {x}
      BY <1>2
    <2> QED BY <1>2, <2>1, FS_Singleton
  <1> QED BY <1>1, <1>2

LEMMA QueuedOnce ==
  ASSUME BaseTypeOK, TasksInPlace, NEW x
  PROVE  QueuedTimes(x) = IF Occurs(x, queue) THEN 1 ELSE 0
  <1> DEFINE S == {i \in DOMAIN queue : queue[i] = x}
  <1>1. DOMAIN queue = 1 .. Len(queue)
    BY LenProperties DEF BaseTypeOK
  <1>2. \A i, j \in S : i = j
    BY <1>1 DEF TasksInPlace, Distinct
  <1>3. S = {} <=> ~ Occurs(x, queue)
    BY <1>1 DEF Occurs
  <1> HIDE DEF S
  <1>4. Cardinality(S) = IF S = {} THEN 0 ELSE 1
    BY <1>2, OneOrNone
  <1> QED BY <1>3, <1>4 DEF QueuedTimes, S

\* A chain is no longer than there are fibers.
LEMMA ChainFits ==
  ASSUME IInv, NEW w \in Workers, NEW i \in 1 .. Len(chain[w])
  PROVE  i \in 1 .. Cardinality(Fibers)
  <1>1. chain[w] \in Seq(Fibers) /\ Distinct(chain[w]) /\ Len(chain[w]) \in 0 .. 2
    BY DEF IInv, BaseTypeOK, FibersInPlace, LoopInPlace
  <1>2. Cardinality(Fibers) \in Nat /\ \A S \in SUBSET Fibers : Cardinality(S) <= Cardinality(Fibers)
    BY FS_CardinalityType, FS_Subset
  <1>3. i \in {1, 2} /\ chain[w][i] \in Fibers
    BY <1>1, ElementOfSeq
  <1>4. CASE i = 1
    <2>1. Cardinality({chain[w][i]}) = 1 /\ {chain[w][i]} \in SUBSET Fibers
      BY <1>3, FS_Singleton
    <2>2. 1 <= Cardinality(Fibers)
      BY ONLY <1>2, <2>1
    <2> QED BY <1>2, <1>4, <2>2
  <1>5. CASE i = 2
    <2>1. 1 \in 1 .. Len(chain[w]) /\ 2 \in 1 .. Len(chain[w])
      BY <1>1, <1>5
    <2>2. chain[w][1] \in Fibers /\ chain[w][1] # chain[w][2]
      BY <1>1, <2>1, ElementOfSeq DEF Distinct
    <2>3. IsFiniteSet({chain[w][1]}) /\ Cardinality({chain[w][1]}) = 1
      BY FS_Singleton
    <2>4. Cardinality({chain[w][1]} \union {chain[w][2]}) = 2
      <3> DEFINE A == {chain[w][1]}
      <3>1. chain[w][2] \notin A /\ IsFiniteSet(A) /\ Cardinality(A) = 1
        BY <2>2, <2>3
      <3> HIDE DEF A
      <3>2. Cardinality(A \union {chain[w][2]}) = Cardinality(A) + 1
        BY <3>1, FS_AddElement
      <3>3. Cardinality(A \union {chain[w][2]}) = 2
        BY <3>1, <3>2
      <3> QED BY <3>3 DEF A
    <2>5. {chain[w][1]} \union {chain[w][2]} \in SUBSET Fibers
      BY <1>3, <1>5, <2>2
    <2>6. 2 <= Cardinality(Fibers)
      BY ONLY <1>2, <2>4, <2>5
    <2> QED BY <1>2, <1>5, <2>6
  <1> QED BY <1>3, <1>4, <1>5

\* For any tasks, and any finite sets of workers and fibers: a submitted task is in
\* the queue once, or on one worker or fiber, until it is finished; a fiber that
\* exists is in one chain, once in the queue or parked, through every Yield, switch
\* and migration (ThreadPool.cpp 20-39, FiberInvoker.cpp 8-36, Fiber.cpp 37-70).
THEOREM TasksAndFibersAreInOnePlace == Spec => []EverythingIsInOnePlace
  <1>1. IInv => EverythingIsInOnePlace
    <2> SUFFICES ASSUME IInv PROVE EverythingIsInOnePlace
      OBVIOUS
    <2>0. BaseTypeOK /\ TasksInPlace /\ FibersInPlace /\ TypeOK
      BY Types DEF IInv
    <2>1. ASSUME NEW t \in Tasks
          PROVE  TaskPlaces(t) = IF t \in submitted \ finished THEN 1 ELSE 0
      <3> DEFINE C == {x \in DOMAIN task : task[x] = t}
      <3>1. DOMAIN task = Carriers /\ t # nullptr
        BY <2>0 DEF BaseTypeOK
      <3>2. /\ \A x, y \in C : x = y
            /\ C = {} <=> ~ \E x \in Carriers : task[x] = t
            /\ C # {} => ~ Occurs(t, queue)
        BY <2>0, <3>1 DEF TasksInPlace
      <3> HIDE DEF C
      <3>3. Cardinality(C) = IF C = {} THEN 0 ELSE 1
        BY <3>2, OneOrNone
      <3>4. TaskPlaces(t) = QueuedTimes(t) + Cardinality(C)
        BY DEF TaskPlaces, C
      <3>5. t \in submitted \ finished <=> Occurs(t, queue) \/ C # {}
        BY <2>0, <3>2 DEF TasksInPlace
      <3> QED BY <2>0, <3>2, <3>3, <3>4, <3>5, QueuedOnce
    <2>2. ASSUME NEW f \in Fibers
          PROVE  FiberPlaces(f) = IF f \in alive THEN 1 ELSE 0
      <3> DEFINE C == {c \in Workers \X (1 .. Cardinality(Fibers)) :
                         c[2] \in DOMAIN chain[c[1]] /\ chain[c[1]][c[2]] = f}
                 P == {f} \intersect parked
      <3>1. \A w \in Workers : DOMAIN chain[w] = 1 .. Len(chain[w])
        BY <2>0, LenProperties DEF BaseTypeOK
      <3>2. \A c, d \in C : c = d
        <4> SUFFICES ASSUME NEW c \in C, NEW d \in C PROVE c = d
          OBVIOUS
        <4>1. /\ c[1] \in Workers /\ c[2] \in 1 .. Len(chain[c[1]]) /\ chain[c[1]][c[2]] = f
              /\ d[1] \in Workers /\ d[2] \in 1 .. Len(chain[d[1]]) /\ chain[d[1]][d[2]] = f
              /\ c = <<c[1], c[2]>> /\ d = <<d[1], d[2]>>
          BY <3>1
        <4>2. c[1] = d[1]
          BY <2>0, <4>1 DEF FibersInPlace, Occurs
        <4>3. c[2] = d[2]
          BY <2>0, <4>1, <4>2 DEF FibersInPlace, Distinct
        <4> QED BY <4>1, <4>2, <4>3
      <3>3. C # {} <=> \E w \in Workers : Occurs(f, chain[w])
        <4>1. ASSUME NEW c \in C PROVE \E w \in Workers : Occurs(f, chain[w])
          BY <3>1 DEF Occurs
        <4>2. ASSUME NEW w \in Workers, NEW i \in 1 .. Len(chain[w]), chain[w][i] = f
              PROVE  <<w, i>> \in C
          <5>1. i \in 1 .. Cardinality(Fibers)
            BY ChainFits
          <5> QED BY <3>1, <4>2, <5>1
        <4> HIDE DEF C
        <4> QED BY <4>1, <4>2 DEF Occurs
      <3>4. (\A x, y \in P : x = y) /\ (P # {} <=> f \in parked)
        OBVIOUS
      <3> HIDE DEF C, P
      <3>5. Cardinality(C) = (IF C = {} THEN 0 ELSE 1) /\ Cardinality(P) = (IF P = {} THEN 0 ELSE 1)
        BY <3>2, <3>4, OneOrNone
      <3>6. FiberPlaces(f) = QueuedTimes(f) + Cardinality(P) + Cardinality(C)
        BY DEF FiberPlaces, C, P
      <3>7. /\ f \in parked => ~ Occurs(f, queue)
            /\ C # {} => ~ Occurs(f, queue) /\ f \notin parked
            /\ f \in alive <=> Occurs(f, queue) \/ f \in parked \/ C # {}
        BY <2>0, <3>3 DEF FibersInPlace, Waiting
      <3>8. QueuedTimes(f) = IF Occurs(f, queue) THEN 1 ELSE 0
        BY <2>0, QueuedOnce
      <3> QED BY <3>4, <3>5, <3>6, <3>7, <3>8
    <2> QED BY <2>0, <2>1, <2>2 DEF EverythingIsInOnePlace
  <1> QED BY <1>1, Invariance, PTL

\* For any workers and tasks: one notification for each Push is enough, whoever
\* gets it (IntrusiveUnboundedBlockingQueue.hpp 12-28).
THEOREM WorkIsNotSleptBeside == Spec => []NobodySleepsBesideWork
  <1>1. IInv => NobodySleepsBesideWork
    BY DEF IInv
  <1> QED BY <1>1, Invariance, PTL

\* For any workers, tasks and fibers, stale invokers and addresses used again
\* included, no fiber runs deeper than in the fiber of an invoker, and only that one
\* takes from the queue (FiberInvoker.cpp 8-36).
THEOREM FibersDoNotPileUp == Spec => []NestingIsShallow
  <1>1. IInv => NestingIsShallow
    <2> SUFFICES ASSUME IInv, NEW w \in Workers
                 PROVE  /\ Len(chain[w]) <= 2
                        /\ onFibers /\ at[w] \in {"pop", "asleep"} => chain[w] = <<invoker[w]>>
      BY DEF NestingIsShallow
    <2>1. chain[w] \in Seq(Fibers) /\ Len(chain[w]) \in 0 .. 2
      BY DEF IInv, BaseTypeOK, LoopInPlace
    <2>2. ASSUME Len(chain[w]) = 1, chain[w][1] = invoker[w] PROVE chain[w] = <<invoker[w]>>
      <3>1. 1 \in 1 .. Len(chain[w])
        BY <2>2
      <3>2. invoker[w] \in Fibers
        BY <2>1, <2>2, <3>1, ElementOfSeq
      <3>3. <<invoker[w]>> \in Seq(Fibers) /\ Len(<<invoker[w]>>) = 1 /\ <<invoker[w]>>[1] = invoker[w]
        BY <3>2
      <3>4. \A i \in 1 .. Len(chain[w]) : chain[w][i] = <<invoker[w]>>[i]
        BY <2>2, <3>3
      <3> QED BY <2>1, <2>2, <3>3, <3>4, SeqEqual
    <2>3. onFibers /\ at[w] \in {"pop", "asleep"} => Len(chain[w]) = 1 /\ chain[w][1] = invoker[w]
      BY DEF IInv, LoopInPlace
    <2>4. Len(chain[w]) <= 2
      <3>1. Len(chain[w]) \in 0 .. 2
        BY <2>1
      <3>2. \A n \in 0 .. 2 : n <= 2
        OBVIOUS
      <3> QED BY ONLY <3>1, <3>2
    <2> QED BY <2>2, <2>3, <2>4
  <1> QED BY <1>1, Invariance, PTL

\* For any workers, tasks and fibers: when Stop returns, every task has run and no
\* fiber is left, although workers leave as soon as they find the closed queue
\* empty (ThreadPool.cpp 33-39, IntrusiveUnboundedBlockingQueue.hpp 20-34).
THEOREM StopLeavesNothing == Spec => [](phase = "joined" => Drains)
  <1>1. IInv => (phase = "joined" => Drains)
    <2> SUFFICES ASSUME IInv, phase = "joined" PROVE Drains
      OBVIOUS
    <2>1. /\ \A w \in Workers : at[w] = "gone"
          /\ queue = <<>> /\ parked = {}
      BY DEF IInv, PhaseRight
    <2>2. Len(<<>>) = 0 /\ 1 .. 0 = {}
      OBVIOUS
    <2>3. \A x : ~ Occurs(x, queue) /\ ~ Waiting(x) /\ ~ OnWorker(x)
      BY <2>1, <2>2 DEF Occurs, Waiting, OnWorker, Running
    <2>4. \A x \in Carriers : task[x] = nullptr
      BY <2>3 DEF IInv, TasksInPlace
    <2>5. submitted = finished
      <3>1. finished \subseteq submitted /\ submitted \subseteq Tasks /\ \A t \in Tasks : t # nullptr
        BY DEF IInv, BaseTypeOK
      <3>2. \A t \in Tasks : t \notin submitted \ finished
        BY <2>3, <2>4, <3>1 DEF IInv, TasksInPlace
      <3> QED BY <3>1, <3>2
    <2>6. \A w \in Workers : Len(chain[w]) = 0
      BY <2>1 DEF IInv, LoopInPlace
    <2>7. \A w \in Workers, f \in Fibers : ~ Occurs(f, chain[w])
      BY <2>2, <2>6 DEF Occurs
    <2>8. alive = {}
      BY <2>3, <2>7 DEF IInv, FibersInPlace, BaseTypeOK
    <2> QED BY <2>1, <2>5, <2>8 DEF Drains
  <1> QED BY <1>1, Invariance, PTL

=============================================================================
