------------------------- MODULE LockFreeStackProofs ------------------------
(***************************************************************************)
(* Proofs about the atomic shared pointer under any client, the stack      *)
(* included, for any finite sets of threads and addresses and any width    *)
(* of the stamp that holds a reference of every thread beyond its half.    *)
(*                                                                         *)
(* The invariant balances the counts of every object.  `Strong` counts the *)
(* register and the calls that have prepared the object for it, or took it *)
(* out and have yet to charge it.  `Basic`, with the stamp in the register *)
(* and the stamps that were taken out of it, counts the SharedPtrs; it     *)
(* counts too many only where a flush has charged a stamp of another       *)
(* object.                                                                 *)
(*                                                                         *)
(* The second part is about the stack: `Contains` says that a sequence of  *)
(* nodes is what the pointers lead to from top_, `Hidden` that a node is   *)
(* known to its pusher only until the push has won, and `InItsCall` what   *)
(* each call of the register is for.                                       *)
(***************************************************************************)
EXTENDS LockFreeStack, FiniteSetTheorems, TLAPS, WellFoundedInduction

\* The argument is prepared for the register.
Prepared(t) == \/ pc[t] \in {"exchange", "compare", "cancel"}
               \/ op[t] = "Cas" /\ pc[t] \in {"load", "bump", "raise", "flush", "settle", "assign"}

\* The stamp of `current` is to be charged to the object that it belongs to.
Owes(t) == pc[t] = "charge" \/ (pc[t] = "settle" /\ current[t].raw = res[t])

\* Numbers of threads, as units.
Units(d) == {u \in Threads \X (1 .. kMaxStamp) : u[2] <= d[u[1]]}

\* How many of D the function f maps to o.
HowMany(f, D, o) == Cardinality({x \in D : f[x] = o})
One(b) == IF b THEN 1 ELSE 0

\* What a thread has of an object: SharedPtrs, strong counts, stamps to charge.
HandlesOf(t, o) == One(held[t] = o) + One(own[t] = o) + One(arg[t] = o) + One(res[t] = o)
StrongOf(t, o)  == One(Prepared(t) /\ arg[t] = o) + One(pc[t] = "charge" /\ current[t].raw = o)
                      + One(pc[t] \in {"flush", "settle"} /\ res[t] = o)
DebtOf(t, o)    == IF Owes(t) /\ current[t].raw = o THEN current[t].stamp ELSE 0

\* What they all have of it.
Handles(o) == HowMany(held, Threads, o) + HowMany(own, Threads, o) + HowMany(arg, Threads, o)
                 + HowMany(res, Threads, o)
Members(o) == HowMany(dying, Threads, o) + HowMany(next, Objects, o)
Strongs(o) == Cardinality({t \in Threads : Prepared(t) /\ arg[t] = o})
                 + Cardinality({t \in Threads : pc[t] = "charge" /\ current[t].raw = o})
                 + Cardinality({t \in Threads : pc[t] \in {"flush", "settle"} /\ res[t] = o})
Debts(o)   == Cardinality(Units([t \in Threads |-> DebtOf(t, o)]))

InRegister(o) == IF ptr.raw = o THEN ptr.stamp ELSE 0

Balanced(o) ==
    /\ count[o].strong = Strongs(o) + One(ptr.raw = o)
    /\ count[o].basic + InRegister(o) + Debts(o) >= Handles(o) + Members(o)
    /\ o \notin overtaken => count[o].basic + InRegister(o) + Debts(o) = Handles(o) + Members(o)
    /\ o \in alive <=> count[o] # [strong |-> 0, basic |-> 0]
    /\ o \notin alive => next[o] = nullptr

LocalInPlace(t) ==
    /\ pc[t] \in {"raise", "flush", "settle"} => res[t] # nullptr
    /\ pc[t] \notin {"raise", "flush", "settle", "assign"} => res[t] = nullptr
    /\ pc[t] = "bump" => current[t].raw # nullptr
    /\ pc[t] = "flush" => current[t].raw = res[t]
    /\ pc[t] = "acquire" => held[t] = nullptr
    /\ op[t] = "none"  => pc[t] \in {"idle", "acquire"} /\ arg[t] = nullptr
    /\ op[t] = "Load"  => pc[t] \in {"load", "bump", "raise", "flush", "settle", "assign", "drop"}
    /\ op[t] = "Store" => pc[t] \in {"strong", "exchange", "charge", "drop"}
    /\ op[t] = "Cas"   => pc[t] \in {"peek", "strong", "compare", "charge", "load", "bump", "raise",
                                     "flush", "settle", "assign", "cancel", "drop"}

Pushes(t) == job[t] = "push"

JobsInPlace ==
    /\ job \in [Threads -> {"none", "push", "pop", "take", "again"}]
    /\ client = "any" => \A t \in Threads : ~ Pushes(t)
    /\ client = "stack" => \A t \in Threads : ~ Pushes(t) => own[t] = nullptr
    /\ \A t \in Threads : Pushes(t) =>
          /\ own[t] # nullptr /\ next[own[t]] = nullptr
          /\ \A u \in Threads : Pushes(u) /\ own[u] = own[t] => u = t

RegisterIInv == /\ TypeOK /\ StampFits
                /\ \A t \in Threads : LocalInPlace(t)
                /\ \A o \in Objects : Balanced(o)
IInv == RegisterIInv /\ JobsInPlace

-----------------------------------------------------------------------------
\* Counting.

\* Sets that differ at one place at most.
LEMMA CountShift ==
  ASSUME NEW D, IsFiniteSet(D), NEW x \in D, NEW A \in SUBSET D, NEW B \in SUBSET D,
         \A y \in D : y # x => (y \in A <=> y \in B)
  PROVE  /\ IsFiniteSet(A) /\ Cardinality(A) \in Nat /\ Cardinality(B) \in Nat
         /\ Cardinality(B) = Cardinality(A) - One(x \in A) + One(x \in B)
  <1>1. IsFiniteSet(A) /\ Cardinality(A) \in Nat /\ IsFiniteSet(B) /\ Cardinality(B) \in Nat
    BY FS_Subset, FS_CardinalityType
  <1>2. CASE x \in A <=> x \in B
    <2>1. A = B
      BY <1>2
    <2> QED BY <1>1, <1>2, <2>1 DEF One
  <1>3. CASE x \in A /\ x \notin B
    <2>1. B = A \ {x}
      BY <1>3
    <2> QED BY <1>1, <1>3, <2>1, FS_RemoveElement DEF One
  <1>4. CASE x \notin A /\ x \in B
    <2>1. B = A \union {x}
      BY <1>4
    <2> QED BY <1>1, <1>4, <2>1, FS_AddElement DEF One
  <1> QED BY <1>1, <1>2, <1>3, <1>4

\* Functions that differ at one place at most.
LEMMA HowManyShift ==
  ASSUME NEW D, IsFiniteSet(D), NEW x \in D, NEW f, NEW g, NEW o,
         \A y \in D : y # x => f[y] = g[y]
  PROVE  /\ HowMany(f, D, o) \in Nat /\ HowMany(g, D, o) \in Nat
         /\ HowMany(g, D, o) = HowMany(f, D, o) - One(f[x] = o) + One(g[x] = o)
  <1> DEFINE A == {y \in D : f[y] = o}
             B == {y \in D : g[y] = o}
  <1>1. A \in SUBSET D /\ B \in SUBSET D /\ \A y \in D : y # x => (y \in A <=> y \in B)
    OBVIOUS
  <1>2. (x \in A <=> f[x] = o) /\ (x \in B <=> g[x] = o)
    OBVIOUS
  <1> HIDE DEF A, B
  <1>3. /\ Cardinality(A) \in Nat /\ Cardinality(B) \in Nat
        /\ Cardinality(B) = Cardinality(A) - One(x \in A) + One(x \in B)
    BY <1>1, CountShift
  <1>4. HowMany(f, D, o) = Cardinality(A) /\ HowMany(g, D, o) = Cardinality(B)
    BY DEF HowMany, A, B
  <1> QED BY <1>2, <1>3, <1>4 DEF One

\* Whoever is counted once makes the count positive.
LEMMA HowManyZero ==
  ASSUME NEW D, IsFiniteSet(D), NEW f, NEW o
  PROVE  /\ HowMany(f, D, o) \in Nat
         /\ HowMany(f, D, o) = 0 <=> \A x \in D : f[x] # o
  <1>1. IsFiniteSet({x \in D : f[x] = o})
    BY FS_Subset
  <1> QED BY <1>1, FS_CardinalityType, FS_EmptySet DEF HowMany

\* Numbers that differ for one thread at most.
LEMMA UnitsShift ==
  ASSUME NEW d \in [Threads -> 0 .. kMaxStamp], NEW e \in [Threads -> 0 .. kMaxStamp], NEW t \in Threads,
         \A u \in Threads : u # t => e[u] = d[u]
  PROVE  /\ Cardinality(Units(d)) \in Nat /\ Cardinality(Units(e)) \in Nat
         /\ Cardinality(Units(e)) = Cardinality(Units(d)) - d[t] + e[t]
  <1>0. kMaxStamp \in Nat
    BY SharedPtrAssumption
  <1> DEFINE Rest   == {u \in Threads \X (1 .. kMaxStamp) : u[1] # t /\ u[2] <= d[u[1]]}
             Mine(n) == {t} \X (1 .. n)
  <1>1. IsFiniteSet(Threads \X (1 .. kMaxStamp))
    <2>1. IsFiniteSet(1 .. kMaxStamp)
      BY <1>0, FS_Interval
    <2> QED BY ONLY <2>1, SharedPtrAssumption, FS_Product
  <1>2. IsFiniteSet(Rest) /\ Cardinality(Rest) \in Nat
    BY <1>1, FS_Subset, FS_CardinalityType
  <1>3. \A n \in 0 .. kMaxStamp : IsFiniteSet(Mine(n)) /\ Cardinality(Mine(n)) = n
    <2> TAKE n \in 0 .. kMaxStamp
    <2>1. IsFiniteSet(1 .. n) /\ Cardinality(1 .. n) = n
      <3>1. n \in Int /\ n >= 0
        BY <1>0
      <3> QED BY ONLY <3>1, FS_Interval
    <2>2. IsFiniteSet({t}) /\ Cardinality({t}) = 1
      BY FS_Singleton
    <2>3. IsFiniteSet(Mine(n)) /\ Cardinality(Mine(n)) = Cardinality({t}) * Cardinality(1 .. n)
      BY ONLY <2>1, <2>2, FS_Product
    <2> QED BY <2>1, <2>2, <2>3
  <1>4. \A n \in 0 .. kMaxStamp : Cardinality(Rest \union Mine(n)) = Cardinality(Rest) + n
    <2> TAKE n \in 0 .. kMaxStamp
    <2>1. Rest \intersect Mine(n) = {}
      OBVIOUS
    <2>2. Cardinality(Rest \intersect Mine(n)) = 0
      BY <2>1, FS_EmptySet
    <2>3. Cardinality(Rest \union Mine(n))
            = Cardinality(Rest) + Cardinality(Mine(n)) - Cardinality(Rest \intersect Mine(n))
      BY <1>2, <1>3, FS_Union
    <2> HIDE DEF Rest, Mine
    <2> QED BY <1>0, <1>2, <1>3, <2>2, <2>3
  <1>5. Units(d) = Rest \union Mine(d[t])
    BY <1>0 DEF Units
  <1>6. Units(e) = Rest \union Mine(e[t])
    BY <1>0 DEF Units
  <1>7. d[t] \in 0 .. kMaxStamp /\ e[t] \in 0 .. kMaxStamp
    OBVIOUS
  <1> HIDE DEF Rest, Mine
  <1> QED BY <1>0, <1>2, <1>4, <1>5, <1>6, <1>7

-----------------------------------------------------------------------------
\* What a step of one thread does to the sums.

\* Nobody but t moves.
Frame(t) ==
    \A u \in Threads : u # t =>
        /\ held'[u] = held[u] /\ own'[u] = own[u] /\ arg'[u] = arg[u] /\ res'[u] = res[u]
        /\ op'[u] = op[u] /\ pc'[u] = pc[u] /\ current'[u] = current[u]

\* The SharedPtrs of an object change by those of t.
LEMMA HandlesShift ==
  ASSUME NEW t \in Threads, Frame(t), NEW o \in Objects
  PROVE  /\ Handles(o) \in Nat /\ Handles(o)' \in Nat
         /\ Handles(o)' = Handles(o) - HandlesOf(t, o) + HandlesOf(t, o)'
  <1>1. IsFiniteSet(Threads)
    BY SharedPtrAssumption
  <1>2. /\ HowMany(held, Threads, o) \in Nat /\ HowMany(held', Threads, o) \in Nat
        /\ HowMany(held', Threads, o) = HowMany(held, Threads, o) - One(held[t] = o) + One(held'[t] = o)
    BY <1>1, HowManyShift DEF Frame
  <1>3. /\ HowMany(own, Threads, o) \in Nat /\ HowMany(own', Threads, o) \in Nat
        /\ HowMany(own', Threads, o) = HowMany(own, Threads, o) - One(own[t] = o) + One(own'[t] = o)
    BY <1>1, HowManyShift DEF Frame
  <1>4. /\ HowMany(arg, Threads, o) \in Nat /\ HowMany(arg', Threads, o) \in Nat
        /\ HowMany(arg', Threads, o) = HowMany(arg, Threads, o) - One(arg[t] = o) + One(arg'[t] = o)
    BY <1>1, HowManyShift DEF Frame
  <1>5. /\ HowMany(res, Threads, o) \in Nat /\ HowMany(res', Threads, o) \in Nat
        /\ HowMany(res', Threads, o) = HowMany(res, Threads, o) - One(res[t] = o) + One(res'[t] = o)
    BY <1>1, HowManyShift DEF Frame
  <1>6. Handles(o)' = HowMany(held', Threads, o) + HowMany(own', Threads, o) + HowMany(arg', Threads, o)
                        + HowMany(res', Threads, o)
    BY DEF Handles, HowMany
  <1>7. HandlesOf(t, o)' = One(held'[t] = o) + One(own'[t] = o) + One(arg'[t] = o) + One(res'[t] = o)
    BY DEF HandlesOf, One
  <1>8. Handles(o) = HowMany(held, Threads, o) + HowMany(own, Threads, o) + HowMany(arg, Threads, o)
                       + HowMany(res, Threads, o)
    BY DEF Handles
  <1>9. HandlesOf(t, o) = One(held[t] = o) + One(own[t] = o) + One(arg[t] = o) + One(res[t] = o)
    BY DEF HandlesOf
  <1> QED BY <1>2, <1>3, <1>4, <1>5, <1>6, <1>7, <1>8, <1>9 DEF One

\* So do its strong counts.
LEMMA StrongsShift ==
  ASSUME NEW t \in Threads, Frame(t), NEW o \in Objects
  PROVE  /\ Strongs(o) \in Nat /\ Strongs(o)' \in Nat
         /\ Strongs(o)' = Strongs(o) - StrongOf(t, o) + StrongOf(t, o)'
  <1>1. IsFiniteSet(Threads)
    BY SharedPtrAssumption
  <1> DEFINE A == {u \in Threads : Prepared(u) /\ arg[u] = o}
             B == {u \in Threads : pc[u] = "charge" /\ current[u].raw = o}
             C == {u \in Threads : pc[u] \in {"flush", "settle"} /\ res[u] = o}
             F == {u \in Threads : Prepared(u)' /\ arg'[u] = o}
             G == {u \in Threads : pc'[u] = "charge" /\ current'[u].raw = o}
             H == {u \in Threads : pc'[u] \in {"flush", "settle"} /\ res'[u] = o}
  <1>2. \A u \in Threads : u # t => (Prepared(u)' <=> Prepared(u))
    BY DEF Frame, Prepared
  <1>3. /\ Cardinality(A) \in Nat /\ Cardinality(F) \in Nat
        /\ Cardinality(F) = Cardinality(A) - One(t \in A) + One(t \in F)
    <2>1. A \in SUBSET Threads /\ F \in SUBSET Threads
      OBVIOUS
    <2>2. \A u \in Threads : u # t => (u \in A <=> u \in F)
      BY <1>2 DEF Frame
    <2> HIDE DEF A, F
    <2> QED BY <1>1, <2>1, <2>2, CountShift
  <1>4. /\ Cardinality(B) \in Nat /\ Cardinality(G) \in Nat
        /\ Cardinality(G) = Cardinality(B) - One(t \in B) + One(t \in G)
    <2>1. B \in SUBSET Threads /\ G \in SUBSET Threads
      OBVIOUS
    <2>2. \A u \in Threads : u # t => (u \in B <=> u \in G)
      BY DEF Frame
    <2> HIDE DEF B, G
    <2> QED BY <1>1, <2>1, <2>2, CountShift
  <1>5. /\ Cardinality(C) \in Nat /\ Cardinality(H) \in Nat
        /\ Cardinality(H) = Cardinality(C) - One(t \in C) + One(t \in H)
    <2>1. C \in SUBSET Threads /\ H \in SUBSET Threads
      OBVIOUS
    <2>2. \A u \in Threads : u # t => (u \in C <=> u \in H)
      BY DEF Frame
    <2> HIDE DEF C, H
    <2> QED BY <1>1, <2>1, <2>2, CountShift
  <1>6. Strongs(o) = Cardinality(A) + Cardinality(B) + Cardinality(C)
    BY DEF Strongs
  <1>7. Strongs(o)' = Cardinality(F) + Cardinality(G) + Cardinality(H)
    BY DEF Strongs
  <1>8. StrongOf(t, o) = One(t \in A) + One(t \in B) + One(t \in C)
    BY DEF StrongOf, One
  <1>9. StrongOf(t, o)' = One(t \in F) + One(t \in G) + One(t \in H)
    BY DEF StrongOf, One
  <1> HIDE DEF A, B, C, F, G, H
  <1> QED BY <1>3, <1>4, <1>5, <1>6, <1>7, <1>8, <1>9 DEF One

\* So do the stamps that it is owed.
LEMMA DebtsShift ==
  ASSUME TypeOK, TypeOK', NEW t \in Threads, Frame(t), NEW o \in Objects
  PROVE  /\ Debts(o) \in Nat /\ Debts(o)' \in Nat
         /\ DebtOf(t, o) \in 0 .. kMaxStamp /\ DebtOf(t, o)' \in 0 .. kMaxStamp
         /\ Debts(o)' = Debts(o) - DebtOf(t, o) + DebtOf(t, o)'
  <1>1. kMaxStamp \in Nat
    BY SharedPtrAssumption
  <1>2. \A u \in Threads : DebtOf(u, o) \in 0 .. kMaxStamp
    BY <1>1 DEF DebtOf, TypeOK, Stamped
  <1>3. \A u \in Threads : DebtOf(u, o)' \in 0 .. kMaxStamp
    BY <1>1 DEF DebtOf, TypeOK, Stamped
  <1>4. \A u \in Threads : u # t => DebtOf(u, o)' = DebtOf(u, o)
    BY DEF DebtOf, Owes, Frame
  <1> DEFINE d == [u \in Threads |-> DebtOf(u, o)]
             e == [u \in Threads |-> DebtOf(u, o)']
  <1>5. /\ d \in [Threads -> 0 .. kMaxStamp] /\ d[t] = DebtOf(t, o)
        /\ e \in [Threads -> 0 .. kMaxStamp] /\ e[t] = DebtOf(t, o)'
        /\ \A u \in Threads : u # t => e[u] = d[u]
    BY <1>2, <1>3, <1>4
  <1>6. Debts(o) = Cardinality(Units(d)) /\ Debts(o)' = Cardinality(Units(e))
    BY DEF Debts, Units
  <1> HIDE DEF d, e
  <1> QED BY <1>2, <1>3, <1>5, <1>6, UnitsShift

-----------------------------------------------------------------------------
\* What keeps an object balanced.

Zero == [strong |-> 0, basic |-> 0]

\* The strong count follows what t and the register have of the object.
StrongKept(t, o, s) == StrongOf(t, o)' + One(ptr'.raw = o) = StrongOf(t, o) + One(ptr.raw = o) + s

\* The basic count and the stamps follow the SharedPtrs, of which k are taken
\* over from members; an overtaken object may have too much.
BasicKept(t, o, b, k) ==
    LET paid == b + InRegister(o)' + DebtOf(t, o)' + HandlesOf(t, o) + k
        used == InRegister(o) + DebtOf(t, o) + HandlesOf(t, o)'
    IN  paid >= used /\ (o \notin overtaken' => paid = used)

\* A call ModifyState(t, p, s, b) keeps the balance of every object.
Modifies(t, p, s, b) ==
    \A o \in Objects : StrongKept(t, o, IF o = p THEN s ELSE 0) /\ BasicKept(t, o, IF o = p THEN b ELSE 0, 0)

\* Whatever is kept for t is kept for the sums.
LEMMA BalanceOne ==
  ASSUME TypeOK, TypeOK', NEW t \in Threads, Frame(t), NEW o \in Objects, Balanced(o),
         NEW s \in Int, NEW b \in Int, NEW k \in Int,
         count'[o] = [strong |-> count[o].strong + s, basic |-> count[o].basic + b],
         Members(o) \in Int, Members(o)' = Members(o) - k,
         o \in alive' <=> count'[o] # Zero, o \notin alive' => next'[o] = nullptr,
         overtaken \subseteq overtaken', StrongKept(t, o, s), BasicKept(t, o, b, k)
  PROVE  Balanced(o)'
  <1>1. /\ Handles(o) \in Nat /\ Handles(o)' \in Nat
        /\ Handles(o)' = Handles(o) - HandlesOf(t, o) + HandlesOf(t, o)'
    BY HandlesShift
  <1>2. /\ Strongs(o) \in Nat /\ Strongs(o)' \in Nat
        /\ Strongs(o)' = Strongs(o) - StrongOf(t, o) + StrongOf(t, o)'
    BY StrongsShift
  <1>3. /\ Debts(o) \in Nat /\ Debts(o)' \in Nat
        /\ DebtOf(t, o) \in 0 .. kMaxStamp /\ DebtOf(t, o)' \in 0 .. kMaxStamp
        /\ Debts(o)' = Debts(o) - DebtOf(t, o) + DebtOf(t, o)'
    BY DebtsShift
  <1>4. /\ count[o].strong \in Int /\ count[o].basic \in Int
        /\ count'[o].strong = count[o].strong + s /\ count'[o].basic = count[o].basic + b
    BY DEF TypeOK
  <1>5. kMaxStamp \in Nat
    BY SharedPtrAssumption
  <1>6. InRegister(o) \in Int /\ InRegister(o)' \in Int
    BY <1>5 DEF InRegister, TypeOK, Stamped
  <1>7. /\ StrongOf(t, o) \in Int /\ StrongOf(t, o)' \in Int
        /\ HandlesOf(t, o) \in Int /\ HandlesOf(t, o)' \in Int
    BY DEF StrongOf, HandlesOf, One
  <1>8. One(ptr.raw = o) \in Int /\ One(ptr'.raw = o) \in Int
    BY DEF One
  <1>9. count'[o].strong = Strongs(o)' + One(ptr'.raw = o)
    <2>1. count[o].strong = Strongs(o) + One(ptr.raw = o)
      BY DEF Balanced
    <2> QED BY <1>2, <1>4, <1>7, <1>8, <2>1 DEF StrongKept
  <1> DEFINE paid == b + InRegister(o)' + DebtOf(t, o)' + HandlesOf(t, o) + k
             used == InRegister(o) + DebtOf(t, o) + HandlesOf(t, o)'
             now  == count'[o].basic + InRegister(o)' + Debts(o)'
             then == count[o].basic + InRegister(o) + Debts(o)
  <1>11. paid \in Int /\ used \in Int /\ paid >= used /\ (o \notin overtaken' => paid = used)
    BY <1>3, <1>5, <1>6, <1>7 DEF BasicKept
  <1>12. then >= Handles(o) + Members(o) /\ (o \notin overtaken => then = Handles(o) + Members(o))
    BY DEF Balanced
  <1>13. /\ now \in Int /\ then \in Int
         /\ now - (Handles(o)' + Members(o)') = then - (Handles(o) + Members(o)) + (paid - used)
    BY <1>1, <1>3, <1>4, <1>5, <1>6, <1>7
  <1>14. now >= Handles(o)' + Members(o)' /\ (o \notin overtaken' => now = Handles(o)' + Members(o)')
    <2>1. Handles(o) + Members(o) \in Int /\ Handles(o)' + Members(o)' \in Int
      BY <1>1
    <2>2. o \notin overtaken' => o \notin overtaken
      OBVIOUS
    <2> HIDE DEF paid, used, now, then
    <2> QED BY ONLY <1>11, <1>12, <1>13, <2>1, <2>2
  <1>15. One(ptr.raw = o)' = One(ptr'.raw = o)
    BY DEF One
  <1> QED BY <1>9, <1>14, <1>15 DEF Balanced, Zero

\* A step that leaves the counts alone.
LEMMA HeapStays ==
  ASSUME TypeOK, TypeOK', \A o \in Objects : Balanced(o), NEW t \in Threads, Frame(t),
         UNCHANGED heap, overtaken \subseteq overtaken',
         \A o \in Objects : StrongKept(t, o, 0) /\ BasicKept(t, o, 0, 0)
  PROVE  \A o \in Objects : Balanced(o)'
  <1> SUFFICES ASSUME NEW o \in Objects PROVE Balanced(o)'
    OBVIOUS
  <1>1. count' = count /\ alive' = alive /\ next' = next /\ dying' = dying
    BY DEF heap
  <1>2. count'[o] = [strong |-> count[o].strong + 0, basic |-> count[o].basic + 0]
    BY <1>1 DEF TypeOK
  <1>3. Members(o) \in Int /\ Members(o)' = Members(o) - 0
    <2>1. HowMany(dying, Threads, o) \in Nat /\ HowMany(next, Objects, o) \in Nat
      BY HowManyZero, SharedPtrAssumption
    <2>2. Members(o) = HowMany(dying, Threads, o) + HowMany(next, Objects, o)
      BY DEF Members
    <2>3. Members(o)' = HowMany(dying, Threads, o) + HowMany(next, Objects, o)
      BY <1>1 DEF Members, HowMany
    <2> QED BY <2>1, <2>2, <2>3
  <1>4. (o \in alive' <=> count'[o] # Zero) /\ (o \notin alive' => next'[o] = nullptr)
    BY <1>1 DEF Balanced, Zero
  <1> QED BY <1>2, <1>3, <1>4, BalanceOne

\* What ModifyState does, place by place.
LEMMA ModifyFacts ==
  ASSUME TypeOK, NEW t \in Threads, NEW p \in Objects, NEW s \in Int, NEW b \in Int,
         NEW m \in [Objects -> Pointers], ModifyStateOf(t, p, s, b, m)
  PROVE  /\ count' \in [Objects -> [strong : Int, basic : Int]]
         /\ count'[p] = [strong |-> count[p].strong + s, basic |-> count[p].basic + b]
         /\ \A o \in Objects : o # p => count'[o] = count[o] /\ next'[o] = m[o]
         /\ alive' = IF count'[p] = Zero THEN alive \ {p} ELSE alive
         /\ dying' \in [Threads -> Pointers] /\ next' \in [Objects -> Pointers]
         /\ \A u \in Threads : u # t => dying'[u] = dying[u]
         /\ IF count'[p] = Zero THEN dying'[t] = m[p] /\ next'[p] = nullptr
                                ELSE dying'[t] = nullptr /\ next'[p] = m[p]
  <1>1. count' = [count EXCEPT ![p] = [strong |-> @.strong + s, basic |-> @.basic + b]]
    BY DEF ModifyStateOf
  <1>2. count \in [Objects -> [strong : Int, basic : Int]] /\ dying \in [Threads -> Pointers]
    BY DEF TypeOK
  <1>3. count'[p] = [strong |-> count[p].strong + s, basic |-> count[p].basic + b]
    BY <1>1, <1>2
  <1>4. count' \in [Objects -> [strong : Int, basic : Int]] /\ \A o \in Objects : o # p => count'[o] = count[o]
    BY <1>1, <1>2
  <1>5. nullptr \in Pointers /\ m[p] \in Pointers
    BY DEF Pointers
  <1>6. CASE count'[p] = Zero
    <2>1. alive' = alive \ {p} /\ dying' = [dying EXCEPT ![t] = m[p]] /\ next' = [m EXCEPT ![p] = nullptr]
      BY <1>6 DEF ModifyStateOf, Zero
    <2> QED BY <1>2, <1>3, <1>4, <1>5, <1>6, <2>1
  <1>7. CASE count'[p] # Zero
    <2>1. alive' = alive /\ dying' = [dying EXCEPT ![t] = nullptr] /\ next' = m
      BY <1>7 DEF ModifyStateOf, Zero
    <2> QED BY <1>2, <1>3, <1>4, <1>5, <1>7, <2>1
  <1> QED BY <1>6, <1>7

\* A step that modifies the counts of p, whose member becomes m[p].
LEMMA ModifyKeeps ==
  ASSUME TypeOK, TypeOK', \A o \in Objects : Balanced(o), NEW t \in Threads, Frame(t),
         NEW p \in Objects, p \in alive, NEW s \in Int, NEW b \in Int,
         NEW m \in [Objects -> Pointers], \A o \in Objects : o # p => m[o] = next[o],
         ModifyStateOf(t, p, s, b, m), overtaken \subseteq overtaken',
         \A o \in Objects : /\ StrongKept(t, o, IF o = p THEN s ELSE 0)
                            /\ BasicKept(t, o, IF o = p THEN b ELSE 0,
                                         One(dying[t] = o) + One(next[p] = o) - One(m[p] = o))
  PROVE  \A o \in Objects : Balanced(o)'
  <1> SUFFICES ASSUME NEW o \in Objects PROVE Balanced(o)'
    OBVIOUS
  <1>f. /\ count' \in [Objects -> [strong : Int, basic : Int]]
        /\ count'[p] = [strong |-> count[p].strong + s, basic |-> count[p].basic + b]
        /\ \A q \in Objects : q # p => count'[q] = count[q] /\ next'[q] = m[q]
        /\ alive' = IF count'[p] = Zero THEN alive \ {p} ELSE alive
        /\ \A u \in Threads : u # t => dying'[u] = dying[u]
        /\ IF count'[p] = Zero THEN dying'[t] = m[p] /\ next'[p] = nullptr
                               ELSE dying'[t] = nullptr /\ next'[p] = m[p]
    BY ModifyFacts
  <1>1. PICK si \in Int : si = IF o = p THEN s ELSE 0
    OBVIOUS
  <1>2. PICK bi \in Int : bi = IF o = p THEN b ELSE 0
    OBVIOUS
  <1>3. PICK k \in Int : k = One(dying[t] = o) + One(next[p] = o) - One(m[p] = o)
    BY DEF One
  <1>4. count'[o] = [strong |-> count[o].strong + si, basic |-> count[o].basic + bi]
    BY <1>1, <1>2, <1>f DEF TypeOK
  <1>5. Members(o) \in Int /\ Members(o)' = Members(o) - k
    <2>1. /\ HowMany(dying, Threads, o) \in Nat /\ HowMany(dying', Threads, o) \in Nat
          /\ HowMany(dying', Threads, o) = HowMany(dying, Threads, o) - One(dying[t] = o) + One(dying'[t] = o)
      BY <1>f, HowManyShift, SharedPtrAssumption
    <2>2. /\ HowMany(next, Objects, o) \in Nat /\ HowMany(next', Objects, o) \in Nat
          /\ HowMany(next', Objects, o) = HowMany(next, Objects, o) - One(next[p] = o) + One(next'[p] = o)
      BY <1>f, HowManyShift, SharedPtrAssumption
    <2>3. One(dying'[t] = o) + One(next'[p] = o) = One(m[p] = o)
      BY <1>f, SharedPtrAssumption DEF One
    <2>4. Members(o) = HowMany(dying, Threads, o) + HowMany(next, Objects, o)
      BY DEF Members
    <2>5. Members(o)' = HowMany(dying', Threads, o) + HowMany(next', Objects, o)
      BY DEF Members, HowMany
    <2> QED BY <1>3, <2>1, <2>2, <2>3, <2>4, <2>5 DEF One
  <1>6. (o \in alive' <=> count'[o] # Zero) /\ (o \notin alive' => next'[o] = nullptr)
    BY <1>f DEF Balanced, Zero
  <1>7. StrongKept(t, o, si) /\ BasicKept(t, o, bi, k)
    BY <1>1, <1>2, <1>3
  <1>8. Balanced(o)
    OBVIOUS
  <1> QED BY <1>4, <1>5, <1>6, <1>7, <1>8, BalanceOne

\* A call of ModifyState by a thread that destroys no member.
LEMMA ModifyStateKeeps ==
  ASSUME TypeOK, TypeOK', \A o \in Objects : Balanced(o), NEW t \in Threads, Frame(t), dying[t] = nullptr,
         NEW p \in Pointers, p # nullptr => p \in alive, NEW s \in Int, NEW b \in Int,
         ModifyState(t, p, s, b), overtaken \subseteq overtaken',
         Modifies(t, p, s, b)
  PROVE  \A o \in Objects : Balanced(o)'
  <1>1. CASE p = nullptr
    <2>1. UNCHANGED heap
      BY <1>1 DEF ModifyState
    <2>2. \A o \in Objects : o # p
      BY <1>1, SharedPtrAssumption
    <2>3. \A o \in Objects : StrongKept(t, o, 0) /\ BasicKept(t, o, 0, 0)
      BY <2>2 DEF Modifies
    <2> QED BY <2>1, <2>3, HeapStays
  <1>2. CASE p # nullptr
    <2>1. p \in Objects /\ p \in alive /\ next \in [Objects -> Pointers]
      BY <1>2 DEF Pointers, TypeOK
    <2>2. ModifyStateOf(t, p, s, b, next)
      BY <1>2 DEF ModifyState
    <2>3. \A o \in Objects : One(dying[t] = o) + One(next[p] = o) - One(next[p] = o) = 0
      BY SharedPtrAssumption DEF One
    <2>4. \A o \in Objects : /\ StrongKept(t, o, IF o = p THEN s ELSE 0)
                             /\ BasicKept(t, o, IF o = p THEN b ELSE 0,
                                          One(dying[t] = o) + One(next[p] = o) - One(next[p] = o))
      BY <2>3 DEF Modifies
    <2> QED BY <2>1, <2>2, <2>4, ModifyKeeps
  <1> QED BY <1>1, <1>2

-----------------------------------------------------------------------------
\* Who is counted.

\* Nobody has a SharedPtr to o, is to charge it, or has prepared it.
Unheld(o)   == \A t \in Threads : held[t] # o /\ own[t] # o /\ arg[t] # o /\ res[t] # o
NoMember(o) == (\A t \in Threads : dying[t] # o) /\ (\A q \in Objects : next[q] # o)
Uncharged(o) == \A t \in Threads : pc[t] = "charge" => current[t].raw # o
Unraised(o) == \A t \in Threads : /\ Prepared(t) => arg[t] # o
                                  /\ pc[t] \in {"flush", "settle"} => res[t] # o

\* A sum is zero when nobody has a part in it.
LEMMA NothingCounted ==
  ASSUME TypeOK, NEW o \in Objects
  PROVE  /\ Handles(o) \in Nat /\ (Handles(o) = 0 <=> Unheld(o))
         /\ Members(o) \in Nat /\ (Members(o) = 0 <=> NoMember(o))
         /\ Strongs(o) \in Nat /\ (Strongs(o) = 0 <=> Uncharged(o) /\ Unraised(o))
         /\ Debts(o) \in Nat /\ (Uncharged(o) /\ Unraised(o) => Debts(o) = 0)
  <1>1. IsFiniteSet(Threads) /\ IsFiniteSet(Objects) /\ kMaxStamp \in Nat
    BY SharedPtrAssumption
  <1>2. Handles(o) \in Nat /\ (Handles(o) = 0 <=> Unheld(o))
    <2>1. /\ HowMany(held, Threads, o) \in Nat /\ (HowMany(held, Threads, o) = 0 <=> \A t \in Threads : held[t] # o)
          /\ HowMany(own, Threads, o) \in Nat /\ (HowMany(own, Threads, o) = 0 <=> \A t \in Threads : own[t] # o)
          /\ HowMany(arg, Threads, o) \in Nat /\ (HowMany(arg, Threads, o) = 0 <=> \A t \in Threads : arg[t] # o)
          /\ HowMany(res, Threads, o) \in Nat /\ (HowMany(res, Threads, o) = 0 <=> \A t \in Threads : res[t] # o)
      BY <1>1, HowManyZero
    <2>2. /\ Handles(o) \in Nat
          /\ Handles(o) = 0 <=> /\ HowMany(held, Threads, o) = 0 /\ HowMany(own, Threads, o) = 0
                                /\ HowMany(arg, Threads, o) = 0 /\ HowMany(res, Threads, o) = 0
      BY <2>1 DEF Handles
    <2> QED BY <2>1, <2>2 DEF Unheld
  <1>3. Members(o) \in Nat /\ (Members(o) = 0 <=> NoMember(o))
    <2>1. /\ HowMany(dying, Threads, o) \in Nat /\ (HowMany(dying, Threads, o) = 0 <=> \A t \in Threads : dying[t] # o)
          /\ HowMany(next, Objects, o) \in Nat /\ (HowMany(next, Objects, o) = 0 <=> \A q \in Objects : next[q] # o)
      BY <1>1, HowManyZero
    <2>2. /\ Members(o) \in Nat
          /\ Members(o) = 0 <=> HowMany(dying, Threads, o) = 0 /\ HowMany(next, Objects, o) = 0
      BY <2>1 DEF Members
    <2> QED BY <2>1, <2>2 DEF NoMember
  <1>4. Strongs(o) \in Nat /\ (Strongs(o) = 0 <=> Uncharged(o) /\ Unraised(o))
    <2> DEFINE A == {t \in Threads : Prepared(t) /\ arg[t] = o}
               B == {t \in Threads : pc[t] = "charge" /\ current[t].raw = o}
               C == {t \in Threads : pc[t] \in {"flush", "settle"} /\ res[t] = o}
    <2>1. A \in SUBSET Threads /\ B \in SUBSET Threads /\ C \in SUBSET Threads
      OBVIOUS
    <2>2. Uncharged(o) /\ Unraised(o) <=> A = {} /\ B = {} /\ C = {}
      BY DEF Uncharged, Unraised
    <2>3. Strongs(o) = Cardinality(A) + Cardinality(B) + Cardinality(C)
      BY DEF Strongs
    <2> HIDE DEF A, B, C
    <2>4. /\ Cardinality(A) \in Nat /\ (Cardinality(A) = 0 <=> A = {})
          /\ Cardinality(B) \in Nat /\ (Cardinality(B) = 0 <=> B = {})
          /\ Cardinality(C) \in Nat /\ (Cardinality(C) = 0 <=> C = {})
      BY <1>1, <2>1, FS_Subset, FS_CardinalityType, FS_EmptySet
    <2> QED BY <2>2, <2>3, <2>4
  <1>5. Debts(o) \in Nat /\ (Uncharged(o) /\ Unraised(o) => Debts(o) = 0)
    <2> DEFINE d == [t \in Threads |-> DebtOf(t, o)]
    <2>1. Debts(o) = Cardinality(Units(d))
      BY DEF Debts
    <2>2. Units(d) \in SUBSET (Threads \X (1 .. kMaxStamp))
      BY DEF Units
    <2>3. IsFiniteSet(Threads \X (1 .. kMaxStamp))
      <3>1. IsFiniteSet(1 .. kMaxStamp)
        BY <1>1, FS_Interval
      <3> QED BY ONLY <1>1, <3>1, FS_Product
    <2>4. Uncharged(o) /\ Unraised(o) => \A t \in Threads : d[t] = 0
      BY DEF Uncharged, Unraised, DebtOf, Owes
    <2>5. Uncharged(o) /\ Unraised(o) => Units(d) = {}
      <3> HIDE DEF d
      <3> QED BY <1>1, <2>4 DEF Units
    <2> HIDE DEF d
    <2> QED BY <2>1, <2>2, <2>3, <2>5, FS_Subset, FS_CardinalityType, FS_EmptySet
  <1> QED BY <1>2, <1>3, <1>4, <1>5

\* An object that is not alive is not referred to, and an alive one is, or was overtaken.
LEMMA AliveIsReferenced ==
  ASSUME TypeOK, NEW o \in Objects, Balanced(o)
  PROVE  /\ o \notin alive => /\ ptr.raw # o
                              /\ Unheld(o) /\ NoMember(o) /\ Uncharged(o) /\ Unraised(o)
         /\ o \in alive /\ o \notin overtaken => \/ ptr.raw = o
                                                 \/ ~ Unheld(o) \/ ~ NoMember(o) \/ ~ Uncharged(o)
  <1>0. /\ Handles(o) \in Nat /\ (Handles(o) = 0 <=> Unheld(o))
        /\ Members(o) \in Nat /\ (Members(o) = 0 <=> NoMember(o))
        /\ Strongs(o) \in Nat /\ (Strongs(o) = 0 <=> Uncharged(o) /\ Unraised(o))
        /\ Debts(o) \in Nat /\ (Uncharged(o) /\ Unraised(o) => Debts(o) = 0)
    BY NothingCounted
  <1>b. /\ count[o].strong = Strongs(o) + One(ptr.raw = o)
        /\ count[o].basic + InRegister(o) + Debts(o) >= Handles(o) + Members(o)
        /\ o \notin overtaken => count[o].basic + InRegister(o) + Debts(o) = Handles(o) + Members(o)
        /\ o \in alive <=> count[o] # [strong |-> 0, basic |-> 0]
    BY DEF Balanced
  <1>t. count[o] \in [strong : Int, basic : Int]
    BY DEF TypeOK
  <1>r. ptr.raw # o => InRegister(o) = 0 /\ One(ptr.raw = o) = 0
    BY DEF InRegister, One
  <1>s. ptr.raw = o => One(ptr.raw = o) = 1
    BY DEF One
  <1>1. ASSUME o \notin alive
        PROVE  ptr.raw # o /\ Unheld(o) /\ NoMember(o) /\ Uncharged(o) /\ Unraised(o)
    <2>1. count[o].strong = 0 /\ count[o].basic = 0
      BY <1>1, <1>b
    <2>2. ptr.raw # o
      BY <2>1, <1>0, <1>b, <1>s
    <2>3. Strongs(o) = 0
      BY <2>1, <2>2, <1>0, <1>b, <1>r
    <2>4. Debts(o) = 0
      BY <2>3, <1>0
    <2>5. Handles(o) = 0 /\ Members(o) = 0
      BY <2>1, <2>2, <2>4, <1>0, <1>b, <1>r
    <2> QED BY <2>2, <2>3, <2>5, <1>0
  <1>2. ASSUME o \in alive, o \notin overtaken, ptr.raw # o, Unheld(o), NoMember(o), Uncharged(o)
        PROVE  FALSE
    <2>1. Unraised(o)
      BY <1>2 DEF Unheld, Unraised
    <2>2. count[o].strong = 0
      BY <1>2, <2>1, <1>0, <1>b, <1>r
    <2>3. count[o].basic = 0
      BY <1>2, <2>1, <1>0, <1>b, <1>r, <1>t
    <2>4. count[o] = [strong |-> 0, basic |-> 0]
      BY <2>2, <2>3, <1>t
    <2> QED BY <1>2, <2>4, <1>b
  <1> QED BY <1>1, <1>2

-----------------------------------------------------------------------------
\* What a step of t is to the abstract register.

New(t) == IF Phase(t) \in {"store", "cas"} THEN arg[t] ELSE nullptr

Turns(t, from, to) == Phase(t) = from /\ Phase(t)' = to
Keeps(t)           == ptr'.raw = ptr.raw /\ New(t)' = New(t)

Looks(t)   == Keeps(t) /\ Phase(t)' = Phase(t) /\ Seen(t)' = Seen(t)
Calls(t)   == /\ Turns(t, "idle", "load") \/ Turns(t, "idle", "store") \/ Turns(t, "idle", "cas")
              /\ ptr'.raw = ptr.raw /\ New(t)' \in Pointers /\ Seen(t)' \in Pointers
Loads(t)   == /\ Turns(t, "load", "loaded") \/ Turns(t, "reload", "lost")
              /\ Keeps(t) /\ Seen(t)' = ptr.raw
Writes(t)  == /\ Turns(t, "store", "stored") \/ (Turns(t, "cas", "won") /\ ptr.raw = Seen(t))
              /\ ptr'.raw = New(t) /\ New(t)' = nullptr /\ Seen(t)' = Seen(t)
Loses(t)   == /\ Turns(t, "cas", "reload") /\ ptr.raw # Seen(t)
              /\ ptr'.raw = ptr.raw /\ New(t)' = nullptr /\ Seen(t)' = Seen(t)
Returns(t) == /\ \E answer \in {"loaded", "stored", "won", "lost"} : Turns(t, answer, "idle")
              /\ Keeps(t) /\ Seen(t)' = nullptr

Renews     == /\ \A u \in Threads : Phase(u) = "idle"
              /\ UNCHANGED <<held, arg, op, pc, current, res>>
              /\ ptr'.raw = nullptr

Implements(t) ==
    Frame(t) /\ (Looks(t) \/ Calls(t) \/ Loads(t) \/ Writes(t) \/ Loses(t) \/ Returns(t))

-----------------------------------------------------------------------------
\* The parts of a step.

HeapTypeOK ==
    /\ count \in [Objects -> [strong : Int, basic : Int]]
    /\ alive \subseteq Objects
    /\ next \in [Objects -> Pointers]
    /\ dying \in [Threads -> Pointers]

LocalTypeOK ==
    /\ ptr \in Stamped
    /\ held \in [Threads -> Pointers] /\ own \in [Threads -> Pointers]
    /\ arg \in [Threads -> Pointers] /\ res \in [Threads -> Pointers]
    /\ op \in [Threads -> {"none", "Load", "Store", "Cas"}]
    /\ pc \in [Threads -> Labels]
    /\ current \in [Threads -> Stamped]
    /\ won \in [Threads -> BOOLEAN]
    /\ calls \in 0 .. MaxCalls
    /\ overtaken \subseteq Objects

\* What ModifyState leaves alone.
LEMMA ModifyStateTypes ==
  ASSUME TypeOK, NEW t \in Threads, NEW p \in Pointers, NEW s \in Int, NEW b \in Int, ModifyState(t, p, s, b)
  PROVE  /\ HeapTypeOK' /\ alive' \subseteq alive
         /\ \A q \in Objects : next'[q] = next[q] \/ next'[q] = nullptr
         /\ \A u \in Threads : u # t => dying'[u] = dying[u]
  <1>t. HeapTypeOK
    BY DEF TypeOK, HeapTypeOK
  <1>1. CASE p = nullptr
    BY <1>1, <1>t DEF ModifyState, heap, HeapTypeOK
  <1>2. CASE p # nullptr
    <2>1. p \in Objects /\ next \in [Objects -> Pointers] /\ ModifyStateOf(t, p, s, b, next)
      BY <1>2 DEF Pointers, TypeOK, ModifyState
    <2>2. /\ count' \in [Objects -> [strong : Int, basic : Int]]
          /\ count'[p] = [strong |-> count[p].strong + s, basic |-> count[p].basic + b]
          /\ \A o \in Objects : o # p => count'[o] = count[o] /\ next'[o] = next[o]
          /\ alive' = IF count'[p] = Zero THEN alive \ {p} ELSE alive
          /\ dying' \in [Threads -> Pointers] /\ next' \in [Objects -> Pointers]
          /\ \A u \in Threads : u # t => dying'[u] = dying[u]
          /\ IF count'[p] = Zero THEN dying'[t] = next[p] /\ next'[p] = nullptr
                                 ELSE dying'[t] = nullptr /\ next'[p] = next[p]
      BY <2>1, ModifyFacts
    <2> QED BY <1>t, <2>2 DEF HeapTypeOK
  <1> QED BY <1>1, <1>2

\* The invariant is local but for the counts and the stamp.
LEMMA StepOfModifyState ==
  ASSUME RegisterIInv, NEW t \in Threads, Frame(t), dying[t] = nullptr,
         NEW p \in Pointers, p # nullptr => p \in alive, NEW s \in Int, NEW b \in Int,
         ModifyState(t, p, s, b), overtaken \subseteq overtaken',
         LocalTypeOK', LocalInPlace(t)', StampFits',
         Modifies(t, p, s, b)
  PROVE  RegisterIInv'
  <1>1. TypeOK /\ (\A o \in Objects : Balanced(o)) /\ \A u \in Threads : LocalInPlace(u)
    BY DEF RegisterIInv
  <1>2. TypeOK'
    BY <1>1, ModifyStateTypes DEF TypeOK, HeapTypeOK, LocalTypeOK
  <1>3. \A o \in Objects : Balanced(o)'
    BY <1>1, <1>2, ModifyStateKeeps
  <1>4. \A u \in Threads : LocalInPlace(u)'
    BY <1>1 DEF Frame, LocalInPlace
  <1> QED BY <1>2, <1>3, <1>4 DEF RegisterIInv

\* The same for a step that leaves the counts alone.
LEMMA StepOfHeap ==
  ASSUME RegisterIInv, NEW t \in Threads, Frame(t), UNCHANGED heap, overtaken \subseteq overtaken',
         LocalTypeOK', LocalInPlace(t)', StampFits',
         \A o \in Objects : StrongKept(t, o, 0) /\ BasicKept(t, o, 0, 0)
  PROVE  RegisterIInv'
  <1>1. TypeOK /\ (\A o \in Objects : Balanced(o)) /\ \A u \in Threads : LocalInPlace(u)
    BY DEF RegisterIInv
  <1>2. TypeOK'
    BY <1>1 DEF TypeOK, LocalTypeOK, heap
  <1>3. \A o \in Objects : Balanced(o)'
    BY <1>1, <1>2, HeapStays
  <1>4. \A u \in Threads : LocalInPlace(u)'
    BY <1>1 DEF Frame, LocalInPlace
  <1> QED BY <1>2, <1>3, <1>4 DEF RegisterIInv

\* The threads that have yet to flush can be counted.
LEMMA FlushingIsFinite == IsFiniteSet(Flushing) /\ Cardinality(Flushing) \in Nat
  BY FS_Subset, FS_CardinalityType, SharedPtrAssumption DEF Flushing

\* A register that is new, or as it was, has a stamp that fits.
LEMMA StampStays ==
  ASSUME TypeOK, StampFits,
         \/ ptr'.stamp = 0
         \/ ptr' = ptr /\ \A u \in Threads : pc[u] \in {"raise", "flush"} /\ res[u] = ptr.raw =>
                                                pc'[u] \in {"raise", "flush"} /\ res'[u] = res[u]
  PROVE  StampFits'
  <1>1. Cardinality(Flushing) \in Nat
    BY FlushingIsFinite
  <1>2. IsFiniteSet(Flushing') /\ Cardinality(Flushing') \in Nat
    BY FS_Subset, FS_CardinalityType, SharedPtrAssumption DEF Flushing
  <1>3. kMaxStamp \div 2 \in Nat
    BY SharedPtrAssumption
  <1>4. CASE ptr'.stamp = 0
    BY <1>2, <1>3, <1>4 DEF StampFits
  <1>5. CASE ptr' = ptr /\ \A u \in Threads : pc[u] \in {"raise", "flush"} /\ res[u] = ptr.raw =>
                                                pc'[u] \in {"raise", "flush"} /\ res'[u] = res[u]
    <2>1. Flushing \subseteq Flushing'
      BY <1>5 DEF Flushing
    <2>2. Cardinality(Flushing) <= Cardinality(Flushing')
      BY <1>2, <2>1, FS_Subset
    <2>3. ptr.stamp \in Int
      BY SharedPtrAssumption DEF TypeOK, Stamped
    <2> QED BY <1>1, <1>2, <1>3, <1>5, <2>2, <2>3 DEF StampFits
  <1> QED BY <1>4, <1>5

\* What is known of t and of the register.
LEMMA Known ==
  ASSUME RegisterIInv, NEW t \in Threads
  PROVE  /\ TypeOK /\ StampFits /\ LocalInPlace(t)
         /\ ptr \in Stamped /\ ptr.raw \in Pointers /\ ptr.stamp \in 0 .. kMaxStamp
         /\ held[t] \in Pointers /\ own[t] \in Pointers /\ arg[t] \in Pointers /\ res[t] \in Pointers
         /\ dying[t] \in Pointers
         /\ op[t] \in {"none", "Load", "Store", "Cas"} /\ pc[t] \in Labels
         /\ current[t] \in Stamped /\ current[t].raw \in Pointers /\ current[t].stamp \in 0 .. kMaxStamp
         /\ nullptr \in Pointers /\ kMaxStamp \in Nat \ {0} /\ Null \in Stamped
         /\ \A o \in Objects : o # nullptr
  <1>1. TypeOK /\ StampFits /\ LocalInPlace(t)
    BY DEF RegisterIInv
  <1>2. kMaxStamp \in Nat \ {0} /\ \A o \in Objects : o # nullptr
    BY SharedPtrAssumption
  <1>3. nullptr \in Pointers /\ Null \in Stamped
    BY <1>2 DEF Pointers, Null, Stamped
  <1>4. /\ ptr \in Stamped /\ current[t] \in Stamped
        /\ held[t] \in Pointers /\ own[t] \in Pointers /\ arg[t] \in Pointers /\ res[t] \in Pointers
        /\ dying[t] \in Pointers
        /\ op[t] \in {"none", "Load", "Store", "Cas"} /\ pc[t] \in Labels
    BY <1>1 DEF TypeOK
  <1>5. \A w \in Stamped : w.raw \in Pointers /\ w.stamp \in 0 .. kMaxStamp
    BY DEF Stamped
  <1> QED BY <1>1, <1>2, <1>3, <1>4, <1>5

\* Whatever t refers to is alive.
LEMMA Lives ==
  ASSUME RegisterIInv, NEW t \in Threads
  PROVE  /\ held[t] # nullptr => held[t] \in alive
         /\ own[t] # nullptr => own[t] \in alive
         /\ arg[t] # nullptr => arg[t] \in alive
         /\ res[t] # nullptr => res[t] \in alive
         /\ dying[t] # nullptr => dying[t] \in alive
         /\ ptr.raw # nullptr => ptr.raw \in alive
         /\ pc[t] = "charge" /\ current[t].raw # nullptr => current[t].raw \in alive
         /\ \A q \in Objects : next[q] # nullptr => next[q] \in alive
  <1>1. \A o \in Objects : o \notin alive =>
           ptr.raw # o /\ Unheld(o) /\ NoMember(o) /\ Uncharged(o) /\ Unraised(o)
    BY AliveIsReferenced DEF RegisterIInv
  <1>2. \A q \in Objects : next[q] \in Pointers
    BY DEF RegisterIInv, TypeOK
  <1> QED BY <1>1, <1>2, Known DEF Unheld, NoMember, Uncharged, Pointers

-----------------------------------------------------------------------------
\* The steps of the calls.

\* The argument is prepared: the strong count comes before the publication.
LEMMA StrongStep == ASSUME RegisterIInv, NEW t \in Threads, Strong(t) PROVE RegisterIInv' /\ Implements(t)
  <1>k. /\ TypeOK /\ StampFits /\ LocalInPlace(t) /\ arg[t] \in Pointers /\ op[t] \in {"none", "Load", "Store", "Cas"}
        /\ ptr.stamp \in 0 .. kMaxStamp /\ current[t].stamp \in 0 .. kMaxStamp /\ kMaxStamp \in Nat
        /\ arg[t] # nullptr => arg[t] \in alive
    BY Known, Lives
  <1>p. /\ pc[t] = "strong" /\ dying[t] = nullptr
        /\ pc' = [pc EXCEPT ![t] = IF op[t] = "Store" THEN "exchange" ELSE "compare"]
        /\ UNCHANGED <<ptr, held, own, arg, op, current, res, won, calls, overtaken>>
        /\ ModifyState(t, arg[t], 1, 0)
    BY DEF Strong, At, Goto
  <1>c. pc'[t] = IF op[t] = "Store" THEN "exchange" ELSE "compare"
    BY <1>k, <1>p DEF TypeOK
  <1>f. Frame(t)
    BY <1>k, <1>p DEF Frame, TypeOK
  <1>t. LocalTypeOK'
    BY <1>k, <1>p DEF LocalTypeOK, TypeOK, Labels
  <1>l. LocalInPlace(t)'
    BY <1>k, <1>p, <1>c DEF LocalInPlace
  <1>s. StampFits'
    BY <1>k, <1>p, <1>c, <1>f, StampStays DEF Frame
  <1>b. Modifies(t, arg[t], 1, 0)
    <2> SUFFICES ASSUME NEW o \in Objects
                 PROVE  /\ StrongKept(t, o, IF o = arg[t] THEN 1 ELSE 0)
                        /\ BasicKept(t, o, IF o = arg[t] THEN 0 ELSE 0, 0)
      BY DEF Modifies
    <2>1. StrongKept(t, o, IF o = arg[t] THEN 1 ELSE 0)
      BY <1>k, <1>p, <1>c DEF StrongKept, StrongOf, One, Prepared, LocalInPlace
    <2>2. BasicKept(t, o, 0, 0)
      BY <1>k, <1>p, <1>c DEF BasicKept, HandlesOf, One, DebtOf, Owes, InRegister
    <2> QED BY <2>1, <2>2
  <1>h. /\ ModifyState(t, arg[t], 1, 0) /\ 1 \in Int /\ 0 \in Int
        /\ dying[t] = nullptr /\ overtaken \subseteq overtaken'
        /\ arg[t] \in Pointers /\ (arg[t] # nullptr => arg[t] \in alive)
    BY <1>k, <1>p
  <1>i. RegisterIInv'
    BY ONLY RegisterIInv, t \in Threads, <1>h, <1>f, <1>t, <1>l, <1>s, <1>b, StepOfModifyState
  <1>m. Implements(t)
    BY <1>k, <1>p, <1>c, <1>f DEF Implements, Looks, Turns, Keeps, New, Phase, Seen, LocalInPlace
  <1> QED BY <1>i, <1>m

\* The stamp goes with the pointer that is taken out.
LEMMA ExchangeStep == ASSUME RegisterIInv, NEW t \in Threads, Exchange(t) PROVE RegisterIInv' /\ Implements(t)
  <1>k. /\ TypeOK /\ StampFits /\ LocalInPlace(t) /\ arg[t] \in Pointers /\ held[t] \in Pointers /\ res[t] \in Pointers
        /\ op[t] \in {"none", "Load", "Store", "Cas"}
        /\ ptr \in Stamped /\ ptr.raw \in Pointers /\ ptr.stamp \in 0 .. kMaxStamp
        /\ current[t].raw \in Pointers /\ current[t].stamp \in 0 .. kMaxStamp
        /\ kMaxStamp \in Nat \ {0} /\ nullptr \in Pointers
    BY Known, Lives
  <1>p. /\ pc[t] = "exchange" /\ dying[t] = nullptr
        /\ current' = [current EXCEPT ![t] = ptr]
        /\ ptr' = [raw |-> arg[t], stamp |-> 0]
        /\ pc' = [pc EXCEPT ![t] = "charge"]
        /\ UNCHANGED <<heap, held, own, arg, op, res, won, calls, overtaken>>
    BY DEF Exchange, At, Goto
  <1>c. /\ pc'[t] = "charge" /\ current'[t] = ptr
        /\ ptr'.raw = arg[t] /\ ptr'.stamp = 0
    BY <1>k, <1>p DEF TypeOK, Stamped
  <1>f. Frame(t)
    BY <1>k, <1>p DEF Frame, TypeOK
  <1>t. LocalTypeOK'
    BY <1>k, <1>p DEF LocalTypeOK, TypeOK, Labels, Stamped
  <1>l. LocalInPlace(t)'
    BY <1>k, <1>p, <1>c DEF LocalInPlace
  <1>s. StampFits'
    BY <1>k, <1>p, <1>c, <1>f, StampStays DEF Frame
  <1>b. \A o \in Objects : StrongKept(t, o, 0) /\ BasicKept(t, o, 0, 0)
    <2> TAKE o \in Objects
    <2>0. o # nullptr
      BY SharedPtrAssumption
    <2>1. StrongKept(t, o, 0)
      BY <1>k, <1>p, <1>c, <2>0 DEF StrongKept, StrongOf, One, Prepared, LocalInPlace
    <2>2. BasicKept(t, o, 0, 0)
      BY <1>k, <1>p, <1>c, <2>0 DEF BasicKept, HandlesOf, One, DebtOf, Owes, InRegister, LocalInPlace
    <2> QED BY <2>1, <2>2
  <1>i. RegisterIInv'
    BY <1>k, <1>p, <1>f, <1>t, <1>l, <1>s, <1>b, StepOfHeap
  <1>m. Implements(t)
    BY <1>k, <1>p, <1>c, <1>f DEF Implements, Writes, Turns, New, Phase, Seen, LocalInPlace
  <1> QED BY <1>i, <1>m

\* The charge settles the stamp that came out of the register.
LEMMA ChargeStep == ASSUME RegisterIInv, NEW t \in Threads, Charge(t) PROVE RegisterIInv' /\ Implements(t)
  <1>k. /\ TypeOK /\ StampFits /\ LocalInPlace(t) /\ arg[t] \in Pointers /\ held[t] \in Pointers /\ res[t] \in Pointers
        /\ op[t] \in {"none", "Load", "Store", "Cas"}
        /\ ptr \in Stamped /\ ptr.raw \in Pointers /\ ptr.stamp \in 0 .. kMaxStamp
        /\ current[t].raw \in Pointers /\ current[t].stamp \in 0 .. kMaxStamp
        /\ kMaxStamp \in Nat \ {0} /\ nullptr \in Pointers
        /\ pc[t] = "charge" /\ current[t].raw # nullptr => current[t].raw \in alive
    BY Known, Lives
  <1>p. /\ pc[t] = "charge" /\ dying[t] = nullptr
        /\ pc' = [pc EXCEPT ![t] = "drop"]
        /\ UNCHANGED <<ptr, held, own, arg, op, current, res, won, calls, overtaken>>
        /\ ModifyState(t, current[t].raw, -1, current[t].stamp)
    BY DEF Charge, At, Goto
  <1>c. /\ pc'[t] = "drop"
    BY <1>k, <1>p DEF TypeOK
  <1>f. Frame(t)
    BY <1>k, <1>p DEF Frame, TypeOK
  <1>t. LocalTypeOK'
    BY <1>k, <1>p DEF LocalTypeOK, TypeOK, Labels
  <1>l. LocalInPlace(t)'
    BY <1>k, <1>p, <1>c DEF LocalInPlace
  <1>s. StampFits'
    BY <1>k, <1>p, <1>c, <1>f, StampStays DEF Frame
  <1>b. Modifies(t, current[t].raw, -1, current[t].stamp)
    <2> SUFFICES ASSUME NEW o \in Objects
                 PROVE  /\ StrongKept(t, o, IF o = current[t].raw THEN -1 ELSE 0)
                        /\ BasicKept(t, o, IF o = current[t].raw THEN current[t].stamp ELSE 0, 0)
      BY DEF Modifies
    <2>0. o # nullptr
      BY SharedPtrAssumption
    <2>1. StrongKept(t, o, IF o = current[t].raw THEN -1 ELSE 0)
      BY <1>k, <1>p, <1>c, <2>0 DEF StrongKept, StrongOf, One, Prepared, LocalInPlace
    <2>2. BasicKept(t, o, IF o = current[t].raw THEN current[t].stamp ELSE 0, 0)
      BY <1>k, <1>p, <1>c, <2>0 DEF BasicKept, HandlesOf, One, DebtOf, Owes, InRegister, LocalInPlace
    <2> QED BY <2>1, <2>2
  <1>h. /\ ModifyState(t, current[t].raw, -1, current[t].stamp) /\ -1 \in Int /\ current[t].stamp \in Int
        /\ dying[t] = nullptr /\ overtaken \subseteq overtaken'
        /\ current[t].raw \in Pointers /\ (current[t].raw # nullptr => current[t].raw \in alive)
    BY <1>k, <1>p
  <1>i. RegisterIInv'
    BY ONLY RegisterIInv, t \in Threads, <1>h, <1>f, <1>t, <1>l, <1>s, <1>b, StepOfModifyState
  <1>m. Implements(t)
    BY <1>k, <1>p, <1>c, <1>f DEF Implements, Returns, Turns, Keeps, New, Phase, Seen, LocalInPlace
  <1> QED BY <1>i, <1>m

\* The pointer that is read decides whether the call can win.
LEMMA PeekStep == ASSUME RegisterIInv, NEW t \in Threads, Peek(t) PROVE RegisterIInv' /\ Implements(t)
  <1>k. /\ TypeOK /\ StampFits /\ LocalInPlace(t) /\ arg[t] \in Pointers /\ held[t] \in Pointers /\ res[t] \in Pointers
        /\ op[t] \in {"none", "Load", "Store", "Cas"}
        /\ ptr \in Stamped /\ ptr.raw \in Pointers /\ ptr.stamp \in 0 .. kMaxStamp
        /\ current[t].raw \in Pointers /\ current[t].stamp \in 0 .. kMaxStamp
        /\ kMaxStamp \in Nat \ {0} /\ nullptr \in Pointers
    BY Known, Lives
  <1>p. /\ pc[t] = "peek" /\ dying[t] = nullptr
        /\ current' = [current EXCEPT ![t] = ptr]
        /\ pc' = [pc EXCEPT ![t] = "strong"]
        /\ UNCHANGED <<heap, ptr, held, own, arg, op, res, won, calls, overtaken>>
    BY DEF Peek, At, Goto
  <1>c. /\ pc'[t] = "strong" /\ current'[t] = ptr
    BY <1>k, <1>p DEF TypeOK
  <1>f. Frame(t)
    BY <1>k, <1>p DEF Frame, TypeOK
  <1>t. LocalTypeOK'
    BY <1>k, <1>p DEF LocalTypeOK, TypeOK, Labels
  <1>l. LocalInPlace(t)'
    BY <1>k, <1>p, <1>c DEF LocalInPlace
  <1>s. StampFits'
    BY <1>k, <1>p, <1>c, <1>f, StampStays DEF Frame
  <1>b. \A o \in Objects : StrongKept(t, o, 0) /\ BasicKept(t, o, 0, 0)
    <2> TAKE o \in Objects
    <2>0. o # nullptr
      BY SharedPtrAssumption
    <2>1. StrongKept(t, o, 0)
      BY <1>k, <1>p, <1>c, <2>0 DEF StrongKept, StrongOf, One, Prepared, LocalInPlace
    <2>2. BasicKept(t, o, 0, 0)
      BY <1>k, <1>p, <1>c, <2>0 DEF BasicKept, HandlesOf, One, DebtOf, Owes, InRegister, LocalInPlace
    <2> QED BY <2>1, <2>2
  <1>i. RegisterIInv'
    BY <1>k, <1>p, <1>f, <1>t, <1>l, <1>s, <1>b, StepOfHeap
  <1>m. Implements(t)
    BY <1>k, <1>p, <1>c, <1>f DEF Implements, Looks, Loses, Turns, Keeps, New, Phase, Seen, LocalInPlace
  <1> QED BY <1>i, <1>m

\* A call that expects another object loses.
LEMMA CompareFailsStep == ASSUME RegisterIInv, NEW t \in Threads, CompareFails(t) PROVE RegisterIInv' /\ Implements(t)
  <1>k. /\ TypeOK /\ StampFits /\ LocalInPlace(t) /\ arg[t] \in Pointers /\ held[t] \in Pointers /\ res[t] \in Pointers
        /\ op[t] \in {"none", "Load", "Store", "Cas"}
        /\ ptr \in Stamped /\ ptr.raw \in Pointers /\ ptr.stamp \in 0 .. kMaxStamp
        /\ current[t].raw \in Pointers /\ current[t].stamp \in 0 .. kMaxStamp
        /\ kMaxStamp \in Nat \ {0} /\ nullptr \in Pointers
    BY Known, Lives
  <1>p. /\ pc[t] = "compare" /\ dying[t] = nullptr /\ current[t].raw # held[t]
        /\ pc' = [pc EXCEPT ![t] = "load"]
        /\ UNCHANGED <<heap, ptr, held, own, arg, op, current, res, won, calls, overtaken>>
    BY DEF CompareFails, At, Goto
  <1>c. /\ pc'[t] = "load"
    BY <1>k, <1>p DEF TypeOK
  <1>f. Frame(t)
    BY <1>k, <1>p DEF Frame, TypeOK
  <1>t. LocalTypeOK'
    BY <1>k, <1>p DEF LocalTypeOK, TypeOK, Labels
  <1>l. LocalInPlace(t)'
    BY <1>k, <1>p, <1>c DEF LocalInPlace
  <1>s. StampFits'
    BY <1>k, <1>p, <1>c, <1>f, StampStays DEF Frame
  <1>b. \A o \in Objects : StrongKept(t, o, 0) /\ BasicKept(t, o, 0, 0)
    <2> TAKE o \in Objects
    <2>0. o # nullptr
      BY SharedPtrAssumption
    <2>1. StrongKept(t, o, 0)
      BY <1>k, <1>p, <1>c, <2>0 DEF StrongKept, StrongOf, One, Prepared, LocalInPlace
    <2>2. BasicKept(t, o, 0, 0)
      BY <1>k, <1>p, <1>c, <2>0 DEF BasicKept, HandlesOf, One, DebtOf, Owes, InRegister, LocalInPlace
    <2> QED BY <2>1, <2>2
  <1>i. RegisterIInv'
    BY <1>k, <1>p, <1>f, <1>t, <1>l, <1>s, <1>b, StepOfHeap
  <1>m. Implements(t)
    BY <1>k, <1>p, <1>c, <1>f DEF Implements, Looks, Turns, Keeps, New, Phase, Seen, LocalInPlace
  <1> QED BY <1>i, <1>m

\* The preparation is taken back.
LEMMA CancelStep == ASSUME RegisterIInv, NEW t \in Threads, Cancel(t) PROVE RegisterIInv' /\ Implements(t)
  <1>k. /\ TypeOK /\ StampFits /\ LocalInPlace(t) /\ arg[t] \in Pointers /\ held[t] \in Pointers /\ res[t] \in Pointers
        /\ op[t] \in {"none", "Load", "Store", "Cas"}
        /\ ptr \in Stamped /\ ptr.raw \in Pointers /\ ptr.stamp \in 0 .. kMaxStamp
        /\ current[t].raw \in Pointers /\ current[t].stamp \in 0 .. kMaxStamp
        /\ kMaxStamp \in Nat \ {0} /\ nullptr \in Pointers
        /\ arg[t] # nullptr => arg[t] \in alive
    BY Known, Lives
  <1>p. /\ pc[t] = "cancel" /\ dying[t] = nullptr
        /\ pc' = [pc EXCEPT ![t] = "drop"]
        /\ UNCHANGED <<ptr, held, own, arg, op, current, res, won, calls, overtaken>>
        /\ ModifyState(t, arg[t], -1, 0)
    BY DEF Cancel, At, Goto
  <1>c. /\ pc'[t] = "drop"
    BY <1>k, <1>p DEF TypeOK
  <1>f. Frame(t)
    BY <1>k, <1>p DEF Frame, TypeOK
  <1>t. LocalTypeOK'
    BY <1>k, <1>p DEF LocalTypeOK, TypeOK, Labels
  <1>l. LocalInPlace(t)'
    BY <1>k, <1>p, <1>c DEF LocalInPlace
  <1>s. StampFits'
    BY <1>k, <1>p, <1>c, <1>f, StampStays DEF Frame
  <1>b. Modifies(t, arg[t], -1, 0)
    <2> SUFFICES ASSUME NEW o \in Objects
                 PROVE  /\ StrongKept(t, o, IF o = arg[t] THEN -1 ELSE 0)
                        /\ BasicKept(t, o, IF o = arg[t] THEN 0 ELSE 0, 0)
      BY DEF Modifies
    <2>0. o # nullptr
      BY SharedPtrAssumption
    <2>1. StrongKept(t, o, IF o = arg[t] THEN -1 ELSE 0)
      BY <1>k, <1>p, <1>c, <2>0 DEF StrongKept, StrongOf, One, Prepared, LocalInPlace
    <2>2. BasicKept(t, o, 0, 0)
      BY <1>k, <1>p, <1>c, <2>0 DEF BasicKept, HandlesOf, One, DebtOf, Owes, InRegister, LocalInPlace
    <2> QED BY <2>1, <2>2
  <1>h. /\ ModifyState(t, arg[t], -1, 0) /\ -1 \in Int /\ 0 \in Int
        /\ dying[t] = nullptr /\ overtaken \subseteq overtaken'
        /\ arg[t] \in Pointers /\ (arg[t] # nullptr => arg[t] \in alive)
    BY <1>k, <1>p
  <1>i. RegisterIInv'
    BY ONLY RegisterIInv, t \in Threads, <1>h, <1>f, <1>t, <1>l, <1>s, <1>b, StepOfModifyState
  <1>m. Implements(t)
    BY <1>k, <1>p, <1>c, <1>f DEF Implements, Returns, Turns, Keeps, New, Phase, Seen, LocalInPlace
  <1> QED BY <1>i, <1>m

\* A Load that reads null is done.
LEMMA LoadReadStep == ASSUME RegisterIInv, NEW t \in Threads, LoadRead(t) PROVE RegisterIInv' /\ Implements(t)
  <1>k. /\ TypeOK /\ StampFits /\ LocalInPlace(t) /\ arg[t] \in Pointers /\ held[t] \in Pointers /\ res[t] \in Pointers
        /\ op[t] \in {"none", "Load", "Store", "Cas"}
        /\ ptr \in Stamped /\ ptr.raw \in Pointers /\ ptr.stamp \in 0 .. kMaxStamp
        /\ current[t].raw \in Pointers /\ current[t].stamp \in 0 .. kMaxStamp
        /\ kMaxStamp \in Nat \ {0} /\ nullptr \in Pointers
    BY Known, Lives
  <1>p. /\ pc[t] = "load" /\ dying[t] = nullptr
        /\ current' = [current EXCEPT ![t] = ptr]
        /\ pc' = [pc EXCEPT ![t] = IF ptr.raw = nullptr THEN "assign" ELSE "bump"]
        /\ UNCHANGED <<heap, ptr, held, own, arg, op, res, won, calls, overtaken>>
    BY DEF LoadRead, At, Goto
  <1>c. /\ pc'[t] = (IF ptr.raw = nullptr THEN "assign" ELSE "bump") /\ current'[t] = ptr
    BY <1>k, <1>p DEF TypeOK
  <1>f. Frame(t)
    BY <1>k, <1>p DEF Frame, TypeOK
  <1>t. LocalTypeOK'
    BY <1>k, <1>p DEF LocalTypeOK, TypeOK, Labels
  <1>l. LocalInPlace(t)'
    BY <1>k, <1>p, <1>c DEF LocalInPlace
  <1>s. StampFits'
    BY <1>k, <1>p, <1>c, <1>f, StampStays DEF Frame
  <1>b. \A o \in Objects : StrongKept(t, o, 0) /\ BasicKept(t, o, 0, 0)
    <2> TAKE o \in Objects
    <2>0. o # nullptr
      BY SharedPtrAssumption
    <2>1. StrongKept(t, o, 0)
      BY <1>k, <1>p, <1>c, <2>0 DEF StrongKept, StrongOf, One, Prepared, LocalInPlace
    <2>2. BasicKept(t, o, 0, 0)
      BY <1>k, <1>p, <1>c, <2>0 DEF BasicKept, HandlesOf, One, DebtOf, Owes, InRegister, LocalInPlace
    <2> QED BY <2>1, <2>2
  <1>i. RegisterIInv'
    BY <1>k, <1>p, <1>f, <1>t, <1>l, <1>s, <1>b, StepOfHeap
  <1>m. Implements(t)
    BY <1>k, <1>p, <1>c, <1>f DEF Implements, Looks, Loads, Turns, Keeps, New, Phase, Seen, LocalInPlace
  <1> QED BY <1>i, <1>m

\* The object is kept alive until the flush has settled.
LEMMA RaiseStep == ASSUME RegisterIInv, NEW t \in Threads, Raise(t) PROVE RegisterIInv' /\ Implements(t)
  <1>k. /\ TypeOK /\ StampFits /\ LocalInPlace(t) /\ arg[t] \in Pointers /\ held[t] \in Pointers /\ res[t] \in Pointers
        /\ op[t] \in {"none", "Load", "Store", "Cas"}
        /\ ptr \in Stamped /\ ptr.raw \in Pointers /\ ptr.stamp \in 0 .. kMaxStamp
        /\ current[t].raw \in Pointers /\ current[t].stamp \in 0 .. kMaxStamp
        /\ kMaxStamp \in Nat \ {0} /\ nullptr \in Pointers
        /\ res[t] # nullptr => res[t] \in alive
    BY Known, Lives
  <1>p. /\ pc[t] = "raise" /\ dying[t] = nullptr
        /\ current' = [current EXCEPT ![t] = [raw |-> res[t], stamp |-> 1]]
        /\ pc' = [pc EXCEPT ![t] = "flush"]
        /\ UNCHANGED <<ptr, held, own, arg, op, res, won, calls, overtaken>>
        /\ ModifyState(t, res[t], 1, 0)
    BY DEF Raise, At, Goto
  <1>c. /\ pc'[t] = "flush" /\ current'[t].raw = res[t]
    BY <1>k, <1>p DEF TypeOK, Stamped
  <1>f. Frame(t)
    BY <1>k, <1>p DEF Frame, TypeOK
  <1>t. LocalTypeOK'
    BY <1>k, <1>p DEF LocalTypeOK, TypeOK, Labels, Stamped
  <1>l. LocalInPlace(t)'
    BY <1>k, <1>p, <1>c DEF LocalInPlace
  <1>s. StampFits'
    BY <1>k, <1>p, <1>c, <1>f, StampStays DEF Frame
  <1>b. Modifies(t, res[t], 1, 0)
    <2> SUFFICES ASSUME NEW o \in Objects
                 PROVE  /\ StrongKept(t, o, IF o = res[t] THEN 1 ELSE 0)
                        /\ BasicKept(t, o, IF o = res[t] THEN 0 ELSE 0, 0)
      BY DEF Modifies
    <2>0. o # nullptr
      BY SharedPtrAssumption
    <2>1. StrongKept(t, o, IF o = res[t] THEN 1 ELSE 0)
      BY <1>k, <1>p, <1>c, <2>0 DEF StrongKept, StrongOf, One, Prepared, LocalInPlace
    <2>2. BasicKept(t, o, 0, 0)
      BY <1>k, <1>p, <1>c, <2>0 DEF BasicKept, HandlesOf, One, DebtOf, Owes, InRegister, LocalInPlace
    <2> QED BY <2>1, <2>2
  <1>h. /\ ModifyState(t, res[t], 1, 0) /\ 1 \in Int /\ 0 \in Int
        /\ dying[t] = nullptr /\ overtaken \subseteq overtaken'
        /\ res[t] \in Pointers /\ (res[t] # nullptr => res[t] \in alive)
    BY <1>k, <1>p
  <1>i. RegisterIInv'
    BY ONLY RegisterIInv, t \in Threads, <1>h, <1>f, <1>t, <1>l, <1>s, <1>b, StepOfModifyState
  <1>m. Implements(t)
    BY <1>k, <1>p, <1>c, <1>f DEF Implements, Looks, Turns, Keeps, New, Phase, Seen, LocalInPlace
  <1> QED BY <1>i, <1>m

\* A stamp of another object is charged too much.
LEMMA SettleStep == ASSUME RegisterIInv, NEW t \in Threads, Settle(t) PROVE RegisterIInv' /\ Implements(t)
  <1>k. /\ TypeOK /\ StampFits /\ LocalInPlace(t) /\ arg[t] \in Pointers /\ held[t] \in Pointers /\ res[t] \in Pointers
        /\ op[t] \in {"none", "Load", "Store", "Cas"}
        /\ ptr \in Stamped /\ ptr.raw \in Pointers /\ ptr.stamp \in 0 .. kMaxStamp
        /\ current[t].raw \in Pointers /\ current[t].stamp \in 0 .. kMaxStamp
        /\ kMaxStamp \in Nat \ {0} /\ nullptr \in Pointers
        /\ res[t] # nullptr => res[t] \in alive
    BY Known, Lives
  <1>p. /\ pc[t] = "settle" /\ dying[t] = nullptr
        /\ overtaken' = IF current[t].raw # res[t] /\ current[t].stamp > 0
                        THEN overtaken \union {res[t]} ELSE overtaken
        /\ pc' = [pc EXCEPT ![t] = "assign"]
        /\ UNCHANGED <<ptr, held, own, arg, op, current, res, won, calls>>
        /\ ModifyState(t, res[t], -1, current[t].stamp)
    BY DEF Settle, At, Goto
  <1>c. /\ pc'[t] = "assign"
    BY <1>k, <1>p DEF TypeOK, Pointers, LocalInPlace
  <1>f. Frame(t)
    BY <1>k, <1>p DEF Frame, TypeOK
  <1>t. LocalTypeOK'
    BY <1>k, <1>p DEF LocalTypeOK, TypeOK, Labels, Pointers, LocalInPlace
  <1>l. LocalInPlace(t)'
    BY <1>k, <1>p, <1>c DEF LocalInPlace
  <1>s. StampFits'
    BY <1>k, <1>p, <1>c, <1>f, StampStays DEF Frame
  <1>b. Modifies(t, res[t], -1, current[t].stamp)
    <2> SUFFICES ASSUME NEW o \in Objects
                 PROVE  /\ StrongKept(t, o, IF o = res[t] THEN -1 ELSE 0)
                        /\ BasicKept(t, o, IF o = res[t] THEN current[t].stamp ELSE 0, 0)
      BY DEF Modifies
    <2>0. o # nullptr
      BY SharedPtrAssumption
    <2>1. StrongKept(t, o, IF o = res[t] THEN -1 ELSE 0)
      BY <1>k, <1>p, <1>c, <2>0 DEF StrongKept, StrongOf, One, Prepared, LocalInPlace
    <2>2. BasicKept(t, o, IF o = res[t] THEN current[t].stamp ELSE 0, 0)
      BY <1>k, <1>p, <1>c, <2>0 DEF BasicKept, HandlesOf, One, DebtOf, Owes, InRegister, LocalInPlace
    <2> QED BY <2>1, <2>2
  <1>o. overtaken \subseteq overtaken'
    BY <1>p
  <1>h. /\ ModifyState(t, res[t], -1, current[t].stamp) /\ -1 \in Int /\ current[t].stamp \in Int
        /\ dying[t] = nullptr /\ overtaken \subseteq overtaken'
        /\ res[t] \in Pointers /\ (res[t] # nullptr => res[t] \in alive)
    BY <1>k, <1>o, <1>p
  <1>i. RegisterIInv'
    BY ONLY RegisterIInv, t \in Threads, <1>h, <1>f, <1>t, <1>l, <1>s, <1>b, StepOfModifyState
  <1>m. Implements(t)
    BY <1>k, <1>p, <1>c, <1>f DEF Implements, Looks, Turns, Keeps, New, Phase, Seen, LocalInPlace
  <1> QED BY <1>i, <1>m

\* The old object of `held` is released for the loaded one.
LEMMA MoveAssignStep == ASSUME RegisterIInv, NEW t \in Threads, MoveAssign(t) PROVE RegisterIInv' /\ Implements(t)
  <1>k. /\ TypeOK /\ StampFits /\ LocalInPlace(t) /\ arg[t] \in Pointers /\ held[t] \in Pointers /\ res[t] \in Pointers
        /\ op[t] \in {"none", "Load", "Store", "Cas"}
        /\ ptr \in Stamped /\ ptr.raw \in Pointers /\ ptr.stamp \in 0 .. kMaxStamp
        /\ current[t].raw \in Pointers /\ current[t].stamp \in 0 .. kMaxStamp
        /\ kMaxStamp \in Nat \ {0} /\ nullptr \in Pointers
        /\ held[t] # nullptr => held[t] \in alive
    BY Known, Lives
  <1>p. /\ pc[t] = "assign" /\ dying[t] = nullptr
        /\ held' = [held EXCEPT ![t] = res[t]]
        /\ res' = [res EXCEPT ![t] = nullptr]
        /\ pc' = [pc EXCEPT ![t] = IF op[t] = "Cas" THEN "cancel" ELSE "drop"]
        /\ UNCHANGED <<ptr, own, arg, op, current, won, calls, overtaken>>
        /\ ModifyState(t, held[t], 0, -1)
    BY DEF MoveAssign, At, Goto
  <1>c. /\ pc'[t] = (IF op[t] = "Cas" THEN "cancel" ELSE "drop")
        /\ held'[t] = res[t] /\ res'[t] = nullptr
    BY <1>k, <1>p DEF TypeOK
  <1>f. Frame(t)
    BY <1>k, <1>p DEF Frame, TypeOK
  <1>t. LocalTypeOK'
    BY <1>k, <1>p DEF LocalTypeOK, TypeOK, Labels
  <1>l. LocalInPlace(t)'
    BY <1>k, <1>p, <1>c DEF LocalInPlace
  <1>s. StampFits'
    BY <1>k, <1>p, <1>c, <1>f, StampStays DEF Frame
  <1>b. Modifies(t, held[t], 0, -1)
    <2> SUFFICES ASSUME NEW o \in Objects
                 PROVE  /\ StrongKept(t, o, IF o = held[t] THEN 0 ELSE 0)
                        /\ BasicKept(t, o, IF o = held[t] THEN -1 ELSE 0, 0)
      BY DEF Modifies
    <2>0. o # nullptr
      BY SharedPtrAssumption
    <2>1. StrongKept(t, o, 0)
      BY <1>k, <1>p, <1>c, <2>0 DEF StrongKept, StrongOf, One, Prepared, LocalInPlace
    <2>2. BasicKept(t, o, IF o = held[t] THEN -1 ELSE 0, 0)
      BY <1>k, <1>p, <1>c, <2>0 DEF BasicKept, HandlesOf, One, DebtOf, Owes, InRegister, LocalInPlace
    <2> QED BY <2>1, <2>2
  <1>h. /\ ModifyState(t, held[t], 0, -1) /\ 0 \in Int /\ -1 \in Int
        /\ dying[t] = nullptr /\ overtaken \subseteq overtaken'
        /\ held[t] \in Pointers /\ (held[t] # nullptr => held[t] \in alive)
    BY <1>k, <1>p
  <1>i. RegisterIInv'
    BY ONLY RegisterIInv, t \in Threads, <1>h, <1>f, <1>t, <1>l, <1>s, <1>b, StepOfModifyState
  <1>m. Implements(t)
    BY <1>k, <1>p, <1>c, <1>f DEF Implements, Looks, Returns, Turns, Keeps, New, Phase, Seen, LocalInPlace
  <1> QED BY <1>i, <1>m

\* The argument is destroyed.
LEMMA DropStep == ASSUME RegisterIInv, NEW t \in Threads, Drop(t) PROVE RegisterIInv' /\ Implements(t)
  <1>k. /\ TypeOK /\ StampFits /\ LocalInPlace(t) /\ arg[t] \in Pointers /\ held[t] \in Pointers /\ res[t] \in Pointers
        /\ op[t] \in {"none", "Load", "Store", "Cas"}
        /\ ptr \in Stamped /\ ptr.raw \in Pointers /\ ptr.stamp \in 0 .. kMaxStamp
        /\ current[t].raw \in Pointers /\ current[t].stamp \in 0 .. kMaxStamp
        /\ kMaxStamp \in Nat \ {0} /\ nullptr \in Pointers
        /\ arg[t] # nullptr => arg[t] \in alive
    BY Known, Lives
  <1>p. /\ pc[t] = "drop" /\ dying[t] = nullptr
        /\ arg' = [arg EXCEPT ![t] = nullptr]
        /\ op' = [op EXCEPT ![t] = "none"]
        /\ current' = [current EXCEPT ![t] = Null]
        /\ pc' = [pc EXCEPT ![t] = "idle"]
        /\ UNCHANGED <<ptr, held, own, res, won, calls, overtaken>>
        /\ ModifyState(t, arg[t], 0, -1)
    BY DEF Drop, At, Goto
  <1>c. /\ pc'[t] = "idle" /\ op'[t] = "none" /\ arg'[t] = nullptr
    BY <1>k, <1>p DEF TypeOK, Null, Stamped
  <1>f. Frame(t)
    BY <1>k, <1>p DEF Frame, TypeOK
  <1>t. LocalTypeOK'
    BY <1>k, <1>p DEF LocalTypeOK, TypeOK, Labels, Null, Stamped
  <1>l. LocalInPlace(t)'
    BY <1>k, <1>p, <1>c DEF LocalInPlace
  <1>s. StampFits'
    BY <1>k, <1>p, <1>c, <1>f, StampStays DEF Frame
  <1>b. Modifies(t, arg[t], 0, -1)
    <2> SUFFICES ASSUME NEW o \in Objects
                 PROVE  /\ StrongKept(t, o, IF o = arg[t] THEN 0 ELSE 0)
                        /\ BasicKept(t, o, IF o = arg[t] THEN -1 ELSE 0, 0)
      BY DEF Modifies
    <2>0. o # nullptr
      BY SharedPtrAssumption
    <2>1. StrongKept(t, o, 0)
      BY <1>k, <1>p, <1>c, <2>0 DEF StrongKept, StrongOf, One, Prepared, LocalInPlace
    <2>2. BasicKept(t, o, IF o = arg[t] THEN -1 ELSE 0, 0)
      BY <1>k, <1>p, <1>c, <2>0 DEF BasicKept, HandlesOf, One, DebtOf, Owes, InRegister, LocalInPlace
    <2> QED BY <2>1, <2>2
  <1>h. /\ ModifyState(t, arg[t], 0, -1) /\ 0 \in Int /\ -1 \in Int
        /\ dying[t] = nullptr /\ overtaken \subseteq overtaken'
        /\ arg[t] \in Pointers /\ (arg[t] # nullptr => arg[t] \in alive)
    BY <1>k, <1>p
  <1>i. RegisterIInv'
    BY ONLY RegisterIInv, t \in Threads, <1>h, <1>f, <1>t, <1>l, <1>s, <1>b, StepOfModifyState
  <1>m. Implements(t)
    BY <1>k, <1>p, <1>c, <1>f DEF Implements, Looks, Turns, Keeps, New, Phase, Seen, LocalInPlace
  <1> QED BY <1>i, <1>m

\* The exchange takes the pointer out of the register, or reloads `current`.
LEMMA CompareStep == ASSUME RegisterIInv, NEW t \in Threads, Compare(t) PROVE RegisterIInv' /\ Implements(t)
  <1>k. /\ TypeOK /\ StampFits /\ LocalInPlace(t) /\ arg[t] \in Pointers /\ held[t] \in Pointers /\ res[t] \in Pointers
        /\ op[t] \in {"none", "Load", "Store", "Cas"}
        /\ ptr \in Stamped /\ ptr.raw \in Pointers /\ ptr.stamp \in 0 .. kMaxStamp
        /\ current[t].raw \in Pointers /\ current[t].stamp \in 0 .. kMaxStamp
        /\ kMaxStamp \in Nat \ {0} /\ nullptr \in Pointers
    BY Known, Lives
  <1>1. CASE ptr = current[t]
    <2>p. /\ pc[t] = "compare" /\ dying[t] = nullptr /\ current[t].raw = held[t]
          /\ ptr' = [raw |-> arg[t], stamp |-> 0]
          /\ won' = [won EXCEPT ![t] = TRUE]
          /\ pc' = [pc EXCEPT ![t] = "charge"]
          /\ UNCHANGED <<heap, held, own, arg, op, current, res, calls, overtaken>>
      BY <1>1 DEF Compare, At, Goto, CompareExchangeWeak
    <2>c. /\ pc'[t] = "charge"
          /\ ptr'.raw = arg[t] /\ ptr'.stamp = 0
      BY <1>k, <1>1, <2>p DEF TypeOK, Stamped
    <2>f. Frame(t)
      BY <1>k, <1>1, <2>p DEF Frame, TypeOK
    <2>t. LocalTypeOK'
      BY <1>k, <1>1, <2>p DEF LocalTypeOK, TypeOK, Labels, Stamped
    <2>l. LocalInPlace(t)'
      BY <1>k, <1>1, <2>p, <2>c DEF LocalInPlace
    <2>s. StampFits'
      BY <1>k, <1>1, <2>p, <2>c, <2>f, StampStays DEF Frame
    <2>b. \A o \in Objects : StrongKept(t, o, 0) /\ BasicKept(t, o, 0, 0)
      <3> TAKE o \in Objects
      <3>0. o # nullptr
        BY SharedPtrAssumption
      <3>1. StrongKept(t, o, 0)
        BY <1>k, <1>1, <2>p, <2>c, <3>0 DEF StrongKept, StrongOf, One, Prepared, LocalInPlace
      <3>2. BasicKept(t, o, 0, 0)
        BY <1>k, <1>1, <2>p, <2>c, <3>0 DEF BasicKept, HandlesOf, One, DebtOf, Owes, InRegister, LocalInPlace
      <3> QED BY <3>1, <3>2
    <2>i. RegisterIInv'
      BY <1>k, <1>1, <2>p, <2>f, <2>t, <2>l, <2>s, <2>b, StepOfHeap
    <2>m. Implements(t)
      BY <1>k, <1>1, <2>p, <2>c, <2>f DEF Implements, Writes, Turns, New, Phase, Seen, LocalInPlace
    <2> QED BY <2>i, <2>m
  <1>2. CASE ptr # current[t]
    <2>p. /\ pc[t] = "compare" /\ dying[t] = nullptr /\ current[t].raw = held[t]
          /\ current' = [current EXCEPT ![t] = ptr]
          /\ won' = [won EXCEPT ![t] = FALSE]
          /\ pc' = [pc EXCEPT ![t] = "compare"]
          /\ UNCHANGED <<ptr, heap, held, own, arg, op, res, calls, overtaken>>
      BY <1>2 DEF Compare, At, Goto, CompareExchangeWeak
    <2>c. /\ pc'[t] = "compare" /\ current'[t] = ptr
      BY <1>k, <2>p DEF TypeOK
    <2>f. Frame(t)
      BY <1>k, <2>p DEF Frame, TypeOK
    <2>t. LocalTypeOK'
      BY <1>k, <2>p DEF LocalTypeOK, TypeOK, Labels
    <2>l. LocalInPlace(t)'
      BY <1>k, <2>p, <2>c DEF LocalInPlace
    <2>s. StampFits'
      BY <1>k, <2>p, <2>c, <2>f, StampStays DEF Frame
    <2>b. \A o \in Objects : StrongKept(t, o, 0) /\ BasicKept(t, o, 0, 0)
      <3> TAKE o \in Objects
      <3>0. o # nullptr
        BY SharedPtrAssumption
      <3>1. StrongKept(t, o, 0)
        BY <1>k, <2>p, <2>c, <3>0 DEF StrongKept, StrongOf, One, Prepared, LocalInPlace
      <3>2. BasicKept(t, o, 0, 0)
        BY <1>k, <2>p, <2>c, <3>0 DEF BasicKept, HandlesOf, One, DebtOf, Owes, InRegister, LocalInPlace
      <3> QED BY <3>1, <3>2
    <2>i. RegisterIInv'
      BY <1>k, <2>p, <2>f, <2>t, <2>l, <2>s, <2>b, StepOfHeap
    <2>m. Implements(t)
      BY <1>k, <2>p, <2>c, <2>f DEF Implements, Looks, Loses, Turns, Keeps, New, Phase, Seen, LocalInPlace
    <2> QED BY <2>i, <2>m
  <1> QED BY <1>1, <1>2

\* The stamp counts the new reference: every thread beyond the half counts once.
LEMMA BumpStep == ASSUME RegisterIInv, NEW t \in Threads, Bump(t) PROVE RegisterIInv' /\ Implements(t)
  <1>k. /\ TypeOK /\ StampFits /\ LocalInPlace(t) /\ arg[t] \in Pointers /\ held[t] \in Pointers /\ res[t] \in Pointers
        /\ op[t] \in {"none", "Load", "Store", "Cas"}
        /\ ptr \in Stamped /\ ptr.raw \in Pointers /\ ptr.stamp \in 0 .. kMaxStamp
        /\ current[t].raw \in Pointers /\ current[t].stamp \in 0 .. kMaxStamp
        /\ kMaxStamp \in Nat \ {0} /\ nullptr \in Pointers
    BY Known, Lives
  <1>a. /\ pc[t] = "bump" /\ dying[t] = nullptr
        /\ UNCHANGED <<heap, held, own, arg, op, won, calls, overtaken>>
        /\ res[t] = nullptr
    BY <1>k DEF Bump, At, LocalInPlace
  <1>1. CASE ptr = current[t]
    <2>1. PICK stamp : stamp = (current[t].stamp + 1) % (kMaxStamp + 1)
      OBVIOUS
    <2>2. ptr.stamp < kMaxStamp /\ (MustFlush(ptr.stamp + 1) => ptr.stamp + 1 <= kMaxStamp \div 2 + Cardinality(Flushing \union {t}))
      <3>1. t \notin Flushing
        BY <1>a DEF Flushing
      <3>2. /\ Cardinality(Flushing) \in Nat
            /\ Cardinality(Flushing \union {t}) = Cardinality(Flushing) + 1
        BY <3>1, FlushingIsFinite, FS_AddElement
      <3>3. Cardinality(Flushing \union {t}) <= Cardinality(Threads) /\ Cardinality(Threads) \in Nat
        <4>1. Flushing \union {t} \subseteq Threads
          BY DEF Flushing
        <4> QED BY <4>1, FS_Subset, FS_CardinalityType, SharedPtrAssumption
      <3>4. kMaxStamp \div 2 \in Nat /\ kMaxStamp - kMaxStamp \div 2 >= Cardinality(Threads)
        BY <1>k, EnoughStamps
      <3> QED BY <1>k, <3>2, <3>3, <3>4 DEF StampFits
    <2>3. stamp = ptr.stamp + 1
      BY <1>k, <1>1, <2>1, <2>2
    <2>p. /\ ptr' = [raw |-> ptr.raw, stamp |-> ptr.stamp + 1]
          /\ res' = [res EXCEPT ![t] = ptr.raw]
          /\ pc' = [pc EXCEPT ![t] = IF MustFlush(ptr.stamp + 1) THEN "raise" ELSE "assign"]
          /\ ptr.raw # nullptr
          /\ UNCHANGED <<current>>
      BY <1>k, <1>a, <1>1, <2>1, <2>3 DEF Bump, Goto, CompareExchangeWeak, LocalInPlace
    <2>c. /\ pc'[t] = IF MustFlush(ptr.stamp + 1) THEN "raise" ELSE "assign"
          /\ res'[t] = ptr.raw
          /\ ptr'.raw = ptr.raw /\ ptr'.stamp = ptr.stamp + 1
      BY <1>k, <1>a, <1>1, <2>p DEF TypeOK
    <2>f. Frame(t)
      BY <1>k, <1>a, <1>1, <2>p DEF Frame, TypeOK
    <2>t. LocalTypeOK'
      BY <1>k, <1>a, <1>1, <2>2, <2>p DEF LocalTypeOK, TypeOK, Labels, Stamped
    <2>l. LocalInPlace(t)'
      BY <1>k, <1>a, <1>1, <2>p, <2>c DEF LocalInPlace
    <2>s. StampFits'
      <3>1. /\ Cardinality(Flushing) \in Nat /\ IsFiniteSet(Flushing') /\ Cardinality(Flushing') \in Nat
            /\ kMaxStamp \div 2 \in Nat
        BY <1>k, FlushingIsFinite, FS_Subset, FS_CardinalityType, SharedPtrAssumption DEF Flushing
      <3>2. CASE MustFlush(ptr.stamp + 1)
        <4>1. Flushing \union {t} \subseteq Flushing'
          BY <1>a, <2>c, <2>f, <3>2 DEF Flushing, Frame
        <4>2. Cardinality(Flushing \union {t}) <= Cardinality(Flushing') /\ Cardinality(Flushing \union {t}) \in Nat
          BY <3>1, <4>1, FS_Subset, FS_CardinalityType
        <4> QED BY <1>k, <2>2, <2>c, <3>1, <3>2, <4>2 DEF StampFits
      <3>3. CASE ~ MustFlush(ptr.stamp + 1)
        BY <1>k, <2>c, <3>1, <3>3 DEF StampFits, MustFlush
      <3> QED BY <3>2, <3>3
    <2>b. \A o \in Objects : StrongKept(t, o, 0) /\ BasicKept(t, o, 0, 0)
      <3> TAKE o \in Objects
      <3>0. o # nullptr
        BY SharedPtrAssumption
      <3>1. StrongKept(t, o, 0)
        BY <1>k, <1>a, <1>1, <2>p, <2>c, <3>0 DEF StrongKept, StrongOf, One, Prepared, LocalInPlace
      <3>2. BasicKept(t, o, 0, 0)
        BY <1>k, <1>a, <1>1, <2>p, <2>c, <3>0 DEF BasicKept, HandlesOf, One, DebtOf, Owes, InRegister, LocalInPlace
      <3> QED BY <3>1, <3>2
    <2>i. RegisterIInv'
      BY <1>a, <2>p, <2>f, <2>t, <2>l, <2>s, <2>b, StepOfHeap
    <2>m. Implements(t)
      BY <1>k, <1>a, <1>1, <2>p, <2>c, <2>f DEF Implements, Loads, Turns, Keeps, New, Phase, Seen, LocalInPlace
    <2> QED BY <2>i, <2>m
  <1>2. CASE ptr # current[t]
    <2>p. /\ current' = [current EXCEPT ![t] = ptr]
          /\ pc' = [pc EXCEPT ![t] = IF ptr.raw = nullptr THEN "assign" ELSE "bump"]
          /\ UNCHANGED <<ptr, res>>
      BY <1>2 DEF Bump, Goto, CompareExchangeWeak
    <2>c. /\ pc'[t] = IF ptr.raw = nullptr THEN "assign" ELSE "bump"
          /\ current'[t] = ptr
      BY <1>k, <1>a, <2>p DEF TypeOK
    <2>f. Frame(t)
      BY <1>k, <1>a, <2>p DEF Frame, TypeOK
    <2>t. LocalTypeOK'
      BY <1>k, <1>a, <2>p DEF LocalTypeOK, TypeOK, Labels
    <2>l. LocalInPlace(t)'
      BY <1>k, <1>a, <2>p, <2>c DEF LocalInPlace
    <2>s. StampFits'
      BY <1>k, <1>a, <2>p, <2>c, <2>f, StampStays DEF Frame
    <2>b. \A o \in Objects : StrongKept(t, o, 0) /\ BasicKept(t, o, 0, 0)
      <3> TAKE o \in Objects
      <3>0. o # nullptr
        BY SharedPtrAssumption
      <3>1. StrongKept(t, o, 0)
        BY <1>k, <1>a, <2>p, <2>c, <3>0 DEF StrongKept, StrongOf, One, Prepared, LocalInPlace
      <3>2. BasicKept(t, o, 0, 0)
        BY <1>k, <1>a, <2>p, <2>c, <3>0 DEF BasicKept, HandlesOf, One, DebtOf, Owes, InRegister, LocalInPlace
      <3> QED BY <3>1, <3>2
    <2>i. RegisterIInv'
      BY <1>a, <2>p, <2>f, <2>t, <2>l, <2>s, <2>b, StepOfHeap
    <2>m. Implements(t)
      BY <1>k, <1>a, <2>p, <2>c, <2>f DEF Implements, Looks, Loads, Turns, Keeps, New, Phase, Seen, LocalInPlace
    <2> QED BY <2>i, <2>m
  <1> QED BY <1>1, <1>2

\* The stamp is taken out of the register, which keeps the pointer.
LEMMA FlushStep == ASSUME RegisterIInv, NEW t \in Threads, Flush(t) PROVE RegisterIInv' /\ Implements(t)
  <1>k. /\ TypeOK /\ StampFits /\ LocalInPlace(t) /\ arg[t] \in Pointers /\ held[t] \in Pointers /\ res[t] \in Pointers
        /\ op[t] \in {"none", "Load", "Store", "Cas"}
        /\ ptr \in Stamped /\ ptr.raw \in Pointers /\ ptr.stamp \in 0 .. kMaxStamp
        /\ current[t].raw \in Pointers /\ current[t].stamp \in 0 .. kMaxStamp
        /\ kMaxStamp \in Nat \ {0} /\ nullptr \in Pointers
    BY Known, Lives
  <1>a. /\ pc[t] = "flush" /\ dying[t] = nullptr
        /\ pc' = [pc EXCEPT ![t] = IF ptr = current[t] \/ ptr.raw # res[t] THEN "settle" ELSE "flush"]
        /\ UNCHANGED <<heap, held, own, arg, op, res, won, calls, overtaken>>
        /\ res[t] # nullptr /\ current[t].raw = res[t]
    BY <1>k DEF Flush, At, Goto, LocalInPlace
  <1>1. CASE ptr = current[t]
    <2>p. /\ ptr' = [raw |-> res[t], stamp |-> 0]
          /\ UNCHANGED current
      BY <1>1 DEF Flush, CompareExchangeWeak
    <2>c. /\ pc'[t] = "settle"
          /\ ptr'.raw = ptr.raw /\ ptr'.stamp = 0
      BY <1>k, <1>a, <1>1, <2>p DEF TypeOK, Stamped
    <2>f. Frame(t)
      BY <1>k, <1>a, <1>1, <2>p DEF Frame, TypeOK
    <2>t. LocalTypeOK'
      BY <1>k, <1>a, <1>1, <2>p DEF LocalTypeOK, TypeOK, Labels, Stamped
    <2>l. LocalInPlace(t)'
      BY <1>k, <1>a, <1>1, <2>p, <2>c DEF LocalInPlace
    <2>s. StampFits'
      BY <1>k, <1>a, <1>1, <2>p, <2>c, <2>f, StampStays DEF Frame
    <2>b. \A o \in Objects : StrongKept(t, o, 0) /\ BasicKept(t, o, 0, 0)
      <3> TAKE o \in Objects
      <3>0. o # nullptr
        BY SharedPtrAssumption
      <3>1. StrongKept(t, o, 0)
        BY <1>k, <1>a, <1>1, <2>p, <2>c, <3>0 DEF StrongKept, StrongOf, One, Prepared, LocalInPlace
      <3>2. BasicKept(t, o, 0, 0)
        BY <1>k, <1>a, <1>1, <2>p, <2>c, <3>0 DEF BasicKept, HandlesOf, One, DebtOf, Owes, InRegister, LocalInPlace
      <3> QED BY <3>1, <3>2
    <2>i. RegisterIInv'
      BY <1>a, <2>p, <2>f, <2>t, <2>l, <2>s, <2>b, StepOfHeap
    <2>m. Implements(t)
      BY <1>k, <1>a, <1>1, <2>p, <2>c, <2>f DEF Implements, Looks, Turns, Keeps, New, Phase, Seen, LocalInPlace
    <2> QED BY <2>i, <2>m
  <1>2. CASE ptr # current[t]
    <2>p. /\ current' = [current EXCEPT ![t] = ptr]
          /\ UNCHANGED ptr
      BY <1>2 DEF Flush, CompareExchangeWeak
    <2>c. /\ pc'[t] = IF ptr.raw # res[t] THEN "settle" ELSE "flush"
          /\ current'[t] = ptr
      BY <1>k, <1>a, <1>2, <2>p DEF TypeOK
    <2>f. Frame(t)
      BY <1>k, <1>a, <1>2, <2>p DEF Frame, TypeOK
    <2>t. LocalTypeOK'
      BY <1>k, <1>a, <1>2, <2>p DEF LocalTypeOK, TypeOK, Labels
    <2>l. LocalInPlace(t)'
      BY <1>k, <1>a, <1>2, <2>p, <2>c DEF LocalInPlace
    <2>s. StampFits'
      BY <1>k, <1>a, <1>2, <2>p, <2>c, <2>f, StampStays DEF Frame
    <2>b. \A o \in Objects : StrongKept(t, o, 0) /\ BasicKept(t, o, 0, 0)
      <3> TAKE o \in Objects
      <3>0. o # nullptr
        BY SharedPtrAssumption
      <3>1. StrongKept(t, o, 0)
        BY <1>k, <1>a, <1>2, <2>p, <2>c, <3>0 DEF StrongKept, StrongOf, One, Prepared, LocalInPlace
      <3>2. BasicKept(t, o, 0, 0)
        BY <1>k, <1>a, <1>2, <2>p, <2>c, <3>0 DEF BasicKept, HandlesOf, One, DebtOf, Owes, InRegister, LocalInPlace
      <3> QED BY <3>1, <3>2
    <2>i. RegisterIInv'
      BY <1>a, <2>p, <2>f, <2>t, <2>l, <2>s, <2>b, StepOfHeap
    <2>m. Implements(t)
      BY <1>k, <1>a, <1>2, <2>p, <2>c, <2>f DEF Implements, Looks, Turns, Keeps, New, Phase, Seen, LocalInPlace
    <2> QED BY <2>i, <2>m
  <1> QED BY <1>1, <1>2

\* The member that t destroys is given up; the next one may take its place.
LEMMA CascadeStep == ASSUME RegisterIInv, NEW t \in Threads, Cascade(t) PROVE RegisterIInv' /\ Implements(t)
  <1>1. PICK p : p = dying[t]
    OBVIOUS
  <1>k. TypeOK /\ StampFits /\ p \in Objects /\ p \in alive /\ next \in [Objects -> Pointers]
    <2>1. p # nullptr /\ p \in Pointers
      BY <1>1, Known DEF Cascade
    <2> QED BY <1>1, <2>1, Known, Lives DEF Pointers, TypeOK
  <1>p. /\ p # nullptr /\ ModifyStateOf(t, p, 0, -1, next)
        /\ ptr' = ptr /\ held' = held /\ own' = own /\ arg' = arg /\ op' = op /\ pc' = pc /\ current' = current
        /\ res' = res /\ won' = won /\ calls' = calls /\ overtaken' = overtaken
    BY <1>1 DEF Cascade, ModifyState
  <1>t. TypeOK'
    <2>1. HeapTypeOK'
      BY <1>1, <1>k, <1>p, ModifyStateTypes DEF ModifyState, Pointers
    <2> QED BY <1>k, <1>p, <2>1 DEF HeapTypeOK, TypeOK
  <1>b. \A o \in Objects :
           /\ StrongKept(t, o, IF o = p THEN 0 ELSE 0)
           /\ BasicKept(t, o, IF o = p THEN -1 ELSE 0, One(dying[t] = o) + One(next[p] = o) - One(next[p] = o))
    <2> TAKE o \in Objects
    <2>1. StrongKept(t, o, 0)
      BY <1>p DEF StrongKept, StrongOf, One, Prepared
    <2>2. /\ InRegister(o) \in Int /\ DebtOf(t, o) \in Int /\ HandlesOf(t, o) \in Int
          /\ InRegister(o)' = InRegister(o) /\ DebtOf(t, o)' = DebtOf(t, o) /\ HandlesOf(t, o)' = HandlesOf(t, o)
      BY <1>p, Known DEF HandlesOf, One, DebtOf, Owes, InRegister
    <2>3. (IF o = p THEN -1 ELSE 0) + (One(dying[t] = o) + One(next[p] = o) - One(next[p] = o)) = 0
      BY <1>1 DEF One
    <2> QED BY <2>1, <2>2, <2>3 DEF BasicKept, One
  <1>f. Frame(t) /\ overtaken \subseteq overtaken'
    BY <1>p DEF Frame
  <1>2. \A o \in Objects : Balanced(o)'
    BY <1>k, <1>p, <1>t, <1>b, <1>f, ModifyKeeps DEF RegisterIInv
  <1>3. StampFits'
    BY <1>k, <1>p, StampStays
  <1>4. \A u \in Threads : LocalInPlace(u)'
    BY <1>p DEF RegisterIInv, LocalInPlace
  <1>m. Implements(t)
    BY <1>p, <1>f DEF Implements, Looks, Keeps, New, Phase, Seen
  <1> QED BY <1>t, <1>2, <1>3, <1>4, <1>m DEF RegisterIInv

-----------------------------------------------------------------------------
\* The steps of the clients.

\* A step that makes the object p.
LEMMA StepOfConstruct ==
  ASSUME RegisterIInv, NEW t \in Threads, Frame(t), NEW p \in Objects \ alive, Construct(p),
         overtaken \subseteq overtaken', LocalTypeOK', LocalInPlace(t)', StampFits',
         \A o \in Objects : StrongKept(t, o, 0) /\ BasicKept(t, o, IF o = p THEN 1 ELSE 0, 0)
  PROVE  RegisterIInv'
  <1>1. TypeOK /\ (\A o \in Objects : Balanced(o)) /\ \A u \in Threads : LocalInPlace(u)
    BY DEF RegisterIInv
  <1>2. /\ count' = [count EXCEPT ![p] = [strong |-> 0, basic |-> 1]] /\ alive' = alive \union {p}
        /\ next' = next /\ dying' = dying
    BY DEF Construct
  <1>3. TypeOK'
    BY <1>1, <1>2 DEF TypeOK, LocalTypeOK
  <1>4. \A o \in Objects : Balanced(o)'
    <2> SUFFICES ASSUME NEW o \in Objects PROVE Balanced(o)'
      OBVIOUS
    <2>1. PICK bi \in Int : bi = IF o = p THEN 1 ELSE 0
      OBVIOUS
    <2>2. count[p] = Zero /\ count[o] \in [strong : Int, basic : Int] /\ count \in [Objects -> [strong : Int, basic : Int]]
      BY <1>1 DEF Balanced, Zero, TypeOK
    <2>3. count'[o] = [strong |-> count[o].strong + 0, basic |-> count[o].basic + bi]
      BY <1>2, <2>1, <2>2 DEF Zero
    <2>4. Members(o) \in Int /\ Members(o)' = Members(o) - 0
      <3>1. HowMany(dying, Threads, o) \in Nat /\ HowMany(next, Objects, o) \in Nat
        BY HowManyZero, SharedPtrAssumption
      <3>2. Members(o) = HowMany(dying, Threads, o) + HowMany(next, Objects, o)
        BY DEF Members
      <3>3. Members(o)' = HowMany(dying, Threads, o) + HowMany(next, Objects, o)
        BY <1>2 DEF Members, HowMany
      <3> QED BY <3>1, <3>2, <3>3
    <2>5. Balanced(o)
      BY <1>1
    <2>6. (o \in alive' <=> count'[o] # Zero) /\ (o \notin alive' => next'[o] = nullptr)
      BY <1>2, <2>1, <2>2, <2>5 DEF Balanced, Zero
    <2>7. StrongKept(t, o, 0) /\ BasicKept(t, o, bi, 0)
      BY <2>1
    <2> QED BY <1>1, <1>3, <2>3, <2>4, <2>5, <2>6, <2>7, BalanceOne
  <1>5. \A u \in Threads : LocalInPlace(u)'
    BY <1>1 DEF Frame, LocalInPlace
  <1> QED BY <1>3, <1>4, <1>5 DEF RegisterIInv

\* MakeShared.
LEMMA MakeSharedStep == ASSUME RegisterIInv, NEW t \in Threads, MakeShared(t) PROVE RegisterIInv' /\ Implements(t)
  <1>k. /\ TypeOK /\ StampFits /\ LocalInPlace(t)
        /\ held[t] \in Pointers /\ own[t] \in Pointers /\ arg[t] \in Pointers /\ res[t] \in Pointers
        /\ op[t] \in {"none", "Load", "Store", "Cas"}
        /\ ptr \in Stamped /\ ptr.raw \in Pointers /\ ptr.stamp \in 0 .. kMaxStamp
        /\ current[t].raw \in Pointers /\ current[t].stamp \in 0 .. kMaxStamp
        /\ kMaxStamp \in Nat \ {0} /\ nullptr \in Pointers /\ Null \in Stamped
        /\ held[t] # nullptr => held[t] \in alive
        /\ own[t] # nullptr => own[t] \in alive
        /\ ptr.raw # nullptr => ptr.raw \in alive
    BY Known, Lives
  <1>1. PICK p \in Objects \ alive : Construct(p) /\ own' = [own EXCEPT ![t] = p]
    BY DEF MakeShared
  <1>p. /\ pc[t] = "idle" /\ dying[t] = nullptr
        /\ own[t] = nullptr
        /\ UNCHANGED <<ptr, held, arg, op, pc, current, res, won, calls, overtaken>>
        /\ own' = [own EXCEPT ![t] = p] /\ p \in Pointers
        /\ Construct(p)
    BY <1>1 DEF MakeShared, At, Local, Pointers
  <1>c. /\ own'[t] = p
    BY <1>k, <1>p DEF TypeOK
  <1>f. Frame(t)
    BY <1>k, <1>p DEF Frame, TypeOK
  <1>t. LocalTypeOK'
    BY <1>k, <1>p DEF LocalTypeOK, TypeOK, Labels
  <1>l. LocalInPlace(t)'
    BY <1>k, <1>p, <1>c DEF LocalInPlace
  <1>s. StampFits'
    BY <1>k, <1>p, <1>c, <1>f, StampStays DEF Frame, Null
  <1>b. \A o \in Objects : StrongKept(t, o, 0) /\ BasicKept(t, o, IF o = p THEN 1 ELSE 0, 0)
    <2> TAKE o \in Objects
    <2>0. o # nullptr
      BY SharedPtrAssumption
    <2>1. StrongKept(t, o, 0)
      BY <1>k, <1>p, <1>c, <2>0 DEF StrongKept, StrongOf, One, Prepared, LocalInPlace, Null
    <2>2. BasicKept(t, o, IF o = p THEN 1 ELSE 0, 0)
      BY <1>k, <1>p, <1>c, <2>0 DEF BasicKept, HandlesOf, One, DebtOf, Owes, InRegister, LocalInPlace, Null
    <2> QED BY <2>1, <2>2
  <1>i. RegisterIInv'
    BY <1>1, <1>p, <1>f, <1>t, <1>l, <1>s, <1>b, StepOfConstruct
  <1>m. Implements(t)
    BY <1>k, <1>p, <1>c, <1>f DEF Implements, Looks, Turns, Keeps, New, Phase, Seen, LocalInPlace
  <1> QED BY <1>i, <1>m

\* The release of held = own ...
LEMMA CopyAssignStep == ASSUME RegisterIInv, NEW t \in Threads, CopyAssign(t) PROVE RegisterIInv' /\ Implements(t)
  <1>k. /\ TypeOK /\ StampFits /\ LocalInPlace(t)
        /\ held[t] \in Pointers /\ own[t] \in Pointers /\ arg[t] \in Pointers /\ res[t] \in Pointers
        /\ op[t] \in {"none", "Load", "Store", "Cas"}
        /\ ptr \in Stamped /\ ptr.raw \in Pointers /\ ptr.stamp \in 0 .. kMaxStamp
        /\ current[t].raw \in Pointers /\ current[t].stamp \in 0 .. kMaxStamp
        /\ kMaxStamp \in Nat \ {0} /\ nullptr \in Pointers /\ Null \in Stamped
        /\ held[t] # nullptr => held[t] \in alive
        /\ own[t] # nullptr => own[t] \in alive
        /\ ptr.raw # nullptr => ptr.raw \in alive
    BY Known, Lives
  <1>p. /\ pc[t] = "idle" /\ dying[t] = nullptr
        /\ held' = [held EXCEPT ![t] = nullptr]
        /\ pc' = [pc EXCEPT ![t] = "acquire"]
        /\ UNCHANGED <<ptr, own, arg, op, current, res, won, calls, overtaken>>
        /\ ModifyState(t, held[t], 0, -1)
    BY DEF CopyAssign, At, Local, Goto
  <1>c. /\ pc'[t] = "acquire" /\ held'[t] = nullptr
    BY <1>k, <1>p DEF TypeOK
  <1>f. Frame(t)
    BY <1>k, <1>p DEF Frame, TypeOK
  <1>t. LocalTypeOK'
    BY <1>k, <1>p DEF LocalTypeOK, TypeOK, Labels
  <1>l. LocalInPlace(t)'
    BY <1>k, <1>p, <1>c DEF LocalInPlace
  <1>s. StampFits'
    BY <1>k, <1>p, <1>c, <1>f, StampStays DEF Frame, Null
  <1>b. Modifies(t, held[t], 0, -1)
    <2> SUFFICES ASSUME NEW o \in Objects
                 PROVE  /\ StrongKept(t, o, IF o = held[t] THEN 0 ELSE 0)
                        /\ BasicKept(t, o, IF o = held[t] THEN -1 ELSE 0, 0)
      BY DEF Modifies
    <2>0. o # nullptr
      BY SharedPtrAssumption
    <2>1. StrongKept(t, o, 0)
      BY <1>k, <1>p, <1>c, <2>0 DEF StrongKept, StrongOf, One, Prepared, LocalInPlace, Null
    <2>2. BasicKept(t, o, IF o = held[t] THEN -1 ELSE 0, 0)
      BY <1>k, <1>p, <1>c, <2>0 DEF BasicKept, HandlesOf, One, DebtOf, Owes, InRegister, LocalInPlace, Null
    <2> QED BY <2>1, <2>2
  <1>h. /\ ModifyState(t, held[t], 0, -1) /\ 0 \in Int /\ -1 \in Int
        /\ dying[t] = nullptr /\ overtaken \subseteq overtaken'
        /\ held[t] \in Pointers /\ (held[t] # nullptr => held[t] \in alive)
    BY <1>k, <1>p
  <1>i. RegisterIInv'
    BY ONLY RegisterIInv, t \in Threads, <1>h, <1>f, <1>t, <1>l, <1>s, <1>b, StepOfModifyState
  <1>m. Implements(t)
    BY <1>k, <1>p, <1>c, <1>f DEF Implements, Looks, Turns, Keeps, New, Phase, Seen, LocalInPlace
  <1> QED BY <1>i, <1>m

\* ... and its acquisition.
LEMMA AcquireStep == ASSUME RegisterIInv, NEW t \in Threads, Acquire(t) PROVE RegisterIInv' /\ Implements(t)
  <1>k. /\ TypeOK /\ StampFits /\ LocalInPlace(t)
        /\ held[t] \in Pointers /\ own[t] \in Pointers /\ arg[t] \in Pointers /\ res[t] \in Pointers
        /\ op[t] \in {"none", "Load", "Store", "Cas"}
        /\ ptr \in Stamped /\ ptr.raw \in Pointers /\ ptr.stamp \in 0 .. kMaxStamp
        /\ current[t].raw \in Pointers /\ current[t].stamp \in 0 .. kMaxStamp
        /\ kMaxStamp \in Nat \ {0} /\ nullptr \in Pointers /\ Null \in Stamped
        /\ held[t] # nullptr => held[t] \in alive
        /\ own[t] # nullptr => own[t] \in alive
        /\ ptr.raw # nullptr => ptr.raw \in alive
    BY Known, Lives
  <1>p. /\ pc[t] = "acquire" /\ dying[t] = nullptr
        /\ held' = [held EXCEPT ![t] = own[t]]
        /\ pc' = [pc EXCEPT ![t] = "idle"]
        /\ UNCHANGED <<ptr, own, arg, op, current, res, won, calls, overtaken>>
        /\ ModifyState(t, own[t], 0, 1)
    BY DEF Acquire, At, Local, Goto
  <1>c. /\ pc'[t] = "idle" /\ held'[t] = own[t]
    BY <1>k, <1>p DEF TypeOK
  <1>f. Frame(t)
    BY <1>k, <1>p DEF Frame, TypeOK
  <1>t. LocalTypeOK'
    BY <1>k, <1>p DEF LocalTypeOK, TypeOK, Labels
  <1>l. LocalInPlace(t)'
    BY <1>k, <1>p, <1>c DEF LocalInPlace
  <1>s. StampFits'
    BY <1>k, <1>p, <1>c, <1>f, StampStays DEF Frame, Null
  <1>b. Modifies(t, own[t], 0, 1)
    <2> SUFFICES ASSUME NEW o \in Objects
                 PROVE  /\ StrongKept(t, o, IF o = own[t] THEN 0 ELSE 0)
                        /\ BasicKept(t, o, IF o = own[t] THEN 1 ELSE 0, 0)
      BY DEF Modifies
    <2>0. o # nullptr
      BY SharedPtrAssumption
    <2>1. StrongKept(t, o, 0)
      BY <1>k, <1>p, <1>c, <2>0 DEF StrongKept, StrongOf, One, Prepared, LocalInPlace, Null
    <2>2. BasicKept(t, o, IF o = own[t] THEN 1 ELSE 0, 0)
      BY <1>k, <1>p, <1>c, <2>0 DEF BasicKept, HandlesOf, One, DebtOf, Owes, InRegister, LocalInPlace, Null
    <2> QED BY <2>1, <2>2
  <1>h. /\ ModifyState(t, own[t], 0, 1) /\ 0 \in Int /\ 1 \in Int
        /\ dying[t] = nullptr /\ overtaken \subseteq overtaken'
        /\ own[t] \in Pointers /\ (own[t] # nullptr => own[t] \in alive)
    BY <1>k, <1>p
  <1>i. RegisterIInv'
    BY ONLY RegisterIInv, t \in Threads, <1>h, <1>f, <1>t, <1>l, <1>s, <1>b, StepOfModifyState
  <1>m. Implements(t)
    BY <1>k, <1>p, <1>c, <1>f DEF Implements, Looks, Turns, Keeps, New, Phase, Seen, LocalInPlace
  <1> QED BY <1>i, <1>m

\* A SharedPtr is destroyed.
LEMMA ResetStep == ASSUME RegisterIInv, NEW t \in Threads, Reset(t) PROVE RegisterIInv' /\ Implements(t)
  <1>k. /\ TypeOK /\ StampFits /\ LocalInPlace(t)
        /\ held[t] \in Pointers /\ own[t] \in Pointers /\ arg[t] \in Pointers /\ res[t] \in Pointers
        /\ op[t] \in {"none", "Load", "Store", "Cas"}
        /\ ptr \in Stamped /\ ptr.raw \in Pointers /\ ptr.stamp \in 0 .. kMaxStamp
        /\ current[t].raw \in Pointers /\ current[t].stamp \in 0 .. kMaxStamp
        /\ kMaxStamp \in Nat \ {0} /\ nullptr \in Pointers /\ Null \in Stamped
        /\ held[t] # nullptr => held[t] \in alive
        /\ own[t] # nullptr => own[t] \in alive
        /\ ptr.raw # nullptr => ptr.raw \in alive
    BY Known, Lives
  <1>1. CASE held[t] # nullptr /\ ModifyState(t, held[t], 0, -1) /\ held' = [held EXCEPT ![t] = nullptr] /\ UNCHANGED own
    <2>p. /\ pc[t] = "idle" /\ dying[t] = nullptr
          /\ held' = [held EXCEPT ![t] = nullptr]
          /\ UNCHANGED <<ptr, own, arg, op, pc, current, res, won, calls, overtaken>>
          /\ ModifyState(t, held[t], 0, -1)
      BY <1>1 DEF Reset, At, Local
    <2>c. /\ held'[t] = nullptr
      BY <1>k, <2>p DEF TypeOK
    <2>f. Frame(t)
      BY <1>k, <2>p DEF Frame, TypeOK
    <2>t. LocalTypeOK'
      BY <1>k, <2>p DEF LocalTypeOK, TypeOK, Labels
    <2>l. LocalInPlace(t)'
      BY <1>k, <2>p, <2>c DEF LocalInPlace
    <2>s. StampFits'
      BY <1>k, <2>p, <2>c, <2>f, StampStays DEF Frame, Null
    <2>b. Modifies(t, held[t], 0, -1)
      <3> SUFFICES ASSUME NEW o \in Objects
                   PROVE  /\ StrongKept(t, o, IF o = held[t] THEN 0 ELSE 0)
                          /\ BasicKept(t, o, IF o = held[t] THEN -1 ELSE 0, 0)
        BY DEF Modifies
      <3>0. o # nullptr
        BY SharedPtrAssumption
      <3>1. StrongKept(t, o, 0)
        BY <1>k, <2>p, <2>c, <3>0 DEF StrongKept, StrongOf, One, Prepared, LocalInPlace, Null
      <3>2. BasicKept(t, o, IF o = held[t] THEN -1 ELSE 0, 0)
        BY <1>k, <2>p, <2>c, <3>0 DEF BasicKept, HandlesOf, One, DebtOf, Owes, InRegister, LocalInPlace, Null
      <3> QED BY <3>1, <3>2
    <2>h. /\ ModifyState(t, held[t], 0, -1) /\ 0 \in Int /\ -1 \in Int
          /\ dying[t] = nullptr /\ overtaken \subseteq overtaken'
          /\ held[t] \in Pointers /\ (held[t] # nullptr => held[t] \in alive)
      BY <1>k, <2>p
    <2>i. RegisterIInv'
      BY ONLY RegisterIInv, t \in Threads, <2>h, <2>f, <2>t, <2>l, <2>s, <2>b, StepOfModifyState
    <2>m. Implements(t)
      BY <1>k, <2>p, <2>c, <2>f DEF Implements, Looks, Turns, Keeps, New, Phase, Seen, LocalInPlace
    <2> QED BY <2>i, <2>m
  <1>2. CASE own[t] # nullptr /\ ModifyState(t, own[t], 0, -1) /\ own' = [own EXCEPT ![t] = nullptr] /\ UNCHANGED held
    <2>p. /\ pc[t] = "idle" /\ dying[t] = nullptr
          /\ own' = [own EXCEPT ![t] = nullptr]
          /\ UNCHANGED <<ptr, held, arg, op, pc, current, res, won, calls, overtaken>>
          /\ ModifyState(t, own[t], 0, -1)
      BY <1>2 DEF Reset, At, Local
    <2>c. /\ own'[t] = nullptr
      BY <1>k, <2>p DEF TypeOK
    <2>f. Frame(t)
      BY <1>k, <2>p DEF Frame, TypeOK
    <2>t. LocalTypeOK'
      BY <1>k, <2>p DEF LocalTypeOK, TypeOK, Labels
    <2>l. LocalInPlace(t)'
      BY <1>k, <2>p, <2>c DEF LocalInPlace
    <2>s. StampFits'
      BY <1>k, <2>p, <2>c, <2>f, StampStays DEF Frame, Null
    <2>b. Modifies(t, own[t], 0, -1)
      <3> SUFFICES ASSUME NEW o \in Objects
                   PROVE  /\ StrongKept(t, o, IF o = own[t] THEN 0 ELSE 0)
                          /\ BasicKept(t, o, IF o = own[t] THEN -1 ELSE 0, 0)
        BY DEF Modifies
      <3>0. o # nullptr
        BY SharedPtrAssumption
      <3>1. StrongKept(t, o, 0)
        BY <1>k, <2>p, <2>c, <3>0 DEF StrongKept, StrongOf, One, Prepared, LocalInPlace, Null
      <3>2. BasicKept(t, o, IF o = own[t] THEN -1 ELSE 0, 0)
        BY <1>k, <2>p, <2>c, <3>0 DEF BasicKept, HandlesOf, One, DebtOf, Owes, InRegister, LocalInPlace, Null
      <3> QED BY <3>1, <3>2
    <2>h. /\ ModifyState(t, own[t], 0, -1) /\ 0 \in Int /\ -1 \in Int
          /\ dying[t] = nullptr /\ overtaken \subseteq overtaken'
          /\ own[t] \in Pointers /\ (own[t] # nullptr => own[t] \in alive)
      BY <1>k, <2>p
    <2>i. RegisterIInv'
      BY ONLY RegisterIInv, t \in Threads, <2>h, <2>f, <2>t, <2>l, <2>s, <2>b, StepOfModifyState
    <2>m. Implements(t)
      BY <1>k, <2>p, <2>c, <2>f DEF Implements, Looks, Turns, Keeps, New, Phase, Seen, LocalInPlace
    <2> QED BY <2>i, <2>m
  <1> QED BY <1>1, <1>2 DEF Reset

\* The register is destroyed when nobody calls it, and charged like any that is taken out.
LEMMA DestroyStep == ASSUME RegisterIInv, NEW t \in Threads, Destroy(t) PROVE RegisterIInv' /\ Renews
  <1>k. /\ TypeOK /\ StampFits /\ LocalInPlace(t)
        /\ held[t] \in Pointers /\ own[t] \in Pointers /\ arg[t] \in Pointers /\ res[t] \in Pointers
        /\ op[t] \in {"none", "Load", "Store", "Cas"}
        /\ ptr \in Stamped /\ ptr.raw \in Pointers /\ ptr.stamp \in 0 .. kMaxStamp
        /\ current[t].raw \in Pointers /\ current[t].stamp \in 0 .. kMaxStamp
        /\ kMaxStamp \in Nat \ {0} /\ nullptr \in Pointers /\ Null \in Stamped
        /\ held[t] # nullptr => held[t] \in alive
        /\ own[t] # nullptr => own[t] \in alive
        /\ ptr.raw # nullptr => ptr.raw \in alive
    BY Known, Lives
  <1>p. /\ pc[t] = "idle" /\ dying[t] = nullptr
        /\ ptr' = Null
        /\ UNCHANGED <<held, own, arg, op, pc, current, res, won, calls, overtaken>>
        /\ ModifyState(t, ptr.raw, -1, ptr.stamp)
    BY DEF Destroy, At
  <1>c. /\ ptr'.raw = nullptr /\ ptr'.stamp = 0
    BY <1>k, <1>p DEF TypeOK, Null
  <1>f. Frame(t)
    BY <1>k, <1>p DEF Frame, TypeOK
  <1>t. LocalTypeOK'
    BY <1>k, <1>p DEF LocalTypeOK, TypeOK, Labels, Null
  <1>l. LocalInPlace(t)'
    BY <1>k, <1>p, <1>c DEF LocalInPlace
  <1>s. StampFits'
    BY <1>k, <1>p, <1>c, <1>f, StampStays DEF Frame, Null
  <1>b. Modifies(t, ptr.raw, -1, ptr.stamp)
    <2> SUFFICES ASSUME NEW o \in Objects
                 PROVE  /\ StrongKept(t, o, IF o = ptr.raw THEN -1 ELSE 0)
                        /\ BasicKept(t, o, IF o = ptr.raw THEN ptr.stamp ELSE 0, 0)
      BY DEF Modifies
    <2>0. o # nullptr
      BY SharedPtrAssumption
    <2>1. StrongKept(t, o, IF o = ptr.raw THEN -1 ELSE 0)
      BY <1>k, <1>p, <1>c, <2>0 DEF StrongKept, StrongOf, One, Prepared, LocalInPlace, Null
    <2>2. BasicKept(t, o, IF o = ptr.raw THEN ptr.stamp ELSE 0, 0)
      BY <1>k, <1>p, <1>c, <2>0 DEF BasicKept, HandlesOf, One, DebtOf, Owes, InRegister, LocalInPlace, Null
    <2> QED BY <2>1, <2>2
  <1>h. /\ ModifyState(t, ptr.raw, -1, ptr.stamp) /\ -1 \in Int /\ ptr.stamp \in Int
        /\ dying[t] = nullptr /\ overtaken \subseteq overtaken'
        /\ ptr.raw \in Pointers /\ (ptr.raw # nullptr => ptr.raw \in alive)
    BY <1>k, <1>p
  <1>i. RegisterIInv'
    BY ONLY RegisterIInv, t \in Threads, <1>h, <1>f, <1>t, <1>l, <1>s, <1>b, StepOfModifyState
  <1>m. Renews
    <2>1. \A u \in Threads : pc[u] = "idle"
      BY DEF Destroy, At
    <2>2. \A u \in Threads : Phase(u) = "idle"
      BY <2>1 DEF Phase
    <2> QED BY <1>p, <1>c, <2>2 DEF Renews
  <1> QED BY <1>i, <1>m

\* A call with a copy of p.
LEMMA BeginCopy ==
  ASSUME RegisterIInv, NEW t \in Threads, NEW name, NEW label, (name = "Store" /\ label = "strong") \/ (name = "Cas" /\ label = "peek"),
         Begin(t, name, label), NEW p \in Pointers, p # nullptr => p \in alive, CopyConstruct(t, p),
         calls' \in 0 .. MaxCalls
  PROVE  RegisterIInv' /\ Implements(t)
  <1>k. /\ TypeOK /\ StampFits /\ LocalInPlace(t)
        /\ held[t] \in Pointers /\ own[t] \in Pointers /\ arg[t] \in Pointers /\ res[t] \in Pointers
        /\ op[t] \in {"none", "Load", "Store", "Cas"}
        /\ ptr \in Stamped /\ ptr.raw \in Pointers /\ ptr.stamp \in 0 .. kMaxStamp
        /\ current[t].raw \in Pointers /\ current[t].stamp \in 0 .. kMaxStamp
        /\ kMaxStamp \in Nat \ {0} /\ nullptr \in Pointers /\ Null \in Stamped
        /\ held[t] # nullptr => held[t] \in alive
        /\ own[t] # nullptr => own[t] \in alive
        /\ ptr.raw # nullptr => ptr.raw \in alive
    BY Known, Lives
  <1>p. /\ pc[t] = "idle" /\ dying[t] = nullptr
        /\ op' = [op EXCEPT ![t] = name] /\ won' = [won EXCEPT ![t] = FALSE] /\ pc' = [pc EXCEPT ![t] = label]
        /\ arg' = [arg EXCEPT ![t] = p]
        /\ calls' \in 0 .. MaxCalls
        /\ UNCHANGED <<ptr, held, own, current, res, overtaken>>
        /\ ModifyState(t, p, 0, 1)
    BY DEF Begin, CopyConstruct, At, Goto
  <1>c. /\ pc'[t] = label /\ op'[t] = name /\ arg'[t] = p
    BY <1>k, <1>p DEF TypeOK
  <1>f. Frame(t)
    BY <1>k, <1>p DEF Frame, TypeOK
  <1>t. LocalTypeOK'
    BY <1>k, <1>p DEF LocalTypeOK, TypeOK, Labels
  <1>l. LocalInPlace(t)'
    BY <1>k, <1>p, <1>c DEF LocalInPlace
  <1>s. StampFits'
    BY <1>k, <1>p, <1>c, <1>f, StampStays DEF Frame, Null
  <1>b. Modifies(t, p, 0, 1)
    <2> SUFFICES ASSUME NEW o \in Objects
                 PROVE  /\ StrongKept(t, o, IF o = p THEN 0 ELSE 0)
                        /\ BasicKept(t, o, IF o = p THEN 1 ELSE 0, 0)
      BY DEF Modifies
    <2>0. o # nullptr
      BY SharedPtrAssumption
    <2>1. StrongKept(t, o, 0)
      BY <1>k, <1>p, <1>c, <2>0 DEF StrongKept, StrongOf, One, Prepared, LocalInPlace, Null
    <2>2. BasicKept(t, o, IF o = p THEN 1 ELSE 0, 0)
      BY <1>k, <1>p, <1>c, <2>0 DEF BasicKept, HandlesOf, One, DebtOf, Owes, InRegister, LocalInPlace, Null
    <2> QED BY <2>1, <2>2
  <1>h. /\ ModifyState(t, p, 0, 1) /\ 0 \in Int /\ 1 \in Int
        /\ dying[t] = nullptr /\ overtaken \subseteq overtaken'
        /\ p \in Pointers /\ (p # nullptr => p \in alive)
    BY <1>p
  <1>i. RegisterIInv'
    BY ONLY RegisterIInv, t \in Threads, <1>h, <1>f, <1>t, <1>l, <1>s, <1>b, StepOfModifyState
  <1>m. Implements(t)
    BY <1>k, <1>p, <1>c, <1>f DEF Implements, Calls, Turns, New, Phase, Seen, LocalInPlace
  <1> QED BY <1>i, <1>m

\* A call with the pointer that was made.
LEMMA BeginMove ==
  ASSUME RegisterIInv, NEW t \in Threads, NEW name, NEW label, (name = "Store" /\ label = "strong") \/ (name = "Cas" /\ label = "peek"),
         Begin(t, name, label), MoveConstruct(t),
         calls' \in 0 .. MaxCalls
  PROVE  RegisterIInv' /\ Implements(t)
  <1>k. /\ TypeOK /\ StampFits /\ LocalInPlace(t)
        /\ held[t] \in Pointers /\ own[t] \in Pointers /\ arg[t] \in Pointers /\ res[t] \in Pointers
        /\ op[t] \in {"none", "Load", "Store", "Cas"}
        /\ ptr \in Stamped /\ ptr.raw \in Pointers /\ ptr.stamp \in 0 .. kMaxStamp
        /\ current[t].raw \in Pointers /\ current[t].stamp \in 0 .. kMaxStamp
        /\ kMaxStamp \in Nat \ {0} /\ nullptr \in Pointers /\ Null \in Stamped
        /\ held[t] # nullptr => held[t] \in alive
        /\ own[t] # nullptr => own[t] \in alive
        /\ ptr.raw # nullptr => ptr.raw \in alive
    BY Known, Lives
  <1>p. /\ pc[t] = "idle" /\ dying[t] = nullptr
        /\ op' = [op EXCEPT ![t] = name] /\ won' = [won EXCEPT ![t] = FALSE] /\ pc' = [pc EXCEPT ![t] = label]
        /\ arg' = [arg EXCEPT ![t] = own[t]] /\ own' = [own EXCEPT ![t] = nullptr]
        /\ calls' \in 0 .. MaxCalls
        /\ UNCHANGED <<heap, ptr, held, current, res, overtaken>>
    BY DEF Begin, MoveConstruct, At, Goto
  <1>c. /\ pc'[t] = label /\ op'[t] = name
        /\ arg'[t] = own[t] /\ own'[t] = nullptr
    BY <1>k, <1>p DEF TypeOK
  <1>f. Frame(t)
    BY <1>k, <1>p DEF Frame, TypeOK
  <1>t. LocalTypeOK'
    BY <1>k, <1>p DEF LocalTypeOK, TypeOK, Labels
  <1>l. LocalInPlace(t)'
    BY <1>k, <1>p, <1>c DEF LocalInPlace
  <1>s. StampFits'
    BY <1>k, <1>p, <1>c, <1>f, StampStays DEF Frame, Null
  <1>b. \A o \in Objects : StrongKept(t, o, 0) /\ BasicKept(t, o, 0, 0)
    <2> TAKE o \in Objects
    <2>0. o # nullptr
      BY SharedPtrAssumption
    <2>1. StrongKept(t, o, 0)
      BY <1>k, <1>p, <1>c, <2>0 DEF StrongKept, StrongOf, One, Prepared, LocalInPlace, Null
    <2>2. BasicKept(t, o, 0, 0)
      BY <1>k, <1>p, <1>c, <2>0 DEF BasicKept, HandlesOf, One, DebtOf, Owes, InRegister, LocalInPlace, Null
    <2> QED BY <2>1, <2>2
  <1>i. RegisterIInv'
    BY <1>k, <1>p, <1>f, <1>t, <1>l, <1>s, <1>b, StepOfHeap
  <1>m. Implements(t)
    BY <1>k, <1>p, <1>c, <1>f DEF Implements, Calls, Turns, New, Phase, Seen, LocalInPlace
  <1> QED BY <1>i, <1>m

\* A call without an argument.
LEMMA BeginLoad ==
  ASSUME RegisterIInv, NEW t \in Threads, Begin(t, "Load", "load"), UNCHANGED <<heap, own, arg>>,
         calls' \in 0 .. MaxCalls
  PROVE  RegisterIInv' /\ Implements(t)
  <1>k. /\ TypeOK /\ StampFits /\ LocalInPlace(t)
        /\ held[t] \in Pointers /\ own[t] \in Pointers /\ arg[t] \in Pointers /\ res[t] \in Pointers
        /\ op[t] \in {"none", "Load", "Store", "Cas"}
        /\ ptr \in Stamped /\ ptr.raw \in Pointers /\ ptr.stamp \in 0 .. kMaxStamp
        /\ current[t].raw \in Pointers /\ current[t].stamp \in 0 .. kMaxStamp
        /\ kMaxStamp \in Nat \ {0} /\ nullptr \in Pointers /\ Null \in Stamped
        /\ held[t] # nullptr => held[t] \in alive
        /\ own[t] # nullptr => own[t] \in alive
        /\ ptr.raw # nullptr => ptr.raw \in alive
    BY Known, Lives
  <1>p. /\ pc[t] = "idle" /\ dying[t] = nullptr
        /\ op' = [op EXCEPT ![t] = "Load"] /\ won' = [won EXCEPT ![t] = FALSE] /\ pc' = [pc EXCEPT ![t] = "load"]
        /\ calls' \in 0 .. MaxCalls
        /\ UNCHANGED <<heap, own, arg, ptr, held, current, res, overtaken>>
    BY DEF Begin, At, Goto
  <1>c. /\ pc'[t] = "load" /\ op'[t] = "Load"
    BY <1>k, <1>p DEF TypeOK
  <1>f. Frame(t)
    BY <1>k, <1>p DEF Frame, TypeOK
  <1>t. LocalTypeOK'
    BY <1>k, <1>p DEF LocalTypeOK, TypeOK, Labels
  <1>l. LocalInPlace(t)'
    BY <1>k, <1>p, <1>c DEF LocalInPlace
  <1>s. StampFits'
    BY <1>k, <1>p, <1>c, <1>f, StampStays DEF Frame, Null
  <1>b. \A o \in Objects : StrongKept(t, o, 0) /\ BasicKept(t, o, 0, 0)
    <2> TAKE o \in Objects
    <2>0. o # nullptr
      BY SharedPtrAssumption
    <2>1. StrongKept(t, o, 0)
      BY <1>k, <1>p, <1>c, <2>0 DEF StrongKept, StrongOf, One, Prepared, LocalInPlace, Null
    <2>2. BasicKept(t, o, 0, 0)
      BY <1>k, <1>p, <1>c, <2>0 DEF BasicKept, HandlesOf, One, DebtOf, Owes, InRegister, LocalInPlace, Null
    <2> QED BY <2>1, <2>2
  <1>i. RegisterIInv'
    BY <1>k, <1>p, <1>f, <1>t, <1>l, <1>s, <1>b, StepOfHeap
  <1>m. Implements(t)
    BY <1>k, <1>p, <1>c, <1>f DEF Implements, Calls, Turns, New, Phase, Seen, LocalInPlace
  <1> QED BY <1>i, <1>m

-----------------------------------------------------------------------------
\* The jobs of the stack.

Jobs == {"none", "push", "pop", "take", "again"}

\* A step that makes no push begin or end keeps the nodes of the pushers apart.
LEMMA JobsMove ==
  ASSUME TypeOK, JobsInPlace, client' = client, job' \in [Threads -> Jobs], own' = own,
         \A u \in Threads : Pushes(u)' <=> Pushes(u),
         \A q \in Objects : next'[q] = next[q] \/ next'[q] = nullptr
  PROVE  JobsInPlace'
  <1>1. \A u \in Threads : own[u] # nullptr => own[u] \in Objects
    BY DEF TypeOK, Pointers
  <1>2. \A u \in Threads : Pushes(u) => next'[own[u]] = nullptr
    BY <1>1 DEF JobsInPlace
  <1> QED BY <1>2 DEF JobsInPlace, Jobs, Pushes

\* No step of the register makes or gives up a node.
LEMMA RegisterKeepsJobs ==
  ASSUME IInv, NEW t \in Threads, RegisterStep(t), UNCHANGED <<client, job>>
  PROVE  JobsInPlace'
  <1>k. /\ TypeOK /\ JobsInPlace /\ RegisterIInv
        /\ arg[t] \in Pointers /\ held[t] \in Pointers /\ res[t] \in Pointers /\ dying[t] \in Pointers
        /\ current[t].raw \in Pointers /\ current[t].stamp \in Int
    BY Known DEF IInv
  <1>1. own' = own /\ \A q \in Objects : next'[q] = next[q] \/ next'[q] = nullptr
    <2>1. CASE UNCHANGED <<heap, own>>
      BY <2>1 DEF heap
    <2>2. ASSUME NEW p \in Pointers, NEW s \in Int, NEW b \in Int, ModifyState(t, p, s, b), own' = own
          PROVE  own' = own /\ \A q \in Objects : next'[q] = next[q] \/ next'[q] = nullptr
      BY <1>k, <2>2, ModifyStateTypes
    <2>3. CASE Strong(t)
      BY <1>k, <2>2, <2>3 DEF Strong
    <2>4. CASE Charge(t)
      BY <1>k, <2>2, <2>4 DEF Charge
    <2>5. CASE Cancel(t)
      BY <1>k, <2>2, <2>5 DEF Cancel
    <2>6. CASE Raise(t)
      BY <1>k, <2>2, <2>6 DEF Raise
    <2>7. CASE Settle(t)
      BY <1>k, <2>2, <2>7 DEF Settle
    <2>8. CASE MoveAssign(t)
      BY <1>k, <2>2, <2>8 DEF MoveAssign
    <2>9. CASE Drop(t)
      BY <1>k, <2>2, <2>9 DEF Drop
    <2>10. CASE Cascade(t)
      BY <1>k, <2>2, <2>10 DEF Cascade
    <2>11. CASE Exchange(t) \/ Peek(t) \/ Compare(t) \/ CompareFails(t) \/ LoadRead(t) \/ Bump(t) \/ Flush(t)
      BY <2>1, <2>11 DEF Exchange, Peek, Compare, CompareFails, LoadRead, Bump, Flush
    <2> QED BY <2>3, <2>4, <2>5, <2>6, <2>7, <2>8, <2>9, <2>10, <2>11 DEF RegisterStep
  <1>2. job' \in [Threads -> Jobs] /\ client' = client /\ \A u \in Threads : Pushes(u)' <=> Pushes(u)
    BY <1>k DEF JobsInPlace, Jobs, Pushes
  <1> QED BY <1>k, <1>1, <1>2, JobsMove

\* Every step of the register.
LEMMA RegisterStepKeeps ==
  ASSUME RegisterIInv, NEW t \in Threads, RegisterStep(t)
  PROVE  RegisterIInv' /\ Implements(t)
  BY StrongStep, ExchangeStep, ChargeStep, PeekStep, CompareStep, CompareFailsStep, CancelStep, LoadReadStep,
     BumpStep, RaiseStep, FlushStep, SettleStep, MoveAssignStep, DropStep, CascadeStep DEF RegisterStep

\* A step that leaves the register alone.
LEMMA RegisterStutters == ASSUME RegisterIInv, UNCHANGED vars PROVE RegisterIInv'
  <1>1. /\ ptr' = ptr /\ count' = count /\ alive' = alive /\ next' = next /\ dying' = dying /\ held' = held /\ own' = own
        /\ arg' = arg /\ op' = op /\ pc' = pc /\ current' = current /\ res' = res /\ won' = won /\ calls' = calls
        /\ overtaken' = overtaken
    BY DEF vars, heap
  <1>2. TypeOK'
    BY <1>1 DEF RegisterIInv, TypeOK
  <1>3. StampFits' /\ \A t \in Threads : LocalInPlace(t)'
    BY <1>1 DEF RegisterIInv, StampFits, Flushing, LocalInPlace
  <1>4. \A o \in Objects : Balanced(o)'
    <2>1. \A o \in Objects : Handles(o)' = Handles(o) /\ Members(o)' = Members(o)
      BY <1>1 DEF Handles, Members, HowMany
    <2>2. \A o \in Objects : Strongs(o)' = Strongs(o)
      BY <1>1 DEF Strongs, Prepared
    <2>3. \A o \in Objects : Debts(o)' = Debts(o)
      BY <1>1 DEF Debts, DebtOf, Owes, Units
    <2>4. \A o \in Objects : InRegister(o)' = InRegister(o) /\ One(ptr.raw = o)' = One(ptr.raw = o)
      BY <1>1 DEF InRegister, One
    <2> QED BY <1>1, <2>1, <2>2, <2>3, <2>4 DEF RegisterIInv, Balanced
  <1> QED BY <1>2, <1>3, <1>4 DEF RegisterIInv

\* The client that calls as it likes.
LEMMA AnyClientKeeps ==
  ASSUME RegisterIInv, NEW t \in Threads, SharedPtrStep(t) \/ Call(t)
  PROVE  RegisterIInv' /\ (Implements(t) \/ Renews)
  <1>1. CASE SharedPtrStep(t)
    BY <1>1, MakeSharedStep, CopyAssignStep, AcquireStep, ResetStep DEF SharedPtrStep
  <1>2. own[t] \in Pointers /\ nullptr \in Pointers /\ (own[t] # nullptr => own[t] \in alive)
    BY Known, Lives
  <1>3. Spend => calls' \in 0 .. MaxCalls
    BY SharedPtrAssumption DEF Spend, RegisterIInv, TypeOK
  <1>4. CASE CallLoad(t)
    BY <1>3, <1>4, BeginLoad DEF CallLoad
  <1>5. ASSUME NEW name, NEW label, (name = "Store" /\ label = "strong") \/ (name = "Cas" /\ label = "peek"),
               Begin(t, name, label), Spend, Pass(t)
        PROVE  RegisterIInv' /\ Implements(t)
    <2>1. CASE CopyConstruct(t, nullptr)
      BY <1>2, <1>3, <1>5, <2>1, BeginCopy
    <2>2. CASE CopyConstruct(t, own[t])
      BY <1>2, <1>3, <1>5, <2>2, BeginCopy
    <2>3. CASE MoveConstruct(t)
      BY <1>3, <1>5, <2>3, BeginMove
    <2> QED BY <1>5, <2>1, <2>2, <2>3 DEF Pass
  <1>6. CASE CallStore(t)
    BY <1>5, <1>6 DEF CallStore
  <1>7. CASE CallCas(t)
    BY <1>5, <1>7 DEF CallCas
  <1>8. CASE Destroy(t)
    BY <1>8, DestroyStep
  <1> QED BY <1>1, <1>4, <1>6, <1>7, <1>8 DEF Call

\* A new node is of no other thread.
LEMMA PushStep == ASSUME IInv, client = "stack", NEW t \in Threads, Push(t) PROVE IInv' /\ Implements(t)
  <1>k. /\ RegisterIInv /\ JobsInPlace /\ TypeOK /\ StampFits /\ LocalInPlace(t)
        /\ held[t] \in Pointers /\ own[t] \in Pointers /\ arg[t] \in Pointers /\ res[t] \in Pointers
        /\ op[t] \in {"none", "Load", "Store", "Cas"}
        /\ ptr \in Stamped /\ ptr.raw \in Pointers /\ ptr.stamp \in 0 .. kMaxStamp
        /\ current[t].raw \in Pointers /\ current[t].stamp \in 0 .. kMaxStamp
        /\ kMaxStamp \in Nat \ {0} /\ nullptr \in Pointers /\ Null \in Stamped
        /\ held[t] # nullptr => held[t] \in alive
        /\ own[t] # nullptr => own[t] \in alive
        /\ ptr.raw # nullptr => ptr.raw \in alive
    BY Known, Lives DEF IInv
  <1>1. PICK p \in Objects \ alive : Construct(p) /\ own' = [own EXCEPT ![t] = p]
    BY DEF Push
  <1>2. RegisterIInv' /\ Implements(t)
    <2>p. /\ pc[t] = "idle" /\ dying[t] = nullptr
          /\ own[t] = nullptr
          /\ op' = [op EXCEPT ![t] = "Load"] /\ won' = [won EXCEPT ![t] = FALSE] /\ pc' = [pc EXCEPT ![t] = "load"]
          /\ calls' \in 0 .. MaxCalls
          /\ UNCHANGED <<ptr, held, arg, current, res, overtaken>>
          /\ own' = [own EXCEPT ![t] = p] /\ p \in Pointers
      BY <1>k, <1>1, SharedPtrAssumption DEF Push, Become, Begin, Spend, At, Goto, JobsInPlace, Pushes, Pointers, TypeOK
    <2>c. /\ pc'[t] = "load" /\ op'[t] = "Load" /\ own'[t] = p
      BY <1>k, <2>p DEF TypeOK
    <2>f. Frame(t)
      BY <1>k, <2>p DEF Frame, TypeOK
    <2>t. LocalTypeOK'
      BY <1>k, <2>p DEF LocalTypeOK, TypeOK, Labels
    <2>l. LocalInPlace(t)'
      BY <1>k, <2>p, <2>c DEF LocalInPlace
    <2>s. StampFits'
      BY <1>k, <2>p, <2>c, <2>f, StampStays DEF Frame, Null
    <2>b. \A o \in Objects : StrongKept(t, o, 0) /\ BasicKept(t, o, IF o = p THEN 1 ELSE 0, 0)
      <3> TAKE o \in Objects
      <3>0. o # nullptr
        BY SharedPtrAssumption
      <3>1. StrongKept(t, o, 0)
        BY <1>k, <2>p, <2>c, <3>0 DEF StrongKept, StrongOf, One, Prepared, LocalInPlace, Null
      <3>2. BasicKept(t, o, IF o = p THEN 1 ELSE 0, 0)
        BY <1>k, <2>p, <2>c, <3>0 DEF BasicKept, HandlesOf, One, DebtOf, Owes, InRegister, LocalInPlace, Null
      <3> QED BY <3>1, <3>2
    <2>i. RegisterIInv'
      BY <1>k, <1>1, <2>p, <2>f, <2>t, <2>l, <2>s, <2>b, StepOfConstruct
    <2>m. Implements(t)
      BY <1>k, <2>p, <2>c, <2>f DEF Implements, Calls, Turns, New, Phase, Seen, LocalInPlace
    <2> QED BY <2>i, <2>m
  <1>3. JobsInPlace'
    <2>1. /\ job' = [job EXCEPT ![t] = "push"] /\ client' = client /\ next' = next
          /\ job \in [Threads -> Jobs] /\ own' = [own EXCEPT ![t] = p] /\ own \in [Threads -> Pointers]
      BY <1>k, <1>1 DEF Push, Become, Construct, JobsInPlace, Jobs, TypeOK
    <2>2. next[p] = nullptr /\ p # nullptr
      BY <1>k, SharedPtrAssumption DEF RegisterIInv, Balanced
    <2>3. \A u \in Threads : own[u] # p
      BY <1>k, <2>2, Lives
    <2> QED BY <1>k, <2>1, <2>2, <2>3 DEF JobsInPlace, Jobs, Pushes
  <1> QED BY <1>2, <1>3 DEF IInv

\* The node is given to the register by a copy.
LEMMA SwingStep == ASSUME IInv, client = "stack", NEW t \in Threads, Swing(t) PROVE IInv' /\ Implements(t)
  <1>k. /\ RegisterIInv /\ JobsInPlace /\ TypeOK /\ StampFits /\ LocalInPlace(t)
        /\ held[t] \in Pointers /\ own[t] \in Pointers /\ arg[t] \in Pointers /\ res[t] \in Pointers
        /\ op[t] \in {"none", "Load", "Store", "Cas"}
        /\ ptr \in Stamped /\ ptr.raw \in Pointers /\ ptr.stamp \in 0 .. kMaxStamp
        /\ current[t].raw \in Pointers /\ current[t].stamp \in 0 .. kMaxStamp
        /\ kMaxStamp \in Nat \ {0} /\ nullptr \in Pointers /\ Null \in Stamped
        /\ held[t] # nullptr => held[t] \in alive
        /\ own[t] # nullptr => own[t] \in alive
        /\ ptr.raw # nullptr => ptr.raw \in alive
    BY Known, Lives DEF IInv
  <1>1. RegisterIInv' /\ Implements(t)
    <2>1. Begin(t, "Cas", "peek") /\ CopyConstruct(t, own[t]) /\ calls' \in 0 .. MaxCalls
      BY <1>k DEF Swing, TypeOK
    <2> QED BY <1>k, <2>1, BeginCopy
  <1>9. JobsInPlace'
    <2>1. job' = [job EXCEPT ![t] = "push"] /\ client' = client /\ own' = own /\ job[t] = "push"
      BY DEF Swing, Become, Begin, CopyConstruct
    <2>2. \A q \in Objects : next'[q] = next[q] \/ next'[q] = nullptr
      BY <1>k,  ModifyStateTypes DEF Swing, CopyConstruct
    <2>3. job' \in [Threads -> Jobs] /\ \A u \in Threads : Pushes(u)' <=> Pushes(u)
      BY <1>k, <2>1 DEF JobsInPlace, Jobs, Pushes
    <2> QED BY <1>k, <2>1, <2>2, <2>3, JobsMove
  <1> QED BY <1>1, <1>9 DEF IInv

\* A pop begins with a Load.
LEMMA TryPopStep == ASSUME IInv, client = "stack", NEW t \in Threads, TryPop(t) PROVE IInv' /\ Implements(t)
  <1>k. /\ RegisterIInv /\ JobsInPlace /\ TypeOK /\ StampFits /\ LocalInPlace(t)
        /\ held[t] \in Pointers /\ own[t] \in Pointers /\ arg[t] \in Pointers /\ res[t] \in Pointers
        /\ op[t] \in {"none", "Load", "Store", "Cas"}
        /\ ptr \in Stamped /\ ptr.raw \in Pointers /\ ptr.stamp \in 0 .. kMaxStamp
        /\ current[t].raw \in Pointers /\ current[t].stamp \in 0 .. kMaxStamp
        /\ kMaxStamp \in Nat \ {0} /\ nullptr \in Pointers /\ Null \in Stamped
        /\ held[t] # nullptr => held[t] \in alive
        /\ own[t] # nullptr => own[t] \in alive
        /\ ptr.raw # nullptr => ptr.raw \in alive
    BY Known, Lives DEF IInv
  <1>1. RegisterIInv' /\ Implements(t)
    <2>1. Begin(t, "Load", "load") /\ UNCHANGED <<heap, own, arg>> /\ calls' \in 0 .. MaxCalls
      BY <1>k, SharedPtrAssumption DEF TryPop, Spend, TypeOK
    <2> QED BY <1>k, <2>1, BeginLoad
  <1>9. JobsInPlace'
    <2>1. job' = [job EXCEPT ![t] = "pop"] /\ client' = client /\ own' = own /\ job[t] = "none"
      BY DEF TryPop, Become, Begin, CopyConstruct
    <2>2. \A q \in Objects : next'[q] = next[q] \/ next'[q] = nullptr
      BY DEF TryPop, heap
    <2>3. job' \in [Threads -> Jobs] /\ \A u \in Threads : Pushes(u)' <=> Pushes(u)
      BY <1>k, <2>1 DEF JobsInPlace, Jobs, Pushes
    <2> QED BY <1>k, <2>1, <2>2, <2>3, JobsMove
  <1> QED BY <1>1, <1>9 DEF IInv

\* So does its next turn.
LEMMA TryAgainStep == ASSUME IInv, client = "stack", NEW t \in Threads, TryAgain(t) PROVE IInv' /\ Implements(t)
  <1>k. /\ RegisterIInv /\ JobsInPlace /\ TypeOK /\ StampFits /\ LocalInPlace(t)
        /\ held[t] \in Pointers /\ own[t] \in Pointers /\ arg[t] \in Pointers /\ res[t] \in Pointers
        /\ op[t] \in {"none", "Load", "Store", "Cas"}
        /\ ptr \in Stamped /\ ptr.raw \in Pointers /\ ptr.stamp \in 0 .. kMaxStamp
        /\ current[t].raw \in Pointers /\ current[t].stamp \in 0 .. kMaxStamp
        /\ kMaxStamp \in Nat \ {0} /\ nullptr \in Pointers /\ Null \in Stamped
        /\ held[t] # nullptr => held[t] \in alive
        /\ own[t] # nullptr => own[t] \in alive
        /\ ptr.raw # nullptr => ptr.raw \in alive
    BY Known, Lives DEF IInv
  <1>1. RegisterIInv' /\ Implements(t)
    <2>1. Begin(t, "Load", "load") /\ UNCHANGED <<heap, own, arg>> /\ calls' \in 0 .. MaxCalls
      BY <1>k, SharedPtrAssumption DEF TryAgain, Spend, TypeOK
    <2> QED BY <1>k, <2>1, BeginLoad
  <1>9. JobsInPlace'
    <2>1. job' = [job EXCEPT ![t] = "pop"] /\ client' = client /\ own' = own /\ job[t] = "again"
      BY DEF TryAgain, Become, Begin, CopyConstruct
    <2>2. \A q \in Objects : next'[q] = next[q] \/ next'[q] = nullptr
      BY DEF TryAgain, heap
    <2>3. job' \in [Threads -> Jobs] /\ \A u \in Threads : Pushes(u)' <=> Pushes(u)
      BY <1>k, <2>1 DEF JobsInPlace, Jobs, Pushes
    <2> QED BY <1>k, <2>1, <2>2, <2>3, JobsMove
  <1> QED BY <1>1, <1>9 DEF IInv

\* The next node is a member of the node that is held, or held by its pusher.
LEMMA TakeTopStep == ASSUME IInv, client = "stack", NEW t \in Threads, TakeTop(t) PROVE IInv' /\ Implements(t)
  <1>k. /\ RegisterIInv /\ JobsInPlace /\ TypeOK /\ StampFits /\ LocalInPlace(t)
        /\ held[t] \in Pointers /\ own[t] \in Pointers /\ arg[t] \in Pointers /\ res[t] \in Pointers
        /\ op[t] \in {"none", "Load", "Store", "Cas"}
        /\ ptr \in Stamped /\ ptr.raw \in Pointers /\ ptr.stamp \in 0 .. kMaxStamp
        /\ current[t].raw \in Pointers /\ current[t].stamp \in 0 .. kMaxStamp
        /\ kMaxStamp \in Nat \ {0} /\ nullptr \in Pointers /\ Null \in Stamped
        /\ held[t] # nullptr => held[t] \in alive
        /\ own[t] # nullptr => own[t] \in alive
        /\ ptr.raw # nullptr => ptr.raw \in alive
    BY Known, Lives DEF IInv
  <1>1. NextOf(held[t]) \in Pointers /\ (NextOf(held[t]) # nullptr => NextOf(held[t]) \in alive)
    <2>1. held[t] \in Objects
      BY <1>k DEF TakeTop, Pointers
    <2>2. \A u \in Threads : held[u] \in Pointers /\ (held[u] # nullptr => held[u] \in alive)
      BY <1>k, Known, Lives
    <2>3. next[held[t]] \in Pointers /\ (next[held[t]] # nullptr => next[held[t]] \in alive)
      BY <1>k, <2>1, Lives DEF TypeOK
    <2> DEFINE pushers == {u \in Threads : job[u] = "push" /\ own[u] = held[t]}
    <2>4. pushers # {} => (CHOOSE u \in pushers : TRUE) \in Threads
      OBVIOUS
    <2>5. NextOf(held[t]) = IF pushers = {} THEN next[held[t]] ELSE held[CHOOSE u \in pushers : TRUE]
      BY DEF NextOf
    <2> HIDE DEF pushers
    <2> QED BY <2>2, <2>3, <2>4, <2>5
  <1>2. RegisterIInv' /\ Implements(t)
    <2>1. Begin(t, "Cas", "peek") /\ CopyConstruct(t, NextOf(held[t])) /\ calls' \in 0 .. MaxCalls
      BY <1>k DEF TakeTop, TypeOK
    <2> QED BY <1>k, <1>1, <2>1, BeginCopy
  <1>9. JobsInPlace'
    <2>1. job' = [job EXCEPT ![t] = "take"] /\ client' = client /\ own' = own /\ job[t] = "pop"
      BY DEF TakeTop, Become, Begin, CopyConstruct
    <2>2. \A q \in Objects : next'[q] = next[q] \/ next'[q] = nullptr
      BY <1>k, <1>1, ModifyStateTypes DEF TakeTop, CopyConstruct
    <2>3. job' \in [Threads -> Jobs] /\ \A u \in Threads : Pushes(u)' <=> Pushes(u)
      BY <1>k, <2>1 DEF JobsInPlace, Jobs, Pushes
    <2> QED BY <1>k, <2>1, <2>2, <2>3, JobsMove
  <1> QED BY <1>2, <1>9 DEF IInv

\* The top is released.
LEMMA ReleaseTopStep == ASSUME IInv, client = "stack", NEW t \in Threads, ReleaseTop(t) PROVE IInv' /\ Implements(t)
  <1>k. /\ RegisterIInv /\ JobsInPlace /\ TypeOK /\ StampFits /\ LocalInPlace(t)
        /\ held[t] \in Pointers /\ own[t] \in Pointers /\ arg[t] \in Pointers /\ res[t] \in Pointers
        /\ op[t] \in {"none", "Load", "Store", "Cas"}
        /\ ptr \in Stamped /\ ptr.raw \in Pointers /\ ptr.stamp \in 0 .. kMaxStamp
        /\ current[t].raw \in Pointers /\ current[t].stamp \in 0 .. kMaxStamp
        /\ kMaxStamp \in Nat \ {0} /\ nullptr \in Pointers /\ Null \in Stamped
        /\ held[t] # nullptr => held[t] \in alive
        /\ own[t] # nullptr => own[t] \in alive
        /\ ptr.raw # nullptr => ptr.raw \in alive
    BY Known, Lives DEF IInv
  <1>1. RegisterIInv' /\ Implements(t)
    <2>p. /\ pc[t] = "idle" /\ dying[t] = nullptr
          /\ held' = [held EXCEPT ![t] = nullptr]
          /\ won' = [won EXCEPT ![t] = FALSE]
          /\ UNCHANGED <<ptr, own, arg, op, pc, current, res, calls, overtaken>>
          /\ ModifyState(t, held[t], 0, -1)
      BY DEF ReleaseTop, Become, At
    <2>c. /\ held'[t] = nullptr
      BY <1>k, <2>p DEF TypeOK
    <2>f. Frame(t)
      BY <1>k, <2>p DEF Frame, TypeOK
    <2>t. LocalTypeOK'
      BY <1>k, <2>p DEF LocalTypeOK, TypeOK, Labels
    <2>l. LocalInPlace(t)'
      BY <1>k, <2>p, <2>c DEF LocalInPlace
    <2>s. StampFits'
      BY <1>k, <2>p, <2>c, <2>f, StampStays DEF Frame, Null
    <2>b. Modifies(t, held[t], 0, -1)
      <3> SUFFICES ASSUME NEW o \in Objects
                   PROVE  /\ StrongKept(t, o, IF o = held[t] THEN 0 ELSE 0)
                          /\ BasicKept(t, o, IF o = held[t] THEN -1 ELSE 0, 0)
        BY DEF Modifies
      <3>0. o # nullptr
        BY SharedPtrAssumption
      <3>1. StrongKept(t, o, 0)
        BY <1>k, <2>p, <2>c, <3>0 DEF StrongKept, StrongOf, One, Prepared, LocalInPlace, Null
      <3>2. BasicKept(t, o, IF o = held[t] THEN -1 ELSE 0, 0)
        BY <1>k, <2>p, <2>c, <3>0 DEF BasicKept, HandlesOf, One, DebtOf, Owes, InRegister, LocalInPlace, Null
      <3> QED BY <3>1, <3>2
    <2>h. /\ ModifyState(t, held[t], 0, -1) /\ 0 \in Int /\ -1 \in Int
          /\ dying[t] = nullptr /\ overtaken \subseteq overtaken'
          /\ held[t] \in Pointers /\ (held[t] # nullptr => held[t] \in alive)
      BY <1>k, <2>p
    <2>i. RegisterIInv'
      BY ONLY <1>k, t \in Threads, <2>h, <2>f, <2>t, <2>l, <2>s, <2>b, StepOfModifyState
    <2>m. Implements(t)
      BY <1>k, <2>p, <2>c, <2>f DEF Implements, Looks, Turns, Keeps, New, Phase, Seen, LocalInPlace
    <2> QED BY <2>i, <2>m
  <1>9. JobsInPlace'
    <2>1. job' = [job EXCEPT ![t] = (IF won[t] THEN "none" ELSE "again")] /\ client' = client /\ own' = own /\ job[t] = "take"
      BY DEF ReleaseTop, Become, Begin, CopyConstruct
    <2>2. \A q \in Objects : next'[q] = next[q] \/ next'[q] = nullptr
      BY <1>k,  ModifyStateTypes DEF ReleaseTop, CopyConstruct
    <2>3. job' \in [Threads -> Jobs] /\ \A u \in Threads : Pushes(u)' <=> Pushes(u)
      BY <1>k, <2>1 DEF JobsInPlace, Jobs, Pushes
    <2> QED BY <1>k, <2>1, <2>2, <2>3, JobsMove
  <1> QED BY <1>1, <1>9 DEF IInv

\* A pop that finds no node ends.
LEMMA FoundEmptyStep == ASSUME IInv, client = "stack", NEW t \in Threads, FoundEmpty(t) PROVE IInv'
  <1>1. RegisterIInv'
    <2>1. RegisterIInv /\ UNCHANGED vars
      BY DEF IInv, FoundEmpty
    <2> QED BY <2>1, RegisterStutters
  <1>2. JobsInPlace'
    <2>1. /\ TypeOK /\ JobsInPlace /\ job' = [job EXCEPT ![t] = "none"] /\ job[t] = "pop"
          /\ client' = client /\ own' = own /\ next' = next
      BY DEF IInv, RegisterIInv, FoundEmpty, Become, vars, heap
    <2>2. job' \in [Threads -> Jobs] /\ \A u \in Threads : Pushes(u)' <=> Pushes(u)
      BY <2>1 DEF JobsInPlace, Jobs, Pushes
    <2> QED BY <2>1, <2>2, JobsMove
  <1> QED BY <1>1, <1>2 DEF IInv

\* The node gets its Next for good, and is the register's only.
LEMMA PushedStep == ASSUME IInv, client = "stack", NEW t \in Threads, Pushed(t) PROVE IInv' /\ Implements(t)
  <1>k. /\ RegisterIInv /\ JobsInPlace /\ TypeOK /\ StampFits /\ LocalInPlace(t)
        /\ held[t] \in Pointers /\ own[t] \in Pointers /\ arg[t] \in Pointers /\ res[t] \in Pointers
        /\ op[t] \in {"none", "Load", "Store", "Cas"}
        /\ ptr \in Stamped /\ ptr.raw \in Pointers /\ ptr.stamp \in 0 .. kMaxStamp
        /\ current[t].raw \in Pointers /\ current[t].stamp \in 0 .. kMaxStamp
        /\ kMaxStamp \in Nat \ {0} /\ nullptr \in Pointers /\ Null \in Stamped
        /\ held[t] # nullptr => held[t] \in alive
        /\ own[t] # nullptr => own[t] \in alive
        /\ ptr.raw # nullptr => ptr.raw \in alive
    BY Known, Lives DEF IInv
  <1>1. PICK p : p = own[t]
    OBVIOUS
  <1>2. PICK m : m = [next EXCEPT ![p] = held[t]]
    OBVIOUS
  <1>3. /\ p \in Objects /\ p \in alive /\ next[p] = nullptr /\ next \in [Objects -> Pointers]
        /\ \A u \in Threads : u # t /\ Pushes(u) => own[u] \in Objects /\ own[u] # p /\ next[own[u]] = nullptr
    BY <1>k, <1>1 DEF Pushed, Become, JobsInPlace, Pushes, Pointers, TypeOK
  <1>4. m \in [Objects -> Pointers] /\ m[p] = held[t] /\ \A o \in Objects : o # p => m[o] = next[o]
    BY <1>k, <1>2, <1>3
  <1>p. /\ pc[t] = "idle" /\ dying[t] = nullptr /\ ModifyStateOf(t, p, 0, -1, m)
        /\ own' = [own EXCEPT ![t] = nullptr] /\ held' = [held EXCEPT ![t] = nullptr]
        /\ won' = [won EXCEPT ![t] = FALSE]
        /\ UNCHANGED <<ptr, arg, op, pc, current, res, calls, overtaken>>
    BY <1>1, <1>2 DEF Pushed, Become, At
  <1>m. /\ count' \in [Objects -> [strong : Int, basic : Int]]
        /\ \A o \in Objects : o # p => next'[o] = m[o]
        /\ alive' \subseteq alive
        /\ dying' \in [Threads -> Pointers] /\ next' \in [Objects -> Pointers]
    <2>1. TypeOK /\ ModifyStateOf(t, p, 0, -1, m) /\ -1 \in Int /\ 0 \in Int
      BY <1>k, <1>p
    <2>2. /\ count' \in [Objects -> [strong : Int, basic : Int]]
          /\ dying' \in [Threads -> Pointers] /\ next' \in [Objects -> Pointers]
      BY ONLY <2>1, <1>3, <1>4, t \in Threads, ModifyFacts
    <2>3. alive' = IF count'[p] = Zero THEN alive \ {p} ELSE alive
      BY ONLY <2>1, <1>3, <1>4, t \in Threads, ModifyFacts
    <2>4. \A o \in Objects : o # p => next'[o] = m[o]
      BY <1>4, <2>1 DEF ModifyStateOf
    <2> QED BY ONLY <2>2, <2>3, <2>4
  <1>c. own'[t] = nullptr /\ held'[t] = nullptr
    BY <1>k, <1>p DEF TypeOK
  <1>f. Frame(t) /\ overtaken \subseteq overtaken'
    BY <1>k, <1>p DEF Frame, TypeOK
  <1>t. TypeOK'
    BY <1>k, <1>p, <1>m DEF TypeOK
  <1>b. \A o \in Objects :
           /\ StrongKept(t, o, IF o = p THEN 0 ELSE 0)
           /\ BasicKept(t, o, IF o = p THEN -1 ELSE 0, One(dying[t] = o) + One(next[p] = o) - One(m[p] = o))
    <2> TAKE o \in Objects
    <2>0. o # nullptr
      BY SharedPtrAssumption
    <2>1. StrongKept(t, o, 0)
      BY <1>p, <1>c DEF StrongKept, StrongOf, One, Prepared
    <2>2. One(dying[t] = o) + One(next[p] = o) - One(m[p] = o) = - One(held[t] = o)
      BY <1>3, <1>4, <1>p, <2>0 DEF One
    <2>3. BasicKept(t, o, IF o = p THEN -1 ELSE 0, - One(held[t] = o))
      BY <1>k, <1>1, <1>p, <1>c, <2>0 DEF BasicKept, HandlesOf, One, DebtOf, Owes, InRegister
    <2> QED BY <2>1, <2>2, <2>3
  <1>5. \A o \in Objects : Balanced(o)'
    BY <1>k, <1>3, <1>4, <1>p, <1>f, <1>t, <1>b, ModifyKeeps DEF RegisterIInv
  <1>6. StampFits'
    BY <1>k, <1>p, StampStays
  <1>7. \A u \in Threads : LocalInPlace(u)'
    BY <1>k, <1>p, <1>c, <1>f DEF RegisterIInv, LocalInPlace, Frame
  <1>8. RegisterIInv'
    BY <1>t, <1>5, <1>6, <1>7 DEF RegisterIInv
  <1>9. JobsInPlace'
    <2>1. job' = [job EXCEPT ![t] = "none"] /\ client' = client /\ job \in [Threads -> Jobs]
      BY <1>k DEF Pushed, Become, JobsInPlace, Jobs
    <2>2. \A u \in Threads : u # t => own'[u] = own[u] /\ (Pushes(u)' <=> Pushes(u))
      BY <1>f, <2>1 DEF Frame, Pushes
    <2>3. ~ Pushes(t)'
      BY <2>1 DEF Pushes
    <2>4. \A u \in Threads : Pushes(u)' => next'[own'[u]] = nullptr
      BY <1>3, <1>4, <1>m, <2>2, <2>3
    <2> QED BY <1>k, <1>c, <2>1, <2>2, <2>3, <2>4 DEF JobsInPlace, Jobs
  <1>10. Implements(t)
    BY <1>p, <1>f DEF Implements, Looks, Keeps, New, Phase, Seen
  <1> QED BY <1>8, <1>9, <1>10 DEF IInv

-----------------------------------------------------------------------------
\* The theorems.

\* Every step of the stack.
LEMMA StackStepKeeps ==
  ASSUME IInv, client = "stack", NEW t \in Threads, StackStep(t)
  PROVE  IInv' /\ (Implements(t) \/ UNCHANGED vars)
  BY PushStep, SwingStep, PushedStep, TryPopStep, TakeTopStep, FoundEmptyStep, ReleaseTopStep, TryAgainStep
     DEF StackStep, FoundEmpty

\* The invariant holds at first.
LEMMA InitIInv == StackInit => IInv
  <1> SUFFICES ASSUME StackInit PROVE IInv
    OBVIOUS
  <1>0. kMaxStamp \in Nat \ {0} /\ MaxCalls \in Nat /\ \A o \in Objects : o # nullptr
    BY SharedPtrAssumption
  <1>1. TypeOK
    BY <1>0 DEF StackInit, Init, TypeOK, Stamped, Pointers, Null, Labels
  <1>2. \A t \in Threads : LocalInPlace(t)
    BY DEF StackInit, Init, LocalInPlace
  <1>3. StampFits
    <2>1. Cardinality(Flushing) \in Nat
      BY FlushingIsFinite
    <2>2. ptr.stamp = 0 /\ kMaxStamp \div 2 \in Nat
      BY <1>0 DEF StackInit, Init, Null
    <2> QED BY <2>1, <2>2 DEF StampFits
  <1>4. \A o \in Objects : Balanced(o)
    <2> SUFFICES ASSUME NEW o \in Objects PROVE Balanced(o)
      OBVIOUS
    <2>1. Unheld(o) /\ NoMember(o) /\ Uncharged(o) /\ Unraised(o)
      BY <1>0 DEF StackInit, Init, Unheld, NoMember, Uncharged, Unraised, Prepared
    <2>2. Handles(o) = 0 /\ Members(o) = 0 /\ Strongs(o) = 0 /\ Debts(o) = 0
      BY <1>1, <2>1, NothingCounted
    <2>3. InRegister(o) = 0 /\ One(ptr.raw = o) = 0
      BY <1>0 DEF StackInit, Init, Null, InRegister, One
    <2> QED BY <2>2, <2>3 DEF StackInit, Init, Balanced
  <1>5. JobsInPlace
    BY DEF StackInit, Init, JobsInPlace, Pushes
  <1> QED BY <1>1, <1>2, <1>3, <1>4, <1>5 DEF IInv, RegisterIInv

\* Every step keeps the invariant.
LEMMA NextIInv == IInv /\ [StackNext]_stackVars => IInv'
  <1> SUFFICES ASSUME IInv, [StackNext]_stackVars PROVE IInv'
    OBVIOUS
  <1>i. RegisterIInv /\ JobsInPlace /\ TypeOK
    BY DEF IInv, RegisterIInv
  <1>1. CASE UNCHANGED stackVars
    <2>1. RegisterIInv'
      BY <1>1, <1>i, RegisterStutters DEF stackVars
    <2>2. client' = client /\ job' = job /\ own' = own /\ next' = next
      BY <1>1 DEF stackVars, vars, heap
    <2> QED BY <1>i, <2>1, <2>2 DEF IInv, JobsInPlace, Pushes
  <1>2. ASSUME NEW t \in Threads, RegisterStep(t), UNCHANGED <<client, job>> PROVE IInv'
    BY <1>2, <1>i, RegisterStepKeeps, RegisterKeepsJobs DEF IInv
  <1>3. ASSUME NEW t \in Threads, client = "any", SharedPtrStep(t) \/ Call(t), UNCHANGED <<client, job>> PROVE IInv'
    <2>1. RegisterIInv'
      BY <1>3, <1>i, AnyClientKeeps
    <2>2. JobsInPlace'
      BY <1>3, <1>i DEF JobsInPlace, Pushes
    <2> QED BY <2>1, <2>2 DEF IInv
  <1>4. ASSUME NEW t \in Threads, client = "stack", StackStep(t) PROVE IInv'
    BY <1>4, StackStepKeeps
  <1> QED BY <1>1, <1>2, <1>3, <1>4 DEF StackNext

\* A step of the invariant is one of the abstract register, or none.
LEMMA NextIsRegister == IInv /\ [StackNext]_stackVars => [Register!Next]_(Register!vars)
  <1> SUFFICES ASSUME IInv, [StackNext]_stackVars PROVE [Register!Next]_(Register!vars)
    OBVIOUS
  <1>i. RegisterIInv /\ TypeOK
    BY DEF IInv, RegisterIInv
  <1> DEFINE phases == [u \in Threads |-> Phase(u)]
             news   == [u \in Threads |-> New(u)]
             seens  == [u \in Threads |-> Seen(u)]
  <1>v. Register!vars = <<ptr.raw, phases, news, seens>>
    BY DEF Register!vars, New
  <1>w. Register!vars' = <<ptr'.raw, phases', news', seens'>>
    BY DEF Register!vars, New
  <1>1. ASSUME UNCHANGED <<held, arg, op, pc, current, res>>
        PROVE  phases' = phases /\ news' = news /\ seens' = seens
    BY <1>1 DEF Phase, New, Seen
  <1>2. CASE UNCHANGED vars
    <2>1. UNCHANGED <<held, arg, op, pc, current, res>> /\ ptr' = ptr
      BY <1>2 DEF vars
    <2>2. phases' = phases /\ news' = news /\ seens' = seens
      BY <1>1, <2>1
    <2> HIDE DEF phases, news, seens
    <2> QED BY <1>v, <1>w, <2>1, <2>2
  <1>3. CASE Renews
    <2>1. Register!Renew
      BY <1>1, <1>3 DEF Renews, Register!Renew, New
    <2> QED BY <2>1 DEF Register!Next
  <1>4. ASSUME NEW t \in Threads, Implements(t) PROVE [Register!Next]_(Register!vars)
    <2>1. \A u \in Threads : u # t => Phase(u)' = Phase(u) /\ New(u)' = New(u) /\ Seen(u)' = Seen(u)
      BY <1>4 DEF Implements, Frame, Phase, New, Seen
    <2>2. /\ phases' = [phases EXCEPT ![t] = Phase(t)'] /\ phases[t] = Phase(t)
          /\ news' = [news EXCEPT ![t] = New(t)'] /\ news[t] = New(t)
          /\ seens' = [seens EXCEPT ![t] = Seen(t)'] /\ seens[t] = Seen(t)
      BY <2>1
    <2>3. \A from, to : Turns(t, from, to) => Register!Move(t, from, to)
      BY <2>2 DEF Turns, Register!Move
    <2>4. CASE Looks(t)
      <3>1. phases' = phases /\ news' = news /\ seens' = seens /\ ptr'.raw = ptr.raw
        BY <2>1, <2>4 DEF Looks, Keeps
      <3> HIDE DEF phases, news, seens
      <3> QED BY <1>v, <1>w, <3>1
    <2>n. news = [u \in Threads |-> IF Phase(u) \in {"store", "cas"} THEN arg[u] ELSE nullptr]
      BY DEF New
    <2>5. CASE Calls(t)
      <3>1. Register!Call(t)
        <4>1. \E call \in {"load", "store", "cas"} : Register!Move(t, "idle", call)
          BY <2>3, <2>5 DEF Calls
        <4>2. \E v, w \in Objects \union {nullptr} :
                 /\ news' = [news EXCEPT ![t] = v]
                 /\ seens' = [seens EXCEPT ![t] = w]
          BY <2>2, <2>5 DEF Calls, Pointers
        <4>3. ptr'.raw = ptr.raw
          BY <2>5 DEF Calls
        <4> QED BY <4>1, <4>2, <4>3 DEF Register!Call, New
      <3> QED BY <3>1 DEF Register!Next
    <2>6. CASE Loads(t)
      <3>1. Register!Move(t, "load", "loaded") \/ Register!Move(t, "reload", "lost")
        BY <2>3, <2>6 DEF Loads
      <3>2. seens' = [seens EXCEPT ![t] = ptr.raw] /\ news' = news /\ ptr'.raw = ptr.raw
        BY <2>1, <2>2, <2>6 DEF Loads, Keeps
      <3>3. Register!Load(t)
        BY <3>1, <3>2 DEF Register!Load, New
      <3> QED BY <3>3 DEF Register!Next
    <2>7. CASE Writes(t)
      <3>1. /\ ptr'.raw = news[t] /\ news' = [news EXCEPT ![t] = nullptr] /\ seens' = seens
        BY <2>1, <2>2, <2>7 DEF Writes
      <3>2. Register!Write(t)
        BY <3>1 DEF Register!Write, New
      <3>3. Register!Move(t, "store", "stored") \/ (Register!Move(t, "cas", "won") /\ ptr.raw = seens[t])
        BY <2>2, <2>3, <2>7 DEF Writes
      <3>4. Register!Store(t) \/ Register!Win(t)
        BY <3>2, <3>3 DEF Register!Store, Register!Win
      <3> QED BY <3>4 DEF Register!Next
    <2>8. CASE Loses(t)
      <3>1. Register!Move(t, "cas", "reload")
        BY <2>3, <2>8 DEF Loses
      <3>2. ptr.raw # seens[t] /\ news' = [news EXCEPT ![t] = nullptr] /\ seens' = seens /\ ptr'.raw = ptr.raw
        BY <2>1, <2>2, <2>8 DEF Loses
      <3>3. Register!Lose(t)
        BY <3>1, <3>2 DEF Register!Lose, New
      <3> QED BY <3>3 DEF Register!Next
    <2>9. CASE Returns(t)
      <3>1. \E answer \in {"loaded", "stored", "won", "lost"} : Register!Move(t, answer, "idle")
        BY <2>3, <2>9 DEF Returns
      <3>2. seens' = [seens EXCEPT ![t] = nullptr] /\ news' = news /\ ptr'.raw = ptr.raw
        BY <2>1, <2>2, <2>9 DEF Returns, Keeps
      <3>3. Register!Return(t)
        BY <3>1, <3>2 DEF Register!Return, New
      <3> QED BY <3>3 DEF Register!Next
    <2> QED BY <1>4, <2>4, <2>5, <2>6, <2>7, <2>8, <2>9 DEF Implements
  <1>5. ASSUME NEW t \in Threads, RegisterStep(t) PROVE [Register!Next]_(Register!vars)
    BY <1>4, <1>5, <1>i, RegisterStepKeeps
  <1>6. ASSUME NEW t \in Threads, SharedPtrStep(t) \/ Call(t) PROVE [Register!Next]_(Register!vars)
    BY <1>3, <1>4, <1>6, <1>i, AnyClientKeeps
  <1>7. ASSUME NEW t \in Threads, client = "stack", StackStep(t) PROVE [Register!Next]_(Register!vars)
    BY <1>2, <1>4, <1>7, StackStepKeeps
  <1>8. CASE UNCHANGED stackVars
    BY <1>2, <1>8 DEF stackVars
  <1> QED BY <1>5, <1>6, <1>7, <1>8 DEF StackNext

\* The counts of every object are balanced at all times (AtomicSharedPtr.hpp 30-60, 155-216).
THEOREM Invariance == StackSpec => []IInv
  BY InitIInv, NextIInv, PTL DEF StackSpec

\* No object is deleted while the register or a SharedPtr refers to it, or while
\* a thread that took it out of the register has yet to charge its stamp,
\* whatever the threads, their calls and the addresses are
\* (AtomicSharedPtr.hpp 39, 166-176, 186-189).
THEOREM ReferencesAreAlive == StackSpec => []ReferencedIsAlive
  <1>1. IInv => ReferencedIsAlive
    <2> SUFFICES ASSUME IInv PROVE ReferencedIsAlive
      OBVIOUS
    <2>1. RegisterIInv
      BY DEF IInv
    <2>2. /\ ptr.raw # nullptr => ptr.raw \in alive
          /\ \A q \in Objects : next[q] # nullptr => next[q] \in alive
      <3>1. \A o \in Objects : o \notin alive => ptr.raw # o /\ NoMember(o)
        BY <2>1, AliveIsReferenced DEF RegisterIInv
      <3>2. ptr.raw \in Pointers /\ \A q \in Objects : next[q] \in Pointers
        BY <2>1 DEF RegisterIInv, TypeOK, Stamped
      <3> QED BY <3>1, <3>2 DEF NoMember, Pointers
    <2> QED BY <2>1, <2>2, Lives DEF ReferencedIsAlive, Referenced, Charged
  <1> QED BY <1>1, Invariance, PTL

\* An object that nobody refers to has been deleted, unless a flush has charged
\* the stamp of another object to it (AtomicSharedPtr.hpp 172-176).
THEOREM NothingLeaksButTheOvertaken == StackSpec => []UnreferencedIsDeleted
  <1>1. IInv => UnreferencedIsDeleted
    <2> SUFFICES ASSUME IInv, NEW o \in alive, o \notin overtaken PROVE o \in Referenced \union Charged
      BY DEF UnreferencedIsDeleted
    <2>1. o \in Objects /\ TypeOK /\ Balanced(o) /\ o # nullptr
      BY SharedPtrAssumption DEF IInv, RegisterIInv, TypeOK
    <2>2. ptr.raw = o \/ ~ Unheld(o) \/ ~ NoMember(o) \/ ~ Uncharged(o)
      BY <2>1, AliveIsReferenced
    <2> QED BY <2>1, <2>2 DEF Unheld, NoMember, Uncharged, Referenced, Charged
  <1> QED BY <1>1, Invariance, PTL

\* The stamp never runs out of its bits, however many threads load at once, as
\* long as it holds one reference of each beyond its half
\* (AtomicSharedPtr.hpp 163, 167).
THEOREM StampsFit == StackSpec => []StampFits
  <1>1. IInv => StampFits
    BY DEF IInv, RegisterIInv
  <1> QED BY <1>1, Invariance, PTL

\* AtomicSharedPtr is an atomic register, under any client: what Load returns
\* was in the register at a moment of the call, CompareExchangeWeak wins only if
\* the expected object was there, and loses only if it was not
\* (AtomicSharedPtr.hpp 155-216).
THEOREM SharedPtrImplementsRegister == StackSpec => IsRegister
  <1>1. StackInit => Register!Init
    BY DEF StackInit, Init, Register!Init, Phase, Seen, Null
  <1> QED BY <1>1, Invariance, NextIsRegister, PTL DEF StackSpec, IsRegister, Register!Spec

-----------------------------------------------------------------------------
\* The stack on the register.

\* A node that its pusher has yet to win with, and one that others can find.
Private(o) == \E u \in Threads : Pushes(u) /\ ~ won[u] /\ own[u] = o
Public(o)  == ptr.raw = o \/ ~ NoMember(o) \/ \E u \in Threads : held[u] = o \/ res[u] = o

\* The call of t wins in this step.
Wins(t) == Compare(t) /\ ptr = current[t]

\* Members change only in nodes that are deleted.
MovesHeap(t) ==
    /\ \A q \in Objects : next'[q] = next[q] \/ (next'[q] = nullptr /\ q \notin alive')
    /\ \A u \in Threads : u # t => dying'[u] = dying[u]
    /\ dying'[t] \in {dying[t], nullptr} \/ \E q \in Objects : dying'[t] = next[q]

LEMMA ModifyMovesHeap ==
  ASSUME TypeOK, NEW t \in Threads, NEW p \in Pointers, NEW s \in Int, NEW b \in Int, ModifyState(t, p, s, b)
  PROVE  MovesHeap(t)
  <1>1. CASE p = nullptr
    BY <1>1 DEF ModifyState, heap, MovesHeap
  <1>2. CASE p # nullptr
    <2>1. p \in Objects /\ next \in [Objects -> Pointers] /\ ModifyStateOf(t, p, s, b, next)
      BY <1>2 DEF Pointers, TypeOK, ModifyState
    <2>2. /\ count' \in [Objects -> [strong : Int, basic : Int]]
          /\ count'[p] = [strong |-> count[p].strong + s, basic |-> count[p].basic + b]
          /\ \A o \in Objects : o # p => count'[o] = count[o] /\ next'[o] = next[o]
          /\ alive' = IF count'[p] = Zero THEN alive \ {p} ELSE alive
          /\ dying' \in [Threads -> Pointers] /\ next' \in [Objects -> Pointers]
          /\ \A u \in Threads : u # t => dying'[u] = dying[u]
          /\ IF count'[p] = Zero THEN dying'[t] = next[p] /\ next'[p] = nullptr
                                 ELSE dying'[t] = nullptr /\ next'[p] = next[p]
      BY <2>1, ModifyFacts
    <2> QED BY <2>1, <2>2 DEF MovesHeap
  <1> QED BY <1>1, <1>2

\* What a step of the register does to the pointers of t.
RegisterMoves(t) ==
    /\ MovesHeap(t)
    /\ own' = own
    /\ \A u \in Threads : u # t => won'[u] = won[u]
    /\ held'[t] = held[t] \/ (pc[t] = "assign" /\ held'[t] = res[t])
    /\ res'[t] \in {res[t], nullptr, ptr.raw}
    /\ arg'[t] \in {arg[t], nullptr}

LEMMA RegisterStepMoves ==
  ASSUME RegisterIInv, NEW t \in Threads, RegisterStep(t)
  PROVE  RegisterMoves(t)
  <1>k. /\ TypeOK
        /\ arg[t] \in Pointers /\ held[t] \in Pointers /\ res[t] \in Pointers /\ dying[t] \in Pointers
        /\ current[t].raw \in Pointers /\ current[t].stamp \in Int /\ 1 \in Int /\ -1 \in Int /\ 0 \in Int
    BY Known
  <1>0. UNCHANGED heap => MovesHeap(t)
    BY DEF heap, MovesHeap
  <1>1. CASE Strong(t)
    <2>1. MovesHeap(t)
      BY <1>1, <1>k, ModifyMovesHeap DEF Strong
    <2> QED BY <1>1, <2>1 DEF Strong, RegisterMoves
  <1>2. CASE Charge(t)
    <2>1. MovesHeap(t)
      BY <1>2, <1>k, ModifyMovesHeap DEF Charge
    <2> QED BY <1>2, <2>1 DEF Charge, RegisterMoves
  <1>3. CASE Cancel(t)
    <2>1. MovesHeap(t)
      BY <1>3, <1>k, ModifyMovesHeap DEF Cancel
    <2> QED BY <1>3, <2>1 DEF Cancel, RegisterMoves
  <1>4. CASE Raise(t)
    <2>1. MovesHeap(t)
      BY <1>4, <1>k, ModifyMovesHeap DEF Raise
    <2> QED BY <1>4, <2>1 DEF Raise, RegisterMoves
  <1>5. CASE Settle(t)
    <2>1. MovesHeap(t)
      BY <1>5, <1>k, ModifyMovesHeap DEF Settle
    <2> QED BY <1>5, <2>1 DEF Settle, RegisterMoves
  <1>6. CASE MoveAssign(t)
    <2>1. MovesHeap(t)
      BY <1>6, <1>k, ModifyMovesHeap DEF MoveAssign
    <2>2. held'[t] = res[t] /\ res'[t] = nullptr /\ pc[t] = "assign"
      BY <1>6, <1>k DEF MoveAssign, TypeOK, At
    <2> QED BY <1>6, <2>1, <2>2 DEF MoveAssign, RegisterMoves
  <1>7. CASE Drop(t)
    <2>1. MovesHeap(t)
      BY <1>7, <1>k, ModifyMovesHeap DEF Drop
    <2>2. arg'[t] = nullptr
      BY <1>7, <1>k DEF Drop, TypeOK
    <2> QED BY <1>7, <2>1, <2>2 DEF Drop, RegisterMoves
  <1>8. CASE Cascade(t)
    <2>1. MovesHeap(t)
      BY <1>8, <1>k, ModifyMovesHeap DEF Cascade
    <2> QED BY <1>8, <2>1 DEF Cascade, RegisterMoves
  <1>9. CASE Exchange(t) \/ Peek(t) \/ CompareFails(t) \/ LoadRead(t) \/ Flush(t)
    BY <1>0, <1>9 DEF Exchange, Peek, CompareFails, LoadRead, Flush, RegisterMoves
  <1>10. CASE Compare(t)
    <2>1. \A u \in Threads : u # t => won'[u] = won[u]
      BY <1>10, <1>k DEF Compare, TypeOK
    <2> QED BY <1>0, <1>10, <2>1 DEF Compare, RegisterMoves
  <1>11. CASE Bump(t)
    <2>1. UNCHANGED <<heap, held, own, arg, won>>
      BY <1>11 DEF Bump
    <2>2. res' = [res EXCEPT ![t] = ptr.raw] \/ res' = res
      BY <1>11 DEF Bump
    <2>3. res'[t] \in {res[t], ptr.raw}
      BY <1>k, <2>2 DEF TypeOK
    <2> QED BY <1>0, <2>1, <2>3 DEF RegisterMoves
  <1> QED BY <1>1, <1>2, <1>3, <1>4, <1>5, <1>6, <1>7, <1>8, <1>9, <1>10, <1>11 DEF RegisterStep

\* The pointer in a node: its pusher's, or its own.
NextOfRight ==
    JobsInPlace => \A o \in Objects :
        /\ \A u \in Threads : Pushes(u) /\ own[u] = o => NextOf(o) = held[u]
        /\ (\A u \in Threads : ~ (Pushes(u) /\ own[u] = o)) => NextOf(o) = next[o]

LEMMA NextOfIs == NextOfRight
  <1> SUFFICES ASSUME JobsInPlace, NEW o \in Objects
               PROVE  /\ \A u \in Threads : Pushes(u) /\ own[u] = o => NextOf(o) = held[u]
                      /\ (\A u \in Threads : ~ (Pushes(u) /\ own[u] = o)) => NextOf(o) = next[o]
    BY DEF NextOfRight
  <1> DEFINE pushers == {u \in Threads : job[u] = "push" /\ own[u] = o}
  <1>1. NextOf(o) = IF pushers = {} THEN next[o] ELSE held[CHOOSE u \in pushers : TRUE]
    BY DEF NextOf
  <1>2. ASSUME NEW u \in Threads, Pushes(u), own[u] = o PROVE NextOf(o) = held[u]
    <2>1. u \in pushers /\ \A w \in pushers : w = u
      BY <1>2 DEF JobsInPlace, Pushes
    <2>2. (CHOOSE w \in pushers : TRUE) \in pushers
      <3> HIDE DEF pushers
      <3> QED BY <2>1
    <2> HIDE DEF pushers
    <2> QED BY <1>1, <2>1, <2>2
  <1>3. (\A u \in Threads : ~ (Pushes(u) /\ own[u] = o)) => pushers = {}
    BY DEF Pushes
  <1> HIDE DEF pushers
  <1> QED BY <1>1, <1>2, <1>3

\* It points to a node that lives, and that others can find; so do top_ and the loads.
NextLives ==
    IInv =>
        /\ ptr.raw # nullptr => ptr.raw \in alive
        /\ \A u \in Threads : held[u] # nullptr => held[u] \in alive
        /\ \A o \in Objects : /\ NextOf(o) \in Pointers
                              /\ NextOf(o) # nullptr => NextOf(o) \in alive /\ Public(NextOf(o))

LEMMA NextIsAlive == NextLives
  <1> SUFFICES ASSUME IInv PROVE NextLives
    BY DEF NextLives
  <1>1. JobsInPlace /\ RegisterIInv /\ TypeOK
    BY DEF IInv, RegisterIInv
  <1>2. \A u \in Threads : held[u] \in Pointers /\ (held[u] # nullptr => held[u] \in alive)
    BY <1>1, Lives, Known
  <1>5. /\ ptr.raw # nullptr => ptr.raw \in alive
        /\ \A q \in Objects : next[q] \in Pointers /\ (next[q] # nullptr => next[q] \in alive)
    <2>1. \A o \in Objects : o \notin alive => ptr.raw # o /\ NoMember(o)
      BY <1>1, AliveIsReferenced DEF RegisterIInv
    <2>2. ptr.raw \in Pointers /\ \A q \in Objects : next[q] \in Pointers
      BY <1>1 DEF TypeOK, Stamped
    <2> QED BY <2>1, <2>2 DEF NoMember, Pointers
  <1> SUFFICES ASSUME NEW o \in Objects
               PROVE  /\ NextOf(o) \in Pointers
                      /\ NextOf(o) # nullptr => NextOf(o) \in alive /\ Public(NextOf(o))
    BY <1>2, <1>5 DEF NextLives
  <1>3. CASE \E u \in Threads : Pushes(u) /\ own[u] = o
    <2>1. PICK u \in Threads : Pushes(u) /\ own[u] = o
      BY <1>3
    <2>2. NextOf(o) = held[u]
      BY <1>1, <2>1, NextOfIs DEF NextOfRight
    <2> QED BY <1>2, <2>2 DEF Public
  <1>4. CASE ~ \E u \in Threads : Pushes(u) /\ own[u] = o
    <2>1. NextOf(o) = next[o]
      BY <1>1, <1>4, NextOfIs DEF NextOfRight
    <2> QED BY <1>5, <2>1 DEF Public, NoMember
  <1> QED BY <1>3, <1>4

\* The pointer in a node stays unless its pusher moves, or its member.
LEMMA NextStays ==
  ASSUME JobsInPlace, JobsInPlace', NEW o \in Objects,
         \A u \in Threads : Pushes(u) /\ own[u] = o => Pushes(u)' /\ own'[u] = o /\ held'[u] = held[u],
         (\A u \in Threads : ~ (Pushes(u) /\ own[u] = o)) =>
             next'[o] = next[o] /\ \A u \in Threads : ~ (Pushes(u)' /\ own'[u] = o)
  PROVE  NextOf(o)' = NextOf(o)
  <1>1. NextOfRight /\ NextOfRight'
    BY NextOfIs, PTL
  <1>2. CASE \E u \in Threads : Pushes(u) /\ own[u] = o
    <2>1. PICK u \in Threads : Pushes(u) /\ own[u] = o
      BY <1>2
    <2>2. Pushes(u)' /\ own'[u] = o /\ held'[u] = held[u]
      BY <2>1
    <2>3. NextOf(o) = held[u]
      BY <1>1, <2>1 DEF NextOfRight
    <2>4. NextOf(o)' = held'[u]
      BY <1>1, <2>2 DEF NextOfRight
    <2> QED BY <2>2, <2>3, <2>4
  <1>3. CASE ~ \E u \in Threads : Pushes(u) /\ own[u] = o
    <2>1. NextOf(o) = next[o]
      BY <1>1, <1>3 DEF NextOfRight
    <2>2. NextOf(o)' = next'[o]
      BY <1>1, <1>3 DEF NextOfRight
    <2> QED BY <1>3, <2>1, <2>2
  <1> QED BY <1>2, <1>3

\* The stack's use of the register.
InItsCall(t) ==
    /\ op[t] # "Store" /\ pc[t] # "acquire"
    /\ job[t] \in {"none", "again"} => op[t] = "none"
    /\ job[t] = "pop" => op[t] # "Cas"
    /\ job[t] = "take" => op[t] # "Load"
    /\ won[t] => job[t] \in {"push", "take"} /\ pc[t] \in {"charge", "drop", "idle"}
    /\ pc[t] \in {"peek", "strong", "compare"} =>
          /\ job[t] = "push" => arg[t] = own[t]
          /\ job[t] = "take" => \E o \in Objects : held[t] = o /\ arg[t] = NextOf(o)

\* A private node is in the hands of its pusher only.
Hidden(t) == Pushes(t) /\ ~ won[t] => ~ Public(own[t]) /\ \A u \in Threads : u # t => arg[u] # own[t]

\* The nodes of s are alive, different, and lead from one to the next.
Linked(s) ==
    /\ \A i, j \in 1 .. Len(s) : s[i] = s[j] => i = j
    /\ \A i \in 1 .. Len(s) : s[i] \in alive
    /\ \A i \in 1 .. Len(s) : NextOf(s[i]) = IF i = Len(s) THEN nullptr ELSE s[i + 1]

FirstOf(s)  == IF s = <<>> THEN nullptr ELSE s[1]
Contains(s) == s \in Seq(Objects) /\ Linked(s) /\ ptr.raw = FirstOf(s)

StackInPlace ==
    /\ client \in {"any", "stack"}
    /\ client = "any" => \A t \in Threads : job[t] = "none"
    /\ client = "stack" => (\A t \in Threads : InItsCall(t) /\ Hidden(t)) /\ \E s : Contains(s)

StackIInv == IInv /\ StackInPlace

\* A set of numbers that is not empty has a least member: by the well-foundedness
\* of strict inclusion on finite sets, applied to the sets 1 .. m.
LEMMA LeastNumber ==
  ASSUME NEW M, M \subseteq Nat, M # {}
  PROVE  \E m \in M : \A k \in M : m <= k
  <1> DEFINE O == StrictSubsetOrdering(Nat)
             S == FiniteSubsetsOf(Nat)
             T == {1 .. m : m \in M}
  <1>1. IsWellFoundedOn(O, S)
    BY FS_StrictSubsetOrderingWellFounded
  <1>2. T \subseteq S /\ T # {}
    <2>1. \A m \in M : IsFiniteSet(1 .. m) /\ 1 .. m \subseteq Nat
      BY FS_Interval
    <2> QED BY <2>1 DEF FiniteSubsetsOf
  <1>3. \E x \in T : \A y \in T : <<y, x>> \notin O
    <2> HIDE DEF O, S, T
    <2> QED BY <1>1, <1>2, WFMin
  <1>4. PICK m \in M : \A k \in M : <<1 .. k, 1 .. m>> \notin O
    BY <1>3
  <1>5. \A k \in M : m <= k
    <2> SUFFICES ASSUME NEW k \in M, k < m PROVE FALSE
      OBVIOUS
    <2>1. 1 .. k \subseteq 1 .. m /\ 1 .. k # 1 .. m
      <3>1. m \in 1 .. m /\ m \notin 1 .. k
        OBVIOUS
      <3> QED BY <3>1
    <2>2. <<1 .. k, 1 .. m>> \in O
      BY <2>1 DEF StrictSubsetOrdering
    <2> QED BY <1>4, <2>2
  <1> QED BY <1>5

\* The chain of a new state, from what its nodes point to.
LEMMA LinkedMoves ==
  ASSUME IInv', NEW r \in Seq(Objects), Linked(r), ptr'.raw = FirstOf(r),
         \A i \in 1 .. Len(r) : r[i] \in alive' => NextOf(r[i])' = NextOf(r[i])
  PROVE  Contains(r)'
  <1>1. Len(r) \in Nat /\ (r = <<>> <=> Len(r) = 0) /\ nullptr \notin Objects
        /\ \A i \in 1 .. Len(r) : r[i] \in Objects
    BY SharedPtrAssumption
  <1>2. NextLives'
    BY NextIsAlive, PTL
  <1>3. ptr'.raw # nullptr => ptr'.raw \in alive'
    BY <1>2 DEF NextLives
  <1>4. \A i \in 1 .. Len(r) : r[i] \in alive'
    <2> DEFINE M == {i \in 1 .. Len(r) : r[i] \notin alive'}
    <2> SUFFICES ASSUME M # {} PROVE FALSE
      OBVIOUS
    <2>1. M \subseteq Nat
      BY <1>1
    <2>2. PICK m \in M : \A k \in M : m <= k
      <3> HIDE DEF M
      <3> QED BY <2>1, LeastNumber
    <2>3. m \in 1 .. Len(r) /\ m \in Nat /\ r[m] \notin alive' /\ r[m] # nullptr
      BY <1>1, <2>1, <2>2
    <2>4. m # 1
      BY <1>1, <1>3, <2>3 DEF FirstOf
    <2>5. m - 1 \in 1 .. Len(r) /\ ~ (m <= m - 1) /\ m - 1 # Len(r) /\ (m - 1) + 1 = m
      BY <1>1, <2>3, <2>4
    <2>6. r[m - 1] \in alive' /\ r[m - 1] \in Objects
      BY <1>1, <2>2, <2>5
    <2>7. NextOf(r[m - 1])' = r[m]
      <3>1. NextOf(r[m - 1]) = r[m]
        BY <2>5 DEF Linked
      <3> QED BY <2>5, <2>6, <3>1
    <2>8. NextOf(r[m - 1])' \in alive'
      BY <1>2, <2>3, <2>6, <2>7 DEF NextLives
    <2> QED BY <2>3, <2>7, <2>8
  <1>5. Linked(r)'
    BY <1>4 DEF Linked
  <1> QED BY <1>5 DEF Contains, FirstOf

\* What the register's pointers spell: the nodes of s and no others.
ChainRight == \A s : Contains(s) => Chain = s

LEMMA ChainIs == ChainRight
  <1> SUFFICES ASSUME NEW s, Contains(s) PROVE Chain = s
    BY DEF ChainRight
  <1> DEFINE N == Cardinality(Objects)
             body(f) == [k \in 1 .. N + 1 |->
                           IF k = 1 THEN ptr.raw
                           ELSE IF f[k - 1] = nullptr THEN nullptr ELSE NextOf(f[k - 1])]
  <1>1. N \in Nat /\ nullptr \notin Objects
    BY SharedPtrAssumption, FS_CardinalityType
  <1>2. s \in Seq(Objects) /\ Linked(s) /\ ptr.raw = FirstOf(s)
    BY DEF Contains
  <1>3. Len(s) \in Nat /\ (s = <<>> <=> Len(s) = 0) /\ (\A k \in 1 .. Len(s) : s[k] \in Objects)
        /\ s \in [1 .. Len(s) -> Objects]
    BY <1>2
  <1>L. Len(s) <= N
    <2>1. IsFiniteSet(1 .. Len(s)) /\ Cardinality(1 .. Len(s)) = Len(s)
      <3>1. Len(s) \in Int /\ 1 \in Int /\ (1 > Len(s) => Len(s) = 0) /\ Len(s) - 1 + 1 = Len(s)
        BY <1>3
      <3> QED BY <3>1, FS_Interval
    <2>2. ~ (N < Len(s))
      <3> SUFFICES ASSUME N < Len(s) PROVE FALSE
        OBVIOUS
      <3>1. \E x, y \in 1 .. Len(s) : x # y /\ s[x] = s[y]
        BY <1>3, <2>1, SharedPtrAssumption, FS_PigeonHole
      <3> QED BY <1>2, <3>1 DEF Linked
    <2> QED BY <1>1, <1>3, <2>2
  <1>4. PICK g : g = [k \in 1 .. N + 1 |-> IF k <= Len(s) THEN s[k] ELSE nullptr]
    OBVIOUS
  <1>5. \A k \in 1 .. N + 1 : g[k] = IF k <= Len(s) THEN s[k] ELSE nullptr
    BY <1>4
  <1>6. ASSUME NEW k \in 1 .. N + 1
        PROVE  g[k] = IF k = 1 THEN ptr.raw ELSE IF g[k - 1] = nullptr THEN nullptr ELSE NextOf(g[k - 1])
    <2>1. CASE k = 1
      BY <1>1, <1>2, <1>3, <1>5, <2>1 DEF FirstOf
    <2>2. CASE k # 1
      <3>1. k - 1 \in 1 .. N + 1 /\ k - 1 \in Nat /\ k \in Nat /\ (k - 1) + 1 = k
        BY <1>1, <2>2
      <3>2. CASE k - 1 <= Len(s)
        <4>1. k - 1 \in 1 .. Len(s)
          BY <1>3, <3>1, <3>2
        <4>2. g[k - 1] = s[k - 1] /\ s[k - 1] # nullptr
          BY <1>1, <1>3, <1>5, <3>1, <3>2, <4>1
        <4>3. NextOf(s[k - 1]) = IF k - 1 = Len(s) THEN nullptr ELSE s[k]
          BY <1>2, <3>1, <4>1 DEF Linked
        <4>4. k <= Len(s) <=> k - 1 # Len(s)
          BY <1>3, <3>1, <3>2
        <4>5. g[k] = IF k <= Len(s) THEN s[k] ELSE nullptr
          BY <1>5
        <4> QED BY <2>2, <4>2, <4>3, <4>4, <4>5
      <3>3. CASE ~ (k - 1 <= Len(s))
        <4>1. ~ (k <= Len(s))
          BY <1>3, <3>1, <3>3
        <4> QED BY <1>5, <2>2, <3>1, <3>3, <4>1
      <3> QED BY <3>2, <3>3
    <2> QED BY <2>1, <2>2
  <1>7. g = body(g)
    BY <1>4, <1>6
  <1>8. Visited = CHOOSE f : f = body(f)
    BY DEF Visited
  <1>9. PICK v : v = Visited
    OBVIOUS
  <1>10. v = body(v)
    <2> HIDE DEF body
    <2> QED BY <1>7, <1>8, <1>9
  <1>11. /\ v = [k \in 1 .. N + 1 |-> v[k]]
         /\ \A k \in 1 .. N + 1 :
               v[k] = IF k = 1 THEN ptr.raw ELSE IF v[k - 1] = nullptr THEN nullptr ELSE NextOf(v[k - 1])
    <2>1. DOMAIN v = 1 .. N + 1
      BY <1>10
    <2>2. \A k \in 1 .. N + 1 :
            v[k] = IF k = 1 THEN ptr.raw ELSE IF v[k - 1] = nullptr THEN nullptr ELSE NextOf(v[k - 1])
      <3>1. \A k \in 1 .. N + 1 : v[k] = body(v)[k]
        <4> HIDE DEF body
        <4> QED BY <1>10
      <3> QED BY <3>1
    <2>3. v = [k \in DOMAIN v |-> v[k]]
      BY <1>10
    <2> QED BY <2>1, <2>2, <2>3
  <1>12. \A k \in 1 .. N + 1 : v[k] = g[k]
    <2> DEFINE M == {k \in 1 .. N + 1 : v[k] # g[k]}
    <2> SUFFICES ASSUME M # {} PROVE FALSE
      OBVIOUS
    <2>1. M \subseteq Nat
      BY <1>1
    <2>2. PICK m \in M : \A k \in M : m <= k
      <3> HIDE DEF M
      <3> QED BY <2>1, LeastNumber
    <2>3. m \in 1 .. N + 1 /\ m \in Nat /\ v[m] # g[m]
      BY <2>1, <2>2
    <2>4. m # 1
      BY <1>6, <1>11, <2>3
    <2>5. m - 1 \in 1 .. N + 1 /\ ~ (m <= m - 1)
      BY <1>1, <2>3, <2>4
    <2>6. v[m - 1] = g[m - 1]
      BY <2>2, <2>5
    <2>7. v[m] = IF v[m - 1] = nullptr THEN nullptr ELSE NextOf(v[m - 1])
      BY <1>11, <2>3, <2>4
    <2>8. g[m] = IF g[m - 1] = nullptr THEN nullptr ELSE NextOf(g[m - 1])
      BY <1>6, <2>3, <2>4
    <2> QED BY <2>3, <2>6, <2>7, <2>8
  <1>13. \A k \in 1 .. N + 1 : v[k] = IF k <= Len(s) THEN s[k] ELSE nullptr
    BY <1>5, <1>12
  <1>14. {k \in DOMAIN v : v[k] # nullptr} = 1 .. Len(s)
    <2>1. DOMAIN v = 1 .. N + 1
      BY <1>10
    <2>2. \A k \in 1 .. N + 1 : v[k] # nullptr <=> k \in 1 .. Len(s)
      BY <1>1, <1>3, <1>13
    <2>3. \A k \in 1 .. Len(s) : k \in 1 .. N + 1
      BY <1>1, <1>3, <1>L
    <2> QED BY <2>1, <2>2, <2>3
  <1>15. Cardinality(1 .. Len(s)) = Len(s)
    <2>1. Len(s) \in Int /\ 1 \in Int /\ (1 > Len(s) => Len(s) = 0) /\ Len(s) - 1 + 1 = Len(s)
      BY <1>3
    <2> QED BY <2>1, FS_Interval
  <1>16. Chain = [k \in 1 .. Len(s) |-> v[k]]
    BY <1>9, <1>14, <1>15 DEF Chain
  <1>17. \A k \in 1 .. Len(s) : v[k] = s[k]
    BY <1>1, <1>3, <1>L, <1>13
  <1>18. s = [k \in 1 .. Len(s) |-> s[k]]
    BY <1>3
  <1> QED BY <1>16, <1>17, <1>18

\* The top changes only when a call wins.
LEMMA OnlyWinsMove ==
  ASSUME RegisterIInv, NEW t \in Threads, InItsCall(t), RegisterStep(t), ~ Wins(t)
  PROVE  ptr'.raw = ptr.raw /\ won' = won
  <1>k. /\ TypeOK /\ LocalInPlace(t) /\ ptr \in Stamped /\ current[t] \in Stamped /\ res[t] \in Pointers
        /\ op[t] \in {"none", "Load", "Store", "Cas"}
    BY Known
  <1>w. won[t] \in BOOLEAN /\ won \in [Threads -> BOOLEAN]
    BY <1>k DEF TypeOK
  <1>1. CASE Exchange(t)
    <2>1. pc[t] = "exchange"
      BY <1>1 DEF Exchange, At
    <2> QED BY <1>k, <2>1 DEF InItsCall, LocalInPlace
  <1>2. CASE Compare(t)
    <2>1. pc[t] = "compare" /\ ptr # current[t] /\ won' = [won EXCEPT ![t] = FALSE] /\ ptr' = ptr
      BY <1>2 DEF Wins, Compare, CompareExchangeWeak, At
    <2>2. won[t] = FALSE
      BY <1>w, <2>1 DEF InItsCall
    <2> QED BY <1>w, <2>1, <2>2
  <1>3. CASE Bump(t)
    BY <1>3 DEF Bump, CompareExchangeWeak
  <1>4. CASE Flush(t)
    <2>1. current[t].raw = res[t] /\ won' = won
      BY <1>4, <1>k DEF Flush, At, LocalInPlace
    <2>2. ptr' = ptr \/ (ptr = current[t] /\ ptr' = [raw |-> res[t], stamp |-> 0])
      BY <1>4 DEF Flush, CompareExchangeWeak
    <2> QED BY <2>1, <2>2
  <1>5. CASE Strong(t) \/ Charge(t) \/ Peek(t) \/ CompareFails(t) \/ Cancel(t) \/ LoadRead(t) \/ Raise(t)
             \/ Settle(t) \/ MoveAssign(t) \/ Drop(t) \/ Cascade(t)
    BY <1>5 DEF Strong, Charge, Peek, CompareFails, Cancel, LoadRead, Raise, Settle, MoveAssign, Drop, Cascade
  <1> QED BY <1>1, <1>2, <1>3, <1>4, <1>5 DEF RegisterStep

\* A call that wins puts its argument in the place of the object that was held.
LEMMA WinMoves ==
  ASSUME RegisterIInv, NEW t \in Threads, InItsCall(t), Wins(t)
  PROVE  /\ ptr.raw = held[t] /\ ptr'.raw = arg[t] /\ won' = [won EXCEPT ![t] = TRUE]
         /\ pc[t] = "compare" /\ op[t] = "Cas" /\ pc'[t] = "charge"
         /\ UNCHANGED <<heap, held, own, arg, op, res>>
  <1>1. TypeOK /\ LocalInPlace(t) /\ op[t] \in {"none", "Load", "Store", "Cas"}
    BY Known
  <1>2. /\ pc[t] = "compare" /\ current[t].raw = held[t] /\ ptr = current[t]
        /\ ptr' = [raw |-> arg[t], stamp |-> 0] /\ pc' = [pc EXCEPT ![t] = "charge"]
        /\ won' = [won EXCEPT ![t] = (ptr = current[t])]
        /\ UNCHANGED <<heap, held, own, arg, op, res>>
    BY DEF Wins, Compare, CompareExchangeWeak, At, Goto
  <1>3. op[t] = "Cas"
    BY <1>1, <1>2 DEF LocalInPlace
  <1>4. won' = [won EXCEPT ![t] = TRUE]
    BY <1>2
  <1>5. ptr'.raw = arg[t] /\ ptr.raw = held[t]
    BY <1>2
  <1>6. pc'[t] = "charge"
    BY <1>1, <1>2 DEF TypeOK
  <1> QED BY <1>2, <1>3, <1>4, <1>5, <1>6

\* Nodes become public, or change their Next, by steps of the stack only.
NextKeeps     == \A o \in Objects : o \in alive /\ o \in alive' /\ ~ Private(o) => NextOf(o)' = NextOf(o)
PublicShrinks == \A o \in Objects : Public(o)' => Public(o)

LEMMA RegisterKeepsNext ==
  ASSUME IInv, JobsInPlace', NEW t \in Threads, InItsCall(t), RegisterMoves(t), Frame(t), job' = job
  PROVE  NextKeeps
  <1> SUFFICES ASSUME NEW o \in Objects, o \in alive', ~ Private(o) PROVE NextOf(o)' = NextOf(o)
    BY DEF NextKeeps
  <1>1. JobsInPlace /\ own' = own
    BY DEF IInv, RegisterMoves
  <1>2. ASSUME NEW u \in Threads, Pushes(u), own[u] = o PROVE Pushes(u)' /\ own'[u] = o /\ held'[u] = held[u]
    <2>1. won[u]
      BY <1>2 DEF Private
    <2>2. held'[u] = held[u]
      <3>1. CASE u = t
        BY <2>1, <3>1 DEF InItsCall, RegisterMoves
      <3>2. CASE u # t
        BY <3>2 DEF Frame
      <3> QED BY <3>1, <3>2
    <2> QED BY <1>1, <1>2, <2>2 DEF Pushes
  <1>3. next'[o] = next[o]
    BY DEF RegisterMoves, MovesHeap
  <1>4. (\A u \in Threads : ~ (Pushes(u) /\ own[u] = o)) =>
           next'[o] = next[o] /\ \A u \in Threads : ~ (Pushes(u)' /\ own'[u] = o)
    BY <1>1, <1>3 DEF Pushes
  <1> QED BY <1>1, <1>2, <1>4, NextStays

LEMMA MovesShrink ==
  ASSUME NEW t \in Threads, MovesHeap(t), Frame(t), TypeOK,
         held'[t] \in {held[t], res[t], nullptr}, res'[t] \in {res[t], nullptr, ptr.raw}
  PROVE  \A o \in Objects : Public(o)' => Public(o) \/ ptr'.raw = o
  <1> SUFFICES ASSUME NEW o \in Objects, Public(o)', ptr'.raw # o PROVE Public(o)
    OBVIOUS
  <1>0. o # nullptr
    BY SharedPtrAssumption
  <1>1. ASSUME ~ NoMember(o)' PROVE Public(o)
    <2>1. (\E u \in Threads : dying'[u] = o) \/ (\E q \in Objects : next'[q] = o)
      BY <1>1 DEF NoMember
    <2>2. ASSUME NEW u \in Threads, dying'[u] = o PROVE ~ NoMember(o)
      BY <1>0, <2>2 DEF NoMember, MovesHeap
    <2>3. ASSUME NEW q \in Objects, next'[q] = o PROVE ~ NoMember(o)
      BY <1>0, <2>3 DEF NoMember, MovesHeap
    <2> QED BY <2>1, <2>2, <2>3 DEF Public
  <1>2. ASSUME NEW u \in Threads, held'[u] = o \/ res'[u] = o PROVE Public(o)
    BY <1>0, <1>2 DEF Public, Frame
  <1> QED BY <1>1, <1>2 DEF Public

\* What is held of the stack keeps its Next, while it is held.
LEMMA TopsKeep ==
  ASSUME IInv, IInv', NextKeeps, \A w \in Threads : Hidden(w), NEW u \in Threads, NEW o \in Objects,
         held[u] = o, held'[u] = o
  PROVE  NextOf(o)' = NextOf(o)
  <1>0. o # nullptr
    BY SharedPtrAssumption
  <1>1. NextLives /\ NextLives'
    BY NextIsAlive, PTL
  <1>2. o \in alive /\ o \in alive'
    BY <1>0, <1>1 DEF NextLives
  <1>3. ~ Private(o)
    BY DEF Private, Hidden, Public
  <1> QED BY <1>2, <1>3 DEF NextKeeps

\* Nor is anybody's call disturbed.
LEMMA OthersInCall ==
  ASSUME NEW t \in Threads, NEW u \in Threads, u # t, Frame(t), InItsCall(u), job'[u] = job[u], won'[u] = won[u],
         \A o \in Objects : held[u] = o /\ held'[u] = o => NextOf(o)' = NextOf(o)
  PROVE  InItsCall(u)'
  <1>1. /\ held'[u] = held[u] /\ own'[u] = own[u] /\ arg'[u] = arg[u] /\ op'[u] = op[u] /\ pc'[u] = pc[u]
    BY DEF Frame
  <1>2. ASSUME pc[u] \in {"peek", "strong", "compare"}, job[u] = "take"
        PROVE  \E o \in Objects : held'[u] = o /\ arg'[u] = NextOf(o)'
    <2>1. PICK o \in Objects : held[u] = o /\ arg[u] = NextOf(o)
      BY <1>2 DEF InItsCall
    <2>2. NextOf(o)' = NextOf(o)
      BY <1>1, <2>1
    <2> QED BY <1>1, <2>1, <2>2
  <1> QED BY <1>1, <1>2 DEF InItsCall

LEMMA RegisterKeepsCall ==
  ASSUME IInv, NEW t \in Threads, RegisterStep(t), InItsCall(t), job' = job,
         \A o \in Objects : held[t] = o /\ held'[t] = o => NextOf(o)' = NextOf(o)
  PROVE  InItsCall(t)'
  <1>k. /\ RegisterIInv /\ TypeOK /\ LocalInPlace(t)
    BY Known DEF IInv
  <1>j. job[t] \in {"none", "push", "pop", "take", "again"} /\ won[t] \in BOOLEAN /\ won \in [Threads -> BOOLEAN]
    BY <1>k DEF IInv, JobsInPlace, TypeOK
  <1>m. RegisterMoves(t)
    BY <1>k, RegisterStepMoves
  <1>p. /\ op'[t] = op[t] \/ op'[t] = "none"
        /\ pc'[t] = "acquire" => pc[t] = "acquire"
        /\ pc'[t] \in {"peek", "strong", "compare"} =>
              pc[t] \in {"peek", "strong", "compare"} /\ held'[t] = held[t] /\ arg'[t] = arg[t]
        /\ pc[t] \in {"charge", "drop", "idle"} => pc'[t] \in {"charge", "drop", "idle"}
    <2>1. CASE Strong(t)
      BY <1>k, <2>1 DEF Strong, At, Goto, TypeOK
    <2>2. CASE Charge(t)
      BY <1>k, <2>2 DEF Charge, At, Goto, TypeOK
    <2>3. CASE Cancel(t)
      BY <1>k, <2>3 DEF Cancel, At, Goto, TypeOK
    <2>4. CASE Raise(t)
      BY <1>k, <2>4 DEF Raise, At, Goto, TypeOK
    <2>5. CASE Settle(t)
      BY <1>k, <2>5 DEF Settle, At, Goto, TypeOK
    <2>6. CASE MoveAssign(t)
      BY <1>k, <2>6 DEF MoveAssign, At, Goto, TypeOK
    <2>7. CASE Drop(t)
      BY <1>k, <2>7 DEF Drop, At, Goto, TypeOK
    <2>8. CASE Cascade(t)
      BY <2>8 DEF Cascade
    <2>9. CASE Exchange(t)
      BY <1>k, <2>9 DEF Exchange, At, Goto, TypeOK
    <2>10. CASE Peek(t)
      BY <1>k, <2>10 DEF Peek, At, Goto, TypeOK
    <2>11. CASE Compare(t)
      BY <1>k, <2>11 DEF Compare, At, Goto, TypeOK
    <2>12. CASE CompareFails(t)
      BY <1>k, <2>12 DEF CompareFails, At, Goto, TypeOK
    <2>13. CASE LoadRead(t)
      BY <1>k, <2>13 DEF LoadRead, At, Goto, TypeOK
    <2>14. CASE Bump(t)
      <3>1. pc[t] = "bump" /\ op' = op /\ \E label \in {"raise", "assign", "bump"} : pc' = [pc EXCEPT ![t] = label]
        BY <2>14 DEF Bump, At, Goto
      <3> QED BY <1>k, <3>1 DEF TypeOK
    <2>15. CASE Flush(t)
      BY <1>k, <2>15 DEF Flush, At, Goto, TypeOK
    <2> QED BY <2>1, <2>2, <2>3, <2>4, <2>5, <2>6, <2>7, <2>8, <2>9, <2>10, <2>11, <2>12, <2>13, <2>14, <2>15 DEF RegisterStep
  <1>1. won'[t] => job[t] \in {"push", "take"} /\ pc'[t] \in {"charge", "drop", "idle"}
    <2>1. CASE Wins(t)
      <3>1. op[t] = "Cas" /\ pc'[t] = "charge"
        BY <1>k, <2>1, WinMoves
      <3> QED BY <1>j, <3>1 DEF InItsCall
    <2>2. CASE ~ Wins(t)
      BY <1>k, <1>p, <2>2, OnlyWinsMove DEF InItsCall
    <2> QED BY <2>1, <2>2
  <1>2. ASSUME pc'[t] \in {"peek", "strong", "compare"}, job[t] = "take"
        PROVE  \E o \in Objects : held'[t] = o /\ arg'[t] = NextOf(o)'
    <2>1. PICK o \in Objects : held[t] = o /\ arg[t] = NextOf(o)
      BY <1>2, <1>p DEF InItsCall
    <2>2. NextOf(o)' = NextOf(o)
      BY <1>2, <1>p, <2>1
    <2> QED BY <1>2, <1>p, <2>1, <2>2
  <1>3. pc'[t] \in {"peek", "strong", "compare"} /\ job[t] = "push" => arg'[t] = own'[t]
    BY <1>p, <1>m DEF InItsCall, RegisterMoves
  <1> QED BY <1>p, <1>1, <1>2, <1>3 DEF InItsCall

\* The nodes of the stack can be found.
LEMMA ChainIsPublic ==
  ASSUME IInv, NEW s, Contains(s), NEW i \in 1 .. Len(s)
  PROVE  s[i] \in Objects /\ s[i] \in alive /\ Public(s[i]) /\ ((\A w \in Threads : Hidden(w)) => ~ Private(s[i]))
  <1>1. s \in Seq(Objects) /\ Linked(s) /\ ptr.raw = FirstOf(s) /\ Len(s) \in Nat /\ i \in Nat
    BY DEF Contains
  <1>2. s[i] \in Objects /\ s[i] # nullptr /\ s # <<>>
    BY <1>1, SharedPtrAssumption
  <1>3. Public(s[i])
    <2>1. CASE i = 1
      <3>1. ptr.raw = s[i]
        BY <1>1, <1>2, <2>1 DEF FirstOf
      <3> QED BY <3>1 DEF Public
    <2>2. CASE i # 1
      <3>1. i - 1 \in 1 .. Len(s) /\ i - 1 # Len(s) /\ (i - 1) + 1 = i
        BY <1>1, <2>2
      <3>2. NextOf(s[i - 1]) = s[i] /\ s[i - 1] \in Objects
        BY <1>1, <3>1 DEF Linked
      <3>3. PICK o \in Objects : o = s[i - 1] /\ NextOf(o) = s[i]
        BY <3>2
      <3> QED BY <1>2, <3>3, NextIsAlive DEF NextLives
    <2> QED BY <2>1, <2>2
  <1>4. s[i] \in alive
    BY <1>1 DEF Linked
  <1> QED BY <1>2, <1>3, <1>4 DEF Private, Hidden

LEMMA ChainStays ==
  ASSUME IInv, IInv', NextKeeps, \A w \in Threads : Hidden(w), ptr'.raw = ptr.raw, NEW s, Contains(s)
  PROVE  Contains(s)'
  <1>1. s \in Seq(Objects) /\ Linked(s) /\ ptr'.raw = FirstOf(s)
    BY DEF Contains
  <1>2. \A i \in 1 .. Len(s) : s[i] \in alive' => NextOf(s[i])' = NextOf(s[i])
    <2> TAKE i \in 1 .. Len(s)
    <2>1. PICK o \in Objects : o = s[i]
      BY <1>1
    <2>2. o \in alive /\ ~ Private(o)
      BY <2>1, ChainIsPublic
    <2>3. o \in alive' => NextOf(o)' = NextOf(o)
      BY <2>2 DEF NextKeeps
    <2> QED BY <2>1, <2>3
  <1> QED BY <1>1, <1>2, LinkedMoves

\* A push that wins.
LEMMA ChainGrows ==
  ASSUME IInv, IInv', StackInPlace, client = "stack", NEW t \in Threads, Wins(t), job[t] = "push",
         \A o \in Objects : NextOf(o)' = NextOf(o), NEW s, Contains(s)
  PROVE  Contains(<<own[t]>> \o s)'
  <1>1. s \in Seq(Objects) /\ Linked(s) /\ ptr.raw = FirstOf(s) /\ Len(s) \in Nat /\ (s = <<>> <=> Len(s) = 0)
    BY DEF Contains
  <1>2. /\ ptr.raw = held[t] /\ ptr'.raw = arg[t] /\ pc[t] = "compare" /\ own' = own
    BY WinMoves DEF IInv, StackInPlace
  <1>3. PICK p : p = own[t]
    OBVIOUS
  <1>4. /\ p \in Objects /\ p \in alive /\ arg[t] = p /\ ~ Public(p) /\ NextOf(p) = held[t]
    <2>1. InItsCall(t) /\ Hidden(t) /\ JobsInPlace /\ RegisterIInv /\ ~ won[t]
      BY <1>2 DEF StackInPlace, InItsCall, IInv
    <2>2. p \in Objects /\ p \in alive
      BY <1>3, <2>1, Known, Lives DEF JobsInPlace, Pushes, Pointers
    <2>3. arg[t] = p /\ ~ Public(p)
      BY <1>2, <1>3, <2>1 DEF InItsCall, Hidden, Pushes
    <2>4. NextOf(p) = held[t]
      BY <1>3, <2>1, <2>2, NextOfIs DEF NextOfRight, Pushes
    <2> QED BY <2>2, <2>3, <2>4
  <1>5. PICK r : r = <<p>> \o s
    OBVIOUS
  <1>6. /\ r \in Seq(Objects) /\ Len(r) = Len(s) + 1 /\ r # <<>> /\ r[1] = p
        /\ \A i \in 2 .. Len(r) : r[i] = s[i - 1]
    BY <1>1, <1>4, <1>5
  <1>7. \A i \in 1 .. Len(s) : s[i] # p
    BY <1>4, ChainIsPublic
  <1>8. Linked(r)
    <2>1. \A i, j \in 1 .. Len(r) : r[i] = r[j] => i = j
      <3> SUFFICES ASSUME NEW i \in 1 .. Len(r), NEW j \in 1 .. Len(r), r[i] = r[j] PROVE i = j
        OBVIOUS
      <3>1. CASE i = 1 \/ j = 1
        BY <1>1, <1>6, <1>7, <3>1
      <3>2. CASE i # 1 /\ j # 1
        <4>1. i - 1 \in 1 .. Len(s) /\ j - 1 \in 1 .. Len(s) /\ r[i] = s[i - 1] /\ r[j] = s[j - 1]
          BY <1>1, <1>6, <3>2
        <4>2. i - 1 = j - 1
          BY <1>1, <4>1 DEF Linked
        <4> QED BY <1>1, <1>6, <4>2
      <3> QED BY <3>1, <3>2
    <2>2. ASSUME NEW i \in 1 .. Len(r)
          PROVE  r[i] \in alive /\ NextOf(r[i]) = IF i = Len(r) THEN nullptr ELSE r[i + 1]
      <3>1. CASE i = 1
        <4>1. held[t] = IF Len(r) = 1 THEN nullptr ELSE r[2]
          BY <1>1, <1>2, <1>6 DEF FirstOf
        <4> QED BY <1>4, <1>6, <3>1, <4>1
      <3>2. CASE i # 1
        <4>0. i - 1 \in 1 .. Len(s) /\ (i - 1) + 1 = i /\ (i = Len(r) <=> i - 1 = Len(s)) /\ i \in 2 .. Len(r)
              /\ (i # Len(r) => i + 1 \in 2 .. Len(r) /\ (i + 1) - 1 = i)
          BY <1>1, <1>6, <2>2, <3>2
        <4>1. r[i] = s[i - 1] /\ (i # Len(r) => r[i + 1] = s[i])
          BY <1>6, <4>0
        <4>2. s[i - 1] \in alive /\ NextOf(s[i - 1]) = IF i - 1 = Len(s) THEN nullptr ELSE s[i]
          BY <1>1, <4>0 DEF Linked
        <4> QED BY <4>0, <4>1, <4>2
      <3> QED BY <3>1, <3>2
    <2> QED BY <2>1, <2>2 DEF Linked
  <1>9. ptr'.raw = FirstOf(r)
    BY <1>2, <1>4, <1>6 DEF FirstOf
  <1>10. \A i \in 1 .. Len(r) : NextOf(r[i])' = NextOf(r[i])
    <2> TAKE i \in 1 .. Len(r)
    <2>1. PICK o \in Objects : o = r[i]
      BY <1>6
    <2>2. NextOf(o)' = NextOf(o)
      OBVIOUS
    <2> QED BY <2>1, <2>2
  <1>11. Contains(r)'
    BY <1>6, <1>8, <1>9, <1>10, LinkedMoves
  <1> QED BY <1>2, <1>3, <1>5, <1>11

\* A pop that wins.
LEMMA ChainShrinks ==
  ASSUME IInv, IInv', StackInPlace, client = "stack", NEW t \in Threads, Wins(t), job[t] = "take",
         \A o \in Objects : NextOf(o)' = NextOf(o), NEW s, Contains(s)
  PROVE  s # <<>> /\ Head(s) = held[t] /\ Contains(Tail(s))'
  <1>1. s \in Seq(Objects) /\ Linked(s) /\ ptr.raw = FirstOf(s) /\ Len(s) \in Nat /\ (s = <<>> <=> Len(s) = 0)
    BY DEF Contains
  <1>2. /\ ptr.raw = held[t] /\ ptr'.raw = arg[t] /\ pc[t] = "compare"
    BY WinMoves DEF IInv, StackInPlace
  <1>3. PICK p \in Objects : p = held[t] /\ arg[t] = NextOf(p)
    BY <1>2 DEF StackInPlace, InItsCall
  <1>4. s # <<>> /\ s[1] = p /\ p # nullptr
    BY <1>1, <1>2, <1>3, SharedPtrAssumption DEF FirstOf
  <1>5. PICK r : r = Tail(s)
    OBVIOUS
  <1>6. /\ r \in Seq(Objects) /\ Len(r) = Len(s) - 1 /\ (r = <<>> <=> Len(r) = 0) /\ Len(r) \in Nat
        /\ \A i \in 1 .. Len(r) : r[i] = s[i + 1] /\ i + 1 \in 1 .. Len(s)
    <2>1. r \in Seq(Objects) /\ Len(r) = Len(s) - 1
      BY <1>1, <1>4, <1>5
    <2>2. (r = <<>> <=> Len(r) = 0) /\ Len(r) \in Nat
      <3>1. r \in Seq(Objects)
        BY <2>1
      <3> QED BY ONLY <3>1
    <2>3. ASSUME NEW i \in 1 .. Len(r) PROVE r[i] = s[i + 1] /\ i + 1 \in 1 .. Len(s)
      BY <1>1, <1>4, <1>5, <2>1, <2>3
    <2> QED BY <2>1, <2>2, <2>3
  <1>7. Linked(r)
    <2>1. \A i, j \in 1 .. Len(r) : r[i] = r[j] => i = j
      <3> SUFFICES ASSUME NEW i \in 1 .. Len(r), NEW j \in 1 .. Len(r), r[i] = r[j] PROVE i = j
        OBVIOUS
      <3>1. i + 1 = j + 1
        BY <1>1, <1>6 DEF Linked
      <3> QED BY <1>6, <3>1
    <2>2. ASSUME NEW i \in 1 .. Len(r)
          PROVE  r[i] \in alive /\ NextOf(r[i]) = IF i = Len(r) THEN nullptr ELSE r[i + 1]
      <3>1. i + 1 \in 1 .. Len(s) /\ (i = Len(r) <=> i + 1 = Len(s)) /\ r[i] = s[i + 1]
            /\ (i # Len(r) => r[i + 1] = s[(i + 1) + 1])
        BY <1>1, <1>6, <2>2
      <3>2. s[i + 1] \in alive /\ NextOf(s[i + 1]) = IF i + 1 = Len(s) THEN nullptr ELSE s[(i + 1) + 1]
        BY <1>1, <3>1 DEF Linked
      <3> QED BY <3>1, <3>2
    <2> QED BY <2>1, <2>2 DEF Linked
  <1>8. ptr'.raw = FirstOf(r)
    <2>0. 1 \in 1 .. Len(s) /\ 1 + 1 = 2
      BY <1>1, <1>4
    <2>1. NextOf(s[1]) = IF 1 = Len(s) THEN nullptr ELSE s[2]
      BY <1>1, <2>0 DEF Linked
    <2>2. FirstOf(r) = IF 1 = Len(s) THEN nullptr ELSE s[2]
      BY <1>1, <1>4, <1>6 DEF FirstOf
    <2> QED BY <1>2, <1>3, <1>4, <2>1, <2>2
  <1>9. \A i \in 1 .. Len(r) : NextOf(r[i])' = NextOf(r[i])
    <2> TAKE i \in 1 .. Len(r)
    <2>1. PICK o \in Objects : o = r[i]
      BY <1>6
    <2>2. NextOf(o)' = NextOf(o)
      OBVIOUS
    <2> QED BY <2>1, <2>2
  <1>10. Contains(r)'
    BY <1>6, <1>7, <1>8, <1>9, LinkedMoves
  <1> QED BY <1>1, <1>3, <1>4, <1>5, <1>10

\* What a step of t is to the abstract stack.
ItemOf(t) == CASE job[t] = "push" -> own[t]
               [] StackPhase(t) = "popped" -> held[t]
               [] OTHER -> nullptr

Goes(t, from, to, x) == StackPhase(t) = from /\ StackPhase(t)' = to /\ ItemOf(t)' = x

Waits(t)      == StackPhase(t)' = StackPhase(t) /\ ItemOf(t)' = ItemOf(t) /\ Chain' = Chain
Asks(t)       == (Goes(t, "idle", "pop", nullptr) \/ \E x \in Objects : Goes(t, "idle", "push", x)) /\ Chain' = Chain
Adds(t)       == Goes(t, "push", "pushed", ItemOf(t)) /\ Chain' = <<ItemOf(t)>> \o Chain
Takes(t)      == Chain # <<>> /\ Goes(t, "pop", "popped", Head(Chain)) /\ Chain' = Tail(Chain)
FindsNone(t)  == Chain = <<>> /\ Goes(t, "pop", "empty", nullptr) /\ Chain' = Chain
Answers(t)    == (\E answer \in {"pushed", "popped", "empty"} : Goes(t, answer, "idle", nullptr)) /\ Chain' = Chain

OthersWait(t) == \A u \in Threads : u # t => StackPhase(u)' = StackPhase(u) /\ ItemOf(u)' = ItemOf(u)

ActsOnStack(t) ==
    OthersWait(t) /\ (Waits(t) \/ Asks(t) \/ Adds(t) \/ Takes(t) \/ FindsNone(t) \/ Answers(t))

LEMMA OthersAreStill ==
  ASSUME NEW t \in Threads, Frame(t), \A u \in Threads : u # t => job'[u] = job[u] /\ won'[u] = won[u]
  PROVE  OthersWait(t)
  BY DEF OthersWait, Frame, StackPhase, FindsEmpty, ItemOf

\* A Load of a pop that finds no node, finds it in the register.
LEMMA PopFinds ==
  ASSUME RegisterIInv, NEW t \in Threads, RegisterStep(t), InItsCall(t), job' = job, job[t] = "pop"
  PROVE  /\ FindsEmpty(t) => FindsEmpty(t)'
         /\ FindsEmpty(t)' => FindsEmpty(t) \/ ptr.raw = nullptr
  <1>k. /\ TypeOK /\ LocalInPlace(t) /\ op[t] \in {"none", "Load", "Store", "Cas"}
    BY Known
  <1>1. op[t] \in {"none", "Load"} /\ job'[t] = "pop"
    BY <1>k DEF InItsCall
  <1>2. pc[t] \notin {"strong", "exchange", "charge", "peek", "compare", "cancel"}
    BY <1>k, <1>1 DEF LocalInPlace
  <1>3. CASE Strong(t) \/ Exchange(t) \/ Charge(t) \/ Peek(t) \/ Compare(t) \/ CompareFails(t) \/ Cancel(t)
    BY <1>2, <1>3 DEF Strong, Exchange, Charge, Peek, Compare, CompareFails, Cancel, At
  <1>4. CASE LoadRead(t)
    <2>1. pc[t] = "load" /\ res'[t] = nullptr /\ (pc'[t] = "assign" => ptr.raw = nullptr) /\ pc'[t] \in {"assign", "bump"}
      BY <1>k, <1>4 DEF LoadRead, At, Goto, LocalInPlace, TypeOK
    <2> QED BY <1>1, <2>1 DEF FindsEmpty
  <1>5. CASE Bump(t)
    <2>1. pc[t] = "bump" /\ res[t] = nullptr /\ current[t].raw # nullptr
      BY <1>k, <1>5 DEF Bump, At, LocalInPlace
    <2>2. CASE ptr = current[t]
      <3>1. res' = [res EXCEPT ![t] = ptr.raw] /\ \E label \in {"raise", "assign"} : pc' = [pc EXCEPT ![t] = label]
        BY <1>5, <2>2 DEF Bump, Goto
      <3>2. res'[t] # nullptr /\ pc'[t] \in {"raise", "assign"}
        BY <1>k, <2>1, <2>2, <3>1 DEF TypeOK
      <3> QED BY <1>1, <2>1, <3>2 DEF FindsEmpty
    <2>3. CASE ptr # current[t]
      <3>1. pc' = [pc EXCEPT ![t] = IF ptr.raw = nullptr THEN "assign" ELSE "bump"]
        BY <1>5, <2>3 DEF Bump, Goto
      <3>2. pc'[t] = IF ptr.raw = nullptr THEN "assign" ELSE "bump"
        BY <1>k, <3>1 DEF TypeOK
      <3> QED BY <1>1, <2>1, <3>2 DEF FindsEmpty
    <2> QED BY <2>2, <2>3
  <1>6. CASE Raise(t)
    <2>1. pc[t] = "raise" /\ pc'[t] = "flush"
      BY <1>k, <1>6 DEF Raise, At, Goto, TypeOK
    <2> QED BY <2>1 DEF FindsEmpty
  <1>7. CASE Flush(t)
    <2>1. pc[t] = "flush" /\ pc'[t] \in {"settle", "flush"}
      BY <1>k, <1>7 DEF Flush, At, Goto, TypeOK
    <2> QED BY <2>1 DEF FindsEmpty
  <1>8. CASE Settle(t)
    <2>1. pc[t] = "settle" /\ pc'[t] = "assign" /\ res'[t] = res[t] /\ res[t] # nullptr
      BY <1>k, <1>8 DEF Settle, At, Goto, LocalInPlace, TypeOK
    <2> QED BY <2>1 DEF FindsEmpty
  <1>9. CASE MoveAssign(t)
    <2>1. pc[t] = "assign" /\ pc'[t] = "drop" /\ held'[t] = res[t]
      BY <1>k, <1>1, <1>9 DEF MoveAssign, At, Goto, TypeOK
    <2> QED BY <1>1, <2>1 DEF FindsEmpty
  <1>10. CASE Drop(t)
    <2>1. pc[t] = "drop" /\ pc'[t] = "idle" /\ held' = held
      BY <1>k, <1>10 DEF Drop, At, Goto, TypeOK
    <2> QED BY <1>1, <2>1 DEF FindsEmpty
  <1>11. CASE Cascade(t)
    BY <1>1, <1>11 DEF Cascade, FindsEmpty
  <1> QED BY <1>3, <1>4, <1>5, <1>6, <1>7, <1>8, <1>9, <1>10, <1>11 DEF RegisterStep

\* A step of the register that wins nothing.
LEMMA RegisterWaits ==
  ASSUME RegisterIInv, JobsInPlace, NEW t \in Threads, RegisterStep(t), InItsCall(t), job' = job, ~ Wins(t)
  PROVE  \/ StackPhase(t)' = StackPhase(t) /\ ItemOf(t)' = ItemOf(t)
         \/ Goes(t, "pop", "empty", nullptr) /\ ptr.raw = nullptr
  <1>1. won' = won /\ RegisterMoves(t)
    BY OnlyWinsMove, RegisterStepMoves
  <1>2. job[t] \in {"none", "push", "pop", "take", "again"} /\ job'[t] = job[t] /\ own'[t] = own[t]
    BY <1>1 DEF JobsInPlace, RegisterMoves
  <1>3. CASE job[t] = "push"
    BY <1>1, <1>2, <1>3 DEF StackPhase, ItemOf
  <1>4. CASE job[t] = "take"
    <2>1. won[t] => held'[t] = held[t]
      BY <1>1 DEF InItsCall, RegisterMoves
    <2>2. ~ FindsEmpty(t) /\ ~ FindsEmpty(t)'
      BY <1>2, <1>4 DEF FindsEmpty
    <2> QED BY <1>1, <1>2, <1>4, <2>1, <2>2 DEF StackPhase, ItemOf
  <1>5. CASE job[t] \in {"none", "again"}
    <2>1. ~ FindsEmpty(t) /\ ~ FindsEmpty(t)'
      BY <1>2, <1>5 DEF FindsEmpty
    <2> QED BY <1>2, <1>5, <2>1 DEF StackPhase, ItemOf
  <1>6. CASE job[t] = "pop"
    <2>1. /\ StackPhase(t) = IF FindsEmpty(t) THEN "empty" ELSE "pop"
          /\ StackPhase(t)' = IF FindsEmpty(t)' THEN "empty" ELSE "pop"
      BY <1>2, <1>6 DEF StackPhase
    <2>2. ItemOf(t) = nullptr /\ ItemOf(t)' = nullptr
      BY <1>2, <1>6, <2>1 DEF ItemOf
    <2> QED BY <1>6, <2>1, <2>2, PopFinds DEF Goes
  <1> QED BY <1>2, <1>3, <1>4, <1>5, <1>6

\* A step that leaves the nodes of the stack alone.
LEMMA LocalStep ==
  ASSUME StackIInv, IInv', client = "stack", client' = client, NEW t \in Threads, Frame(t),
         \A u \in Threads : u # t => job'[u] = job[u] /\ won'[u] = won[u],
         NextKeeps, PublicShrinks, ptr'.raw = ptr.raw, InItsCall(t)', Hidden(t)',
         \A w \in Threads : w # t /\ Pushes(w) /\ ~ won[w] => arg'[t] # own[w]
  PROVE  StackInPlace' /\ Chain' = Chain /\ OthersWait(t)
  <1>1. IInv /\ JobsInPlace /\ TypeOK /\ \A u \in Threads : InItsCall(u) /\ Hidden(u)
    BY DEF StackIInv, StackInPlace, IInv, RegisterIInv
  <1>2. ASSUME NEW u \in Threads PROVE InItsCall(u)'
    <2>1. \A o \in Objects : held[u] = o /\ held'[u] = o => NextOf(o)' = NextOf(o)
      BY <1>1, TopsKeep
    <2>2. u # t => InItsCall(u)'
      BY <1>1, <2>1, OthersInCall
    <2> QED BY <2>2
  <1>3. ASSUME NEW w \in Threads, w # t PROVE Hidden(w)'
    <2> SUFFICES ASSUME Pushes(w)', ~ won'[w]
                 PROVE  ~ Public(own[w])' /\ \A u \in Threads : u # w => arg'[u] # own'[w]
      BY DEF Hidden
    <2>1. Pushes(w) /\ ~ won[w] /\ own'[w] = own[w]
      BY <1>3 DEF Pushes, Frame
    <2>2. PICK o \in Objects : o = own[w] /\ o = own'[w]
      BY <1>1, <2>1 DEF JobsInPlace, TypeOK, Pointers
    <2>3. ~ Public(o) /\ \A u \in Threads : u # w => arg[u] # o
      BY <1>1, <2>1, <2>2 DEF Hidden
    <2>4. ~ Public(o)'
      BY <2>3 DEF PublicShrinks
    <2>5. ~ Public(own[w])'
      BY <2>2, <2>4 DEF Public, NoMember
    <2>6. \A u \in Threads : u # w => arg'[u] # o
      BY <1>3, <2>1, <2>2, <2>3 DEF Frame
    <2> QED BY <2>2, <2>5, <2>6
  <1>4. PICK s : Contains(s)
    BY DEF StackIInv, StackInPlace
  <1>5. Contains(s)'
    BY <1>1, <1>4, ChainStays
  <1>6. ChainRight /\ ChainRight'
    BY ChainIs, PTL
  <1>7. Chain' = Chain
    BY <1>4, <1>5, <1>6 DEF ChainRight
  <1>8. \E r : Contains(r)'
    BY <1>5
  <1>9. StackInPlace'
    BY <1>2, <1>3, <1>8 DEF StackInPlace
  <1>10. OthersWait(t)
    BY OthersAreStill
  <1> QED BY <1>7, <1>9, <1>10

\* Every step of the register, in a call of the stack.
LEMMA RegisterOnStack ==
  ASSUME StackIInv, IInv', client = "stack", NEW t \in Threads, RegisterStep(t), UNCHANGED <<client, job>>
  PROVE  StackInPlace' /\ ActsOnStack(t)
  <1>1. /\ IInv /\ RegisterIInv /\ JobsInPlace /\ JobsInPlace' /\ TypeOK /\ client' = client /\ job' = job
        /\ \A u \in Threads : InItsCall(u) /\ Hidden(u)
    BY DEF StackIInv, StackInPlace, IInv, RegisterIInv
  <1>2. Frame(t) /\ RegisterMoves(t)
    BY <1>1, RegisterStepKeeps, RegisterStepMoves DEF Implements
  <1>3. NextKeeps
    BY <1>1, <1>2, RegisterKeepsNext
  <1>4. InItsCall(t)'
    <2>1. \A o \in Objects : held[t] = o /\ held'[t] = o => NextOf(o)' = NextOf(o)
      BY <1>1, <1>3, TopsKeep
    <2> QED BY <1>1, <2>1, RegisterKeepsCall
  <1>5. \A u \in Threads : u # t => job'[u] = job[u] /\ won'[u] = won[u]
    BY <1>1, <1>2 DEF RegisterMoves
  <1>6. \A o \in Objects : Public(o)' => Public(o) \/ ptr'.raw = o
    BY <1>1, <1>2, MovesShrink DEF RegisterMoves
  <1>7. \A w \in Threads : Pushes(w) => own[w] \in Objects
    BY <1>1 DEF JobsInPlace, TypeOK, Pointers
  <1>8. CASE ~ Wins(t)
    <2>1. ptr'.raw = ptr.raw /\ won' = won
      BY <1>1, <1>8, OnlyWinsMove
    <2>2. PublicShrinks
      BY <1>6, <2>1 DEF PublicShrinks, Public
    <2>3. \A w \in Threads : w # t /\ Pushes(w) /\ ~ won[w] => arg'[t] # own[w]
      BY <1>1, <1>2, <1>7, SharedPtrAssumption DEF Hidden, RegisterMoves
    <2>4. Hidden(t)'
      <3> SUFFICES ASSUME Pushes(t)', ~ won'[t]
                   PROVE  ~ Public(own[t])' /\ \A u \in Threads : u # t => arg'[u] # own'[t]
        BY DEF Hidden
      <3>1. Pushes(t) /\ ~ won[t] /\ own'[t] = own[t]
        BY <1>1, <1>2, <2>1 DEF Pushes, RegisterMoves
      <3>2. PICK o \in Objects : o = own[t] /\ o = own'[t]
        BY <1>7, <3>1
      <3>3. ~ Public(o) /\ \A u \in Threads : u # t => arg[u] # o
        BY <1>1, <3>1, <3>2 DEF Hidden
      <3>4. ~ Public(own[t])'
        BY <2>2, <3>2, <3>3 DEF PublicShrinks, Public, NoMember
      <3> QED BY <1>2, <3>2, <3>3, <3>4 DEF Frame
    <2>5. StackInPlace' /\ Chain' = Chain /\ OthersWait(t)
      BY <1>1, <1>2, <1>3, <1>4, <1>5, <2>1, <2>2, <2>3, <2>4, LocalStep
    <2>6. ptr.raw = nullptr => Chain = <<>>
      <3>1. PICK s : Contains(s)
        BY DEF StackIInv, StackInPlace
      <3>2. Chain = s
        BY <3>1, ChainIs DEF ChainRight
      <3>3. s \in Seq(Objects) /\ ptr.raw = FirstOf(s)
        BY <3>1 DEF Contains
      <3> QED BY <3>2, <3>3, SharedPtrAssumption DEF FirstOf
    <2>7. \/ StackPhase(t)' = StackPhase(t) /\ ItemOf(t)' = ItemOf(t)
          \/ Goes(t, "pop", "empty", nullptr) /\ ptr.raw = nullptr
      BY <1>1, <1>8, RegisterWaits
    <2> QED BY <2>5, <2>6, <2>7 DEF ActsOnStack, Waits, FindsNone
  <1>9. CASE Wins(t)
    <2>1. /\ ptr.raw = held[t] /\ ptr'.raw = arg[t] /\ won' = [won EXCEPT ![t] = TRUE]
          /\ pc[t] = "compare" /\ op[t] = "Cas"
          /\ next' = next /\ held' = held /\ own' = own /\ arg' = arg
      BY <1>1, <1>9, WinMoves DEF heap
    <2>2. ~ won[t] /\ won'[t] /\ job[t] \in {"push", "take"}
      BY <1>1, <2>1 DEF InItsCall, JobsInPlace, TypeOK
    <2>3. \A o \in Objects : NextOf(o)' = NextOf(o)
      BY <1>1, <2>1 DEF NextOf
    <2>4. PICK s : Contains(s)
      BY DEF StackIInv, StackInPlace
    <2>5. Chain = s /\ ChainRight'
      <3>1. ChainRight /\ ChainRight'
        BY ChainIs, PTL
      <3> QED BY <2>4, <3>1 DEF ChainRight
    <2>6. \A u \in Threads : InItsCall(u)'
      BY <1>1, <1>2, <1>4, <1>5, <2>3, OthersInCall
    <2>7. ASSUME NEW w \in Threads PROVE Hidden(w)'
      <3> SUFFICES ASSUME Pushes(w)', ~ won'[w]
                   PROVE  ~ Public(own[w])' /\ \A u \in Threads : u # w => arg'[u] # own'[w]
        BY DEF Hidden
      <3>1. Pushes(w) /\ ~ won[w] /\ w # t
        BY <1>1, <1>5, <2>2 DEF Pushes
      <3>2. PICK o \in Objects : o = own[w] /\ o = own'[w]
        BY <1>7, <2>1, <3>1
      <3>3. ~ Public(o) /\ \A u \in Threads : u # w => arg[u] # o
        BY <1>1, <3>1, <3>2 DEF Hidden
      <3>4. ~ Public(o)'
        BY <1>6, <2>1, <3>1, <3>3
      <3>5. ~ Public(own[w])'
        BY <3>2, <3>4 DEF Public, NoMember
      <3> QED BY <2>1, <3>2, <3>3, <3>5
    <2>8. CASE job[t] = "push"
      <3>1. Contains(<<own[t]>> \o s)'
        BY <1>1, <1>9, <2>3, <2>4, <2>8, ChainGrows DEF StackIInv
      <3>2. PICK r : r = <<own[t]>> \o s /\ Contains(r)'
        BY <2>1, <3>1
      <3>3. Chain' = r
        BY <2>5, <3>2 DEF ChainRight
      <3>4. StackPhase(t) = "push" /\ StackPhase(t)' = "pushed" /\ ItemOf(t) = own[t] /\ ItemOf(t)' = own[t]
        <4>1. job[t] = "push" /\ job'[t] = "push" /\ own'[t] = own[t] /\ ~ won[t] /\ won'[t]
          BY <1>1, <2>1, <2>2, <2>8
        <4>2. StackPhase(t) = "push" /\ StackPhase(t)' = "pushed"
          BY ONLY <4>1 DEF StackPhase, FindsEmpty
        <4> QED BY ONLY <4>1, <4>2 DEF ItemOf
      <3>5. Adds(t)
        BY <2>5, <3>2, <3>3, <3>4 DEF Adds, Goes
      <3>6. StackInPlace'
        BY <1>1, <2>6, <2>7, <3>2 DEF StackInPlace
      <3> QED BY <1>2, <1>5, <3>5, <3>6, OthersAreStill DEF ActsOnStack
    <2>9. CASE job[t] = "take"
      <3>1. s # <<>> /\ Head(s) = held[t] /\ Contains(Tail(s))'
        BY <1>1, <1>9, <2>3, <2>4, <2>9, ChainShrinks DEF StackIInv
      <3>2. PICK r : r = Tail(s) /\ Contains(r)'
        BY <3>1
      <3>3. Chain' = r
        BY <2>5, <3>2 DEF ChainRight
      <3>5. StackPhase(t) = "pop" /\ StackPhase(t)' = "popped" /\ ItemOf(t)' = held[t]
        <4>1. job[t] = "take" /\ job'[t] = "take" /\ held'[t] = held[t] /\ ~ won[t] /\ won'[t]
          BY <1>1, <2>1, <2>2, <2>9
        <4>2. StackPhase(t) = "pop" /\ StackPhase(t)' = "popped"
          BY ONLY <4>1 DEF StackPhase, FindsEmpty
        <4> QED BY ONLY <4>1, <4>2 DEF ItemOf
      <3>6. Takes(t)
        BY <2>5, <3>1, <3>2, <3>3, <3>5 DEF Takes, Goes
      <3>7. StackInPlace'
        BY <1>1, <2>6, <2>7, <3>2 DEF StackInPlace
      <3> QED BY <1>2, <1>5, <3>6, <3>7, OthersAreStill DEF ActsOnStack
    <2> QED BY <2>2, <2>8, <2>9
  <1> QED BY <1>8, <1>9

\* The steps of Push and TryPop; most leave the nodes where they are.
LEMMA NodesStay ==
  ASSUME IInv, IInv', NEW t \in Threads, Frame(t), MovesHeap(t), own' = own, ptr' = ptr, res' = res,
         \A u \in Threads : Pushes(u)' <=> Pushes(u),
         held' = held \/ (~ Pushes(t) /\ held'[t] = nullptr)
  PROVE  NextKeeps /\ PublicShrinks
  <1>1. JobsInPlace /\ JobsInPlace' /\ TypeOK
    BY DEF IInv, RegisterIInv
  <1>2. \A u \in Threads : Pushes(u) => held'[u] = held[u]
    BY DEF Frame
  <1>3. ASSUME NEW o \in Objects, o \in alive' PROVE NextOf(o)' = NextOf(o)
    <2>1. next'[o] = next[o]
      BY <1>3 DEF MovesHeap
    <2>2. \A u \in Threads : Pushes(u) /\ own[u] = o => Pushes(u)' /\ own'[u] = o /\ held'[u] = held[u]
      BY <1>2
    <2>3. \A u \in Threads : ~ (Pushes(u) /\ own[u] = o) => ~ (Pushes(u)' /\ own'[u] = o)
      OBVIOUS
    <2> QED BY <1>1, <2>1, <2>2, <2>3, NextStays
  <1>4. \A o \in Objects : Public(o)' => Public(o) \/ ptr'.raw = o
    <2>1. held'[t] \in {held[t], res[t], nullptr} /\ res'[t] \in {res[t], nullptr, ptr.raw}
      OBVIOUS
    <2> QED BY <1>1, <2>1, MovesShrink
  <1> QED BY <1>3, <1>4 DEF NextKeeps, PublicShrinks, Public

\* A thread that pushes nothing hides nothing.
LEMMA NothingHidden == ASSUME NEW t \in Threads, ~ Pushes(t)' PROVE Hidden(t)'
  BY DEF Hidden

LEMMA SwingOnStack ==
  ASSUME StackIInv, IInv', client = "stack", NEW t \in Threads, Swing(t)
  PROVE  StackInPlace' /\ ActsOnStack(t)
  <1>1. /\ IInv /\ RegisterIInv /\ JobsInPlace /\ TypeOK /\ own[t] \in Pointers
        /\ \A u \in Threads : InItsCall(u) /\ Hidden(u)
    BY Known DEF StackIInv, StackInPlace, IInv
  <1>2. /\ job' = job /\ job[t] = "push" /\ ~ won[t] /\ client' = client
        /\ pc' = [pc EXCEPT ![t] = "peek"] /\ op' = [op EXCEPT ![t] = "Cas"] /\ won' = [won EXCEPT ![t] = FALSE]
        /\ arg' = [arg EXCEPT ![t] = own[t]] /\ own' = own /\ held' = held /\ res' = res /\ ptr' = ptr
        /\ ModifyState(t, own[t], 0, 1)
    BY <1>1 DEF Swing, Become, Begin, CopyConstruct, Goto, JobsInPlace
  <1>3. /\ Frame(t) /\ job'[t] = "push" /\ pc'[t] = "peek" /\ op'[t] = "Cas" /\ ~ won'[t] /\ arg'[t] = own[t]
        /\ \A u \in Threads : u # t => won'[u] = won[u]
    BY <1>1, <1>2, SwingStep DEF Implements, TypeOK
  <1>4. NextKeeps /\ PublicShrinks
    <2>1. MovesHeap(t)
      BY <1>1, <1>2, ModifyMovesHeap
    <2> QED BY <1>1, <1>2, <1>3, <2>1, NodesStay DEF Pushes
  <1>5. InItsCall(t)'
    BY <1>2, <1>3 DEF InItsCall
  <1>6. Hidden(t)'
    <2>1. PICK o \in Objects : o = own[t] /\ o = own'[t]
      BY <1>1, <1>2 DEF JobsInPlace, Pushes, Pointers
    <2>2. ~ Public(o) /\ \A u \in Threads : u # t => arg[u] # o
      BY <1>1, <1>2, <2>1 DEF Hidden, Pushes
    <2>3. ~ Public(own[t])'
      BY <1>4, <2>1, <2>2 DEF PublicShrinks, Public, NoMember
    <2> QED BY <1>3, <2>1, <2>2, <2>3 DEF Hidden, Frame
  <1>7. \A w \in Threads : w # t /\ Pushes(w) /\ ~ won[w] => arg'[t] # own[w]
    BY <1>1, <1>2, <1>3 DEF JobsInPlace, Pushes
  <1>8. StackInPlace' /\ Chain' = Chain /\ OthersWait(t)
    BY <1>1, <1>2, <1>3, <1>4, <1>5, <1>6, <1>7, LocalStep
  <1>9. StackPhase(t)' = StackPhase(t) /\ ItemOf(t)' = ItemOf(t)
    BY <1>2, <1>3 DEF StackPhase, FindsEmpty, ItemOf
  <1> QED BY <1>8, <1>9 DEF ActsOnStack, Waits

LEMMA TryPopOnStack ==
  ASSUME StackIInv, IInv', client = "stack", NEW t \in Threads, TryPop(t)
  PROVE  StackInPlace' /\ ActsOnStack(t)
  <1>1. /\ IInv /\ RegisterIInv /\ JobsInPlace /\ TypeOK
        /\ \A u \in Threads : InItsCall(u) /\ Hidden(u)
    BY Known DEF StackIInv, StackInPlace, IInv
  <1>2. /\ job' = [job EXCEPT ![t] = "pop"] /\ job[t] = "none" /\ client' = client
        /\ pc' = [pc EXCEPT ![t] = "load"] /\ op' = [op EXCEPT ![t] = "Load"] /\ won' = [won EXCEPT ![t] = FALSE]
        /\ UNCHANGED <<heap, own, arg, held, res, ptr>>
    BY DEF TryPop, Become, Begin, Goto
  <1>3. /\ Frame(t) /\ job'[t] = "pop" /\ pc'[t] = "load" /\ op'[t] = "Load" /\ ~ won'[t]
        /\ \A u \in Threads : u # t => won'[u] = won[u] /\ job'[u] = job[u]
    BY <1>1, <1>2, TryPopStep DEF Implements, TypeOK, JobsInPlace
  <1>4. NextKeeps /\ PublicShrinks
    <2>1. MovesHeap(t)
      BY <1>2 DEF MovesHeap, heap
    <2>2. \A u \in Threads : Pushes(u)' <=> Pushes(u)
      BY <1>2, <1>3 DEF Pushes
    <2> QED BY <1>1, <1>2, <1>3, <2>1, <2>2, NodesStay
  <1>5. InItsCall(t)'
    BY <1>3 DEF InItsCall
  <1>6. Hidden(t)'
    BY <1>3, NothingHidden DEF Pushes
  <1>7. \A w \in Threads : w # t /\ Pushes(w) /\ ~ won[w] => arg'[t] # own[w]
    BY <1>1, <1>2 DEF Hidden
  <1>8. StackInPlace' /\ Chain' = Chain /\ OthersWait(t)
    BY <1>1, <1>2, <1>3, <1>4, <1>5, <1>6, <1>7, LocalStep
  <1>9. StackPhase(t) = "idle" /\ StackPhase(t)' = "pop"
    BY <1>2, <1>3 DEF StackPhase, FindsEmpty
  <1>10. ItemOf(t)' = nullptr
    BY <1>3, <1>9 DEF ItemOf
  <1> QED BY <1>8, <1>9, <1>10 DEF ActsOnStack, Asks, Goes

LEMMA TryAgainOnStack ==
  ASSUME StackIInv, IInv', client = "stack", NEW t \in Threads, TryAgain(t)
  PROVE  StackInPlace' /\ ActsOnStack(t)
  <1>1. /\ IInv /\ RegisterIInv /\ JobsInPlace /\ TypeOK
        /\ \A u \in Threads : InItsCall(u) /\ Hidden(u)
    BY Known DEF StackIInv, StackInPlace, IInv
  <1>2. /\ job' = [job EXCEPT ![t] = "pop"] /\ job[t] = "again" /\ client' = client
        /\ pc' = [pc EXCEPT ![t] = "load"] /\ op' = [op EXCEPT ![t] = "Load"] /\ won' = [won EXCEPT ![t] = FALSE]
        /\ UNCHANGED <<heap, own, arg, held, res, ptr>>
    BY DEF TryAgain, Become, Begin, Goto
  <1>3. /\ Frame(t) /\ job'[t] = "pop" /\ pc'[t] = "load" /\ op'[t] = "Load" /\ ~ won'[t]
        /\ \A u \in Threads : u # t => won'[u] = won[u] /\ job'[u] = job[u]
    BY <1>1, <1>2, TryAgainStep DEF Implements, TypeOK, JobsInPlace
  <1>4. NextKeeps /\ PublicShrinks
    <2>1. MovesHeap(t)
      BY <1>2 DEF MovesHeap, heap
    <2>2. \A u \in Threads : Pushes(u)' <=> Pushes(u)
      BY <1>2, <1>3 DEF Pushes
    <2> QED BY <1>1, <1>2, <1>3, <2>1, <2>2, NodesStay
  <1>5. InItsCall(t)'
    BY <1>3 DEF InItsCall
  <1>6. Hidden(t)'
    BY <1>3, NothingHidden DEF Pushes
  <1>7. \A w \in Threads : w # t /\ Pushes(w) /\ ~ won[w] => arg'[t] # own[w]
    BY <1>1, <1>2 DEF Hidden
  <1>8. StackInPlace' /\ Chain' = Chain /\ OthersWait(t)
    BY <1>1, <1>2, <1>3, <1>4, <1>5, <1>6, <1>7, LocalStep
  <1>9. StackPhase(t) = "pop" /\ StackPhase(t)' = "pop"
    BY <1>2, <1>3 DEF StackPhase, FindsEmpty
  <1>10. ItemOf(t) = nullptr /\ ItemOf(t)' = nullptr
    BY <1>2, <1>3, <1>9 DEF ItemOf
  <1> QED BY <1>8, <1>9, <1>10 DEF ActsOnStack, Waits

LEMMA TakeTopOnStack ==
  ASSUME StackIInv, IInv', client = "stack", NEW t \in Threads, TakeTop(t)
  PROVE  StackInPlace' /\ ActsOnStack(t)
  <1>1. /\ IInv /\ RegisterIInv /\ JobsInPlace /\ TypeOK /\ held[t] \in Pointers
        /\ \A u \in Threads : InItsCall(u) /\ Hidden(u)
    BY Known DEF StackIInv, StackInPlace, IInv
  <1>2. /\ job' = [job EXCEPT ![t] = "take"] /\ job[t] = "pop" /\ client' = client /\ held[t] # nullptr /\ pc[t] = "idle"
        /\ pc' = [pc EXCEPT ![t] = "peek"] /\ op' = [op EXCEPT ![t] = "Cas"] /\ won' = [won EXCEPT ![t] = FALSE]
        /\ arg' = [arg EXCEPT ![t] = NextOf(held[t])]
        /\ UNCHANGED <<own, held, res, ptr>>
        /\ ModifyState(t, NextOf(held[t]), 0, 1)
    BY DEF TakeTop, Become, Begin, CopyConstruct, Goto, At
  <1>3. /\ Frame(t) /\ job'[t] = "take" /\ pc'[t] = "peek" /\ op'[t] = "Cas" /\ ~ won'[t]
        /\ arg'[t] = NextOf(held[t])
        /\ \A u \in Threads : u # t => won'[u] = won[u] /\ job'[u] = job[u]
    BY <1>1, <1>2, TakeTopStep DEF Implements, TypeOK, JobsInPlace
  <1>n. PICK o \in Objects : o = held[t]
    BY <1>1, <1>2 DEF Pointers
  <1>p. NextOf(o) \in Pointers /\ (NextOf(o) # nullptr => Public(NextOf(o)))
    BY <1>1, NextIsAlive DEF NextLives
  <1>4. NextKeeps /\ PublicShrinks
    <2>1. MovesHeap(t)
      BY <1>1, <1>2, <1>n, <1>p, ModifyMovesHeap
    <2>2. \A u \in Threads : Pushes(u)' <=> Pushes(u)
      BY <1>2, <1>3 DEF Pushes
    <2> QED BY <1>1, <1>2, <1>3, <2>1, <2>2, NodesStay
  <1>5. InItsCall(t)'
    <2>1. NextOf(o)' = NextOf(o)
      BY <1>1, <1>2, <1>4, <1>n, TopsKeep
    <2>2. held'[t] = o /\ arg'[t] = NextOf(o)'
      BY <1>2, <1>3, <1>n, <2>1
    <2> QED BY <1>3, <2>2 DEF InItsCall
  <1>6. Hidden(t)'
    BY <1>3, NothingHidden DEF Pushes
  <1>7. \A w \in Threads : w # t /\ Pushes(w) /\ ~ won[w] => arg'[t] # own[w]
    BY <1>1, <1>3, <1>n, <1>p DEF Hidden, JobsInPlace
  <1>8. StackInPlace' /\ Chain' = Chain /\ OthersWait(t)
    BY <1>1, <1>2, <1>3, <1>4, <1>5, <1>6, <1>7, LocalStep
  <1>9. StackPhase(t) = "pop" /\ StackPhase(t)' = "pop"
    BY <1>2, <1>3 DEF StackPhase, FindsEmpty
  <1>10. ItemOf(t) = nullptr /\ ItemOf(t)' = nullptr
    BY <1>2, <1>3, <1>9 DEF ItemOf
  <1> QED BY <1>8, <1>9, <1>10 DEF ActsOnStack, Waits


LEMMA FoundEmptyOnStack ==
  ASSUME StackIInv, IInv', client = "stack", NEW t \in Threads, FoundEmpty(t)
  PROVE  StackInPlace' /\ ActsOnStack(t)
  <1>1. /\ IInv /\ RegisterIInv /\ JobsInPlace /\ TypeOK /\ LocalInPlace(t)
        /\ op[t] \in {"none", "Load", "Store", "Cas"}
        /\ \A u \in Threads : InItsCall(u) /\ Hidden(u)
    BY Known DEF StackIInv, StackInPlace, IInv
  <1>2. /\ job' = [job EXCEPT ![t] = "none"] /\ job[t] = "pop" /\ client' = client
        /\ pc[t] = "idle" /\ held[t] = nullptr /\ UNCHANGED vars
    BY DEF FoundEmpty, Become, At
  <1>u. UNCHANGED <<heap, ptr, held, own, arg, op, pc, current, res, won>>
    BY <1>2 DEF vars
  <1>3. /\ Frame(t) /\ job'[t] = "none" /\ pc'[t] = "idle" /\ op'[t] = "none" /\ ~ won'[t]
        /\ \A u \in Threads : u # t => won'[u] = won[u] /\ job'[u] = job[u]
    <2>1. op[t] = "none"
      BY <1>1, <1>2 DEF LocalInPlace
    <2>2. ~ won[t]
      BY <1>1, <1>2 DEF InItsCall
    <2>3. job'[t] = "none" /\ \A u \in Threads : u # t => job'[u] = job[u]
      BY <1>1, <1>2 DEF JobsInPlace
    <2> QED BY <1>2, <1>u, <2>1, <2>2, <2>3 DEF Frame
  <1>4. NextKeeps /\ PublicShrinks
    <2>1. MovesHeap(t)
      BY <1>u DEF MovesHeap, heap
    <2>2. \A u \in Threads : Pushes(u)' <=> Pushes(u)
      BY <1>2, <1>3 DEF Pushes
    <2> QED BY <1>1, <1>u, <1>3, <2>1, <2>2, NodesStay
  <1>5. InItsCall(t)'
    BY <1>3 DEF InItsCall
  <1>6. Hidden(t)'
    BY <1>3, NothingHidden DEF Pushes
  <1>7. \A w \in Threads : w # t /\ Pushes(w) /\ ~ won[w] => arg'[t] # own[w]
    BY <1>1, <1>u DEF Hidden
  <1>8. StackInPlace' /\ Chain' = Chain /\ OthersWait(t)
    BY <1>1, <1>2, <1>u, <1>3, <1>4, <1>5, <1>6, <1>7, LocalStep
  <1>9. StackPhase(t) = "empty" /\ StackPhase(t)' = "idle"
    BY <1>2, <1>3 DEF StackPhase, FindsEmpty
  <1>10. ItemOf(t)' = nullptr
    BY <1>3, <1>9 DEF ItemOf
  <1> QED BY <1>8, <1>9, <1>10 DEF ActsOnStack, Answers, Goes

LEMMA ReleaseTopOnStack ==
  ASSUME StackIInv, IInv', client = "stack", NEW t \in Threads, ReleaseTop(t)
  PROVE  StackInPlace' /\ ActsOnStack(t)
  <1>1. /\ IInv /\ RegisterIInv /\ JobsInPlace /\ TypeOK /\ LocalInPlace(t) /\ held[t] \in Pointers
        /\ op[t] \in {"none", "Load", "Store", "Cas"} /\ won[t] \in BOOLEAN
        /\ \A u \in Threads : InItsCall(u) /\ Hidden(u)
    BY Known DEF StackIInv, StackInPlace, IInv, TypeOK
  <1>2. /\ job' = [job EXCEPT ![t] = IF won[t] THEN "none" ELSE "again"] /\ job[t] = "take" /\ client' = client
        /\ pc[t] = "idle" /\ held' = [held EXCEPT ![t] = nullptr] /\ won' = [won EXCEPT ![t] = FALSE]
        /\ UNCHANGED <<ptr, own, arg, op, pc, current, res>>
        /\ ModifyState(t, held[t], 0, -1)
    BY DEF ReleaseTop, Become, At
  <1>3. /\ Frame(t) /\ job'[t] = (IF won[t] THEN "none" ELSE "again") /\ pc'[t] = "idle" /\ op'[t] = "none"
        /\ ~ won'[t] /\ held'[t] = nullptr
        /\ \A u \in Threads : u # t => won'[u] = won[u] /\ job'[u] = job[u]
    <2>1. op[t] = "none"
      BY <1>1, <1>2 DEF LocalInPlace
    <2>2. Frame(t)
      BY ReleaseTopStep, <1>1 DEF Implements
    <2> QED BY <1>1, <1>2, <2>1, <2>2 DEF TypeOK, JobsInPlace
  <1>j. job'[t] \in {"none", "again"} /\ ~ Pushes(t) /\ ~ Pushes(t)'
    BY <1>2, <1>3 DEF Pushes
  <1>4. NextKeeps /\ PublicShrinks
    <2>1. MovesHeap(t)
      BY <1>1, <1>2, ModifyMovesHeap
    <2>2. \A u \in Threads : Pushes(u)' <=> Pushes(u)
      BY <1>3, <1>j DEF Pushes
    <2> QED BY <1>1, <1>2, <1>3, <1>j, <2>1, <2>2, NodesStay
  <1>5. InItsCall(t)'
    BY <1>3, <1>j DEF InItsCall
  <1>6. Hidden(t)'
    BY <1>j, NothingHidden
  <1>7. \A w \in Threads : w # t /\ Pushes(w) /\ ~ won[w] => arg'[t] # own[w]
    BY <1>1, <1>2 DEF Hidden
  <1>8. StackInPlace' /\ Chain' = Chain /\ OthersWait(t)
    BY <1>1, <1>2, <1>3, <1>4, <1>5, <1>6, <1>7, LocalStep
  <1>9. CASE won[t]
    <2>1. StackPhase(t) = "popped" /\ StackPhase(t)' = "idle"
      BY <1>2, <1>3, <1>9 DEF StackPhase, FindsEmpty
    <2>2. ItemOf(t)' = nullptr
      BY <1>3, <1>9, <2>1 DEF ItemOf
    <2> QED BY <1>8, <2>1, <2>2 DEF ActsOnStack, Answers, Goes
  <1>10. CASE ~ won[t]
    <2>1. StackPhase(t) = "pop" /\ StackPhase(t)' = "pop"
      BY <1>2, <1>3, <1>10 DEF StackPhase, FindsEmpty
    <2>2. ItemOf(t) = nullptr /\ ItemOf(t)' = nullptr
      BY <1>2, <1>3, <1>10, <2>1 DEF ItemOf
    <2> QED BY <1>8, <2>1, <2>2 DEF ActsOnStack, Waits
  <1> QED BY <1>1, <1>9, <1>10

\* The new node is found by nobody else.
LEMMA PushOnStack ==
  ASSUME StackIInv, IInv', client = "stack", NEW t \in Threads, Push(t)
  PROVE  StackInPlace' /\ ActsOnStack(t)
  <1>1. /\ IInv /\ RegisterIInv /\ JobsInPlace /\ JobsInPlace' /\ TypeOK /\ LocalInPlace(t)
        /\ \A u \in Threads : InItsCall(u) /\ Hidden(u)
    BY Known DEF StackIInv, StackInPlace, IInv
  <1>p. PICK p \in Objects \ alive : Construct(p) /\ own' = [own EXCEPT ![t] = p]
    BY DEF Push
  <1>2. /\ job' = [job EXCEPT ![t] = "push"] /\ job[t] = "none" /\ client' = client
        /\ pc' = [pc EXCEPT ![t] = "load"] /\ op' = [op EXCEPT ![t] = "Load"] /\ won' = [won EXCEPT ![t] = FALSE]
        /\ UNCHANGED <<ptr, arg, held, res, next, dying>>
    BY <1>p DEF Push, Become, Begin, Goto, Construct
  <1>3. /\ Frame(t) /\ job'[t] = "push" /\ pc'[t] = "load" /\ op'[t] = "Load" /\ ~ won'[t] /\ own'[t] = p
        /\ \A u \in Threads : u # t => won'[u] = won[u] /\ job'[u] = job[u]
    <2>1. Frame(t)
      BY PushStep, <1>1 DEF Implements
    <2> QED BY <1>1, <1>2, <1>p, <2>1 DEF TypeOK, JobsInPlace
  <1>n. /\ ptr.raw # p /\ Unheld(p) /\ NoMember(p)
    BY <1>1, AliveIsReferenced DEF RegisterIInv
  <1>4. NextKeeps /\ PublicShrinks
    <2>1. ASSUME NEW o \in Objects, o \in alive PROVE NextOf(o)' = NextOf(o)
      <3>1. o # p
        BY <2>1
      <3>2. ~ Pushes(t) /\ Pushes(t)' /\ own'[t] = p
        BY <1>2, <1>3 DEF Pushes
      <3>3. \A u \in Threads : u # t => (Pushes(u)' <=> Pushes(u)) /\ own'[u] = own[u] /\ held'[u] = held[u]
        BY <1>3 DEF Pushes, Frame
      <3>4. \A u \in Threads : Pushes(u) /\ own[u] = o => Pushes(u)' /\ own'[u] = o /\ held'[u] = held[u]
        BY <3>2, <3>3
      <3>5. \A u \in Threads : ~ (Pushes(u) /\ own[u] = o) => ~ (Pushes(u)' /\ own'[u] = o)
        BY <3>1, <3>2, <3>3
      <3>6. next'[o] = next[o]
        BY <1>2
      <3> QED BY <1>1, <3>4, <3>5, <3>6, NextStays
    <2>2. PublicShrinks
      BY <1>2 DEF PublicShrinks, Public, NoMember
    <2> QED BY <2>1, <2>2 DEF NextKeeps
  <1>5. InItsCall(t)'
    BY <1>3 DEF InItsCall
  <1>6. Hidden(t)'
    <2>1. ~ Public(own[t])'
      BY <1>2, <1>3, <1>n DEF Public, NoMember, Unheld
    <2>2. \A u \in Threads : arg'[u] # own'[t]
      BY <1>2, <1>3, <1>n DEF Unheld
    <2> QED BY <2>1, <2>2 DEF Hidden
  <1>7. \A w \in Threads : w # t /\ Pushes(w) /\ ~ won[w] => arg'[t] # own[w]
    BY <1>1, <1>2 DEF Hidden
  <1>8. StackInPlace' /\ Chain' = Chain /\ OthersWait(t)
    BY <1>1, <1>2, <1>3, <1>4, <1>5, <1>6, <1>7, LocalStep
  <1>9. StackPhase(t) = "idle" /\ StackPhase(t)' = "push"
    BY <1>2, <1>3 DEF StackPhase, FindsEmpty
  <1>10. ItemOf(t)' = p
    BY <1>3, <1>9 DEF ItemOf
  <1> QED BY <1>8, <1>9, <1>10 DEF ActsOnStack, Asks, Goes

\* The node keeps its Next when its pusher leaves it.
LEMMA PushedOnStack ==
  ASSUME StackIInv, IInv', client = "stack", NEW t \in Threads, Pushed(t)
  PROVE  StackInPlace' /\ ActsOnStack(t)
  <1>1. /\ IInv /\ RegisterIInv /\ JobsInPlace /\ JobsInPlace' /\ TypeOK /\ LocalInPlace(t)
        /\ held[t] \in Pointers /\ op[t] \in {"none", "Load", "Store", "Cas"}
        /\ \A u \in Threads : InItsCall(u) /\ Hidden(u)
    BY Known DEF StackIInv, StackInPlace, IInv
  <1>2. /\ job' = [job EXCEPT ![t] = "none"] /\ job[t] = "push" /\ client' = client /\ won[t]
        /\ pc[t] = "idle" /\ held' = [held EXCEPT ![t] = nullptr] /\ won' = [won EXCEPT ![t] = FALSE]
        /\ own' = [own EXCEPT ![t] = nullptr]
        /\ UNCHANGED <<ptr, arg, op, pc, current, res>>
    BY DEF Pushed, Become, At
  <1>3. /\ Frame(t) /\ job'[t] = "none" /\ pc'[t] = "idle" /\ op'[t] = "none" /\ ~ won'[t]
        /\ held'[t] = nullptr /\ own'[t] = nullptr
        /\ \A u \in Threads : u # t => won'[u] = won[u] /\ job'[u] = job[u]
    <2>1. op[t] = "none"
      BY <1>1, <1>2 DEF LocalInPlace
    <2>2. Frame(t)
      BY PushedStep, <1>1 DEF Implements
    <2> QED BY <1>1, <1>2, <2>1, <2>2 DEF TypeOK, JobsInPlace
  <1>p. PICK p \in Objects : p = own[t]
    BY <1>1, <1>2 DEF JobsInPlace, Pushes, TypeOK, Pointers
  <1>q. /\ \A u \in Threads : u # t => (Pushes(u)' <=> Pushes(u)) /\ own'[u] = own[u] /\ held'[u] = held[u]
        /\ Pushes(t) /\ ~ Pushes(t)'
        /\ \A u \in Threads : u # t /\ Pushes(u) => own[u] # p
    BY <1>1, <1>2, <1>3, <1>p DEF Pushes, Frame, JobsInPlace
  <1>m. /\ next'[p] = held[t] \/ (next'[p] = nullptr /\ p \notin alive')
        /\ \A q \in Objects : q # p => next'[q] = next[q]
        /\ \A u \in Threads : u # t => dying'[u] = dying[u]
        /\ dying'[t] \in {held[t], nullptr}
    <2>1. PICK m : m = [next EXCEPT ![p] = held[t]]
      OBVIOUS
    <2>2. m \in [Objects -> Pointers] /\ m[p] = held[t] /\ \A q \in Objects : q # p => m[q] = next[q]
      BY <1>1, <2>1 DEF TypeOK
    <2>3. TypeOK /\ ModifyStateOf(t, p, 0, -1, m) /\ 0 \in Int /\ -1 \in Int
      BY <1>1, <1>p, <2>1 DEF Pushed
    <2>4. \A q \in Objects : q # p => next'[q] = m[q]
      BY <2>2, <2>3 DEF ModifyStateOf
    <2>5. alive' = IF count'[p] = Zero THEN alive \ {p} ELSE alive
      BY ONLY <2>2, <2>3, t \in Threads, p \in Objects, ModifyFacts
    <2>6. \A u \in Threads : u # t => dying'[u] = dying[u]
      BY <1>1, <2>3 DEF ModifyStateOf, TypeOK
    <2>7. ASSUME count'[p] = Zero PROVE dying'[t] = m[p] /\ next'[p] = nullptr
      <3>1. dying' = [dying EXCEPT ![t] = m[p]] /\ next' = [m EXCEPT ![p] = nullptr]
        BY <2>3, <2>7 DEF ModifyStateOf, Zero
      <3> QED BY <1>1, <2>2, <3>1 DEF TypeOK
    <2>8. ASSUME count'[p] # Zero PROVE dying'[t] = nullptr /\ next'[p] = m[p]
      <3>1. dying' = [dying EXCEPT ![t] = nullptr] /\ next' = m
        BY <2>3, <2>8 DEF ModifyStateOf, Zero
      <3> QED BY <1>1, <3>1 DEF TypeOK
    <2> QED BY <2>2, <2>4, <2>5, <2>6, <2>7, <2>8
  <1>4. NextKeeps /\ PublicShrinks
    <2>1. ASSUME NEW o \in Objects, o \in alive' PROVE NextOf(o)' = NextOf(o)
      <3>1. CASE o # p
        <4>1. \A u \in Threads : Pushes(u) /\ own[u] = o => Pushes(u)' /\ own'[u] = o /\ held'[u] = held[u]
          BY <1>p, <1>q, <3>1
        <4>2. \A u \in Threads : ~ (Pushes(u) /\ own[u] = o) => ~ (Pushes(u)' /\ own'[u] = o)
          BY <1>q
        <4>3. next'[o] = next[o]
          BY <1>m, <3>1
        <4> QED BY <1>1, <4>1, <4>2, <4>3, NextStays
      <3>2. CASE o = p
        <4>1. NextOfRight /\ NextOfRight'
          BY NextOfIs, PTL
        <4>2. NextOf(o) = held[t]
          BY <1>1, <1>p, <1>q, <3>2, <4>1 DEF NextOfRight
        <4>3. \A u \in Threads : ~ (Pushes(u)' /\ own'[u] = o)
          BY <1>q, <3>2
        <4>4. NextOf(o)' = next'[o]
          BY <1>1, <4>1, <4>3 DEF NextOfRight
        <4> QED BY <1>m, <2>1, <3>2, <4>2, <4>4
      <3> QED BY <3>1, <3>2
    <2>2. ASSUME NEW o \in Objects, Public(o)' PROVE Public(o)
      <3>0. o # nullptr
        BY SharedPtrAssumption
      <3>1. CASE ptr'.raw = o
        BY <1>2, <3>1 DEF Public
      <3>2. CASE ~ NoMember(o)'
        BY <1>m, <3>0, <3>2 DEF Public, NoMember
      <3>3. ASSUME NEW u \in Threads, held'[u] = o \/ res'[u] = o PROVE Public(o)
        BY <1>2, <1>3, <3>0, <3>3 DEF Public, Frame
      <3> QED BY <2>2, <3>1, <3>2, <3>3 DEF Public
    <2> QED BY <2>1, <2>2 DEF NextKeeps, PublicShrinks
  <1>5. InItsCall(t)'
    BY <1>3 DEF InItsCall
  <1>6. Hidden(t)'
    BY <1>q, NothingHidden
  <1>7. \A w \in Threads : w # t /\ Pushes(w) /\ ~ won[w] => arg'[t] # own[w]
    BY <1>1, <1>2 DEF Hidden
  <1>8. StackInPlace' /\ Chain' = Chain /\ OthersWait(t)
    BY <1>1, <1>2, <1>3, <1>4, <1>5, <1>6, <1>7, LocalStep
  <1>9. StackPhase(t) = "pushed" /\ StackPhase(t)' = "idle"
    BY <1>2, <1>3 DEF StackPhase, FindsEmpty
  <1>10. ItemOf(t)' = nullptr
    BY <1>3, <1>9 DEF ItemOf
  <1> QED BY <1>8, <1>9, <1>10 DEF ActsOnStack, Answers, Goes

\* The stack is empty at first, and stays in place.
LEMMA StackStepOnStack ==
  ASSUME StackIInv, IInv', client = "stack", NEW t \in Threads, StackStep(t)
  PROVE  StackInPlace' /\ ActsOnStack(t) /\ client' = client
  <1>1. client' = client
    BY DEF StackStep, Push, Swing, Pushed, TryPop, TakeTop, FoundEmpty, ReleaseTop, TryAgain, Become
  <1> QED BY <1>1, PushOnStack, SwingOnStack, PushedOnStack, TryPopOnStack, TakeTopOnStack, FoundEmptyOnStack,
             ReleaseTopOnStack, TryAgainOnStack
          DEF StackStep

LEMMA InitStackIInv == StackInit => StackIInv
  <1> SUFFICES ASSUME StackInit PROVE StackInPlace
    BY InitIInv DEF StackIInv
  <1>1. /\ job = [t \in Threads |-> "none"] /\ ptr.raw = nullptr
        /\ op = [t \in Threads |-> "none"] /\ pc = [t \in Threads |-> "idle"] /\ won = [t \in Threads |-> FALSE]
    BY DEF StackInit, Init, Null
  <1>2. \A t \in Threads : InItsCall(t) /\ Hidden(t)
    BY <1>1 DEF InItsCall, Hidden, Pushes
  <1>3. Contains(<<>>)
    BY <1>1 DEF Contains, Linked, FirstOf
  <1>4. \E s : Contains(s)
    BY <1>3
  <1> QED BY <1>1, <1>2, <1>4 DEF StackInPlace, StackInit

LEMMA StackStutters == ASSUME StackIInv, IInv', UNCHANGED stackVars PROVE StackInPlace' /\ (client = "stack" => Chain' = Chain)
  <1>1. UNCHANGED <<heap, ptr, held, own, arg, op, pc, current, res, won, client, job>>
    BY DEF stackVars, vars
  <1>2. UNCHANGED <<alive, next, dying>>
    BY <1>1 DEF heap
  <1>3. \A o : NextOf(o)' = NextOf(o)
    BY <1>1, <1>2 DEF NextOf
  <1>5. \A t \in Threads : InItsCall(t) => InItsCall(t)'
    BY <1>1, <1>3 DEF InItsCall
  <1>6. \A t \in Threads : Hidden(t) => Hidden(t)'
    <2> SUFFICES ASSUME NEW t \in Threads, Hidden(t) PROVE Hidden(t)'
      OBVIOUS
    <2>1. Public(own[t])' <=> Public(own[t])
      BY <1>1, <1>2 DEF Public, NoMember
    <2> QED BY <1>1, <2>1 DEF Hidden, Pushes
  <1>7. ASSUME NEW s, Contains(s) PROVE Contains(s)'
    <2>1. s \in Seq(Objects) /\ Linked(s) /\ ptr'.raw = FirstOf(s)
      BY <1>1, <1>7 DEF Contains
    <2>2. \A i \in 1 .. Len(s) : NextOf(s[i])' = NextOf(s[i])
      BY <1>1, <1>2 DEF NextOf
    <2>3. \A i \in 1 .. Len(s) : s[i] \in alive'
      BY <1>2, <2>1 DEF Linked
    <2> QED BY <2>1, <2>2, <2>3, LinkedMoves
  <1>8. StackInPlace
    BY DEF StackIInv
  <1>9. ChainRight /\ ChainRight'
    BY ChainIs, PTL
  <1>10. ASSUME client = "stack" PROVE Chain' = Chain
    <2>1. PICK s : Contains(s)
      BY <1>8, <1>10 DEF StackInPlace
    <2> QED BY <1>7, <1>9, <2>1 DEF ChainRight
  <1> QED BY <1>1, <1>5, <1>6, <1>7, <1>8, <1>10 DEF StackInPlace

LEMMA NextStackIInv == StackIInv /\ [StackNext]_stackVars => StackIInv'
  <1> SUFFICES ASSUME StackIInv, [StackNext]_stackVars PROVE StackInPlace'
    BY NextIInv DEF StackIInv
  <1>1. IInv'
    BY NextIInv DEF StackIInv
  <1>2. CASE UNCHANGED stackVars
    BY <1>1, <1>2, StackStutters
  <1>3. ASSUME NEW t \in Threads, RegisterStep(t), UNCHANGED <<client, job>> PROVE StackInPlace'
    <2>1. CASE client = "stack"
      BY <1>1, <1>3, <2>1, RegisterOnStack
    <2>2. CASE client # "stack"
      BY <1>3, <2>2 DEF StackIInv, StackInPlace
    <2> QED BY <2>1, <2>2
  <1>4. ASSUME client = "any", UNCHANGED <<client, job>> PROVE StackInPlace'
    BY <1>4 DEF StackIInv, StackInPlace
  <1>5. ASSUME NEW t \in Threads, client = "stack", StackStep(t) PROVE StackInPlace'
    BY <1>1, <1>5, StackStepOnStack
  <1> QED BY <1>2, <1>3, <1>4, <1>5 DEF StackNext

\* A step of the invariant is one of the abstract stack, or none.
LEMMA NextIsStack == StackIInv /\ [StackNext]_stackVars => [Stack!Next]_(Stack!vars)
  <1> SUFFICES ASSUME StackIInv, [StackNext]_stackVars PROVE [Stack!Next]_(Stack!vars)
    OBVIOUS
  <1>i. IInv /\ IInv'
    BY NextIInv DEF StackIInv
  <1> DEFINE nodes  == IF client = "stack" THEN Chain ELSE <<>>
             phases == [u \in Threads |-> StackPhase(u)]
             given  == [u \in Threads |-> ItemOf(u)]
  <1>g. given = [u \in Threads |-> CASE job[u] = "push" -> own[u]
                                     [] StackPhase(u) = "popped" -> held[u]
                                     [] OTHER -> nullptr]
    BY DEF ItemOf
  <1>v. Stack!vars = <<nodes, phases, given>>
    BY DEF Stack!vars, ItemOf
  <1>w. Stack!vars' = <<nodes', phases', given'>>
    BY DEF Stack!vars, ItemOf
  <1>1. ASSUME client = "stack", client' = client, NEW t \in Threads, ActsOnStack(t) PROVE [Stack!Next]_(Stack!vars)
    <2>1. nodes = Chain /\ nodes' = Chain'
      BY <1>1
    <2>2. /\ phases' = [phases EXCEPT ![t] = StackPhase(t)'] /\ phases[t] = StackPhase(t)
          /\ given' = [given EXCEPT ![t] = ItemOf(t)'] /\ given[t] = ItemOf(t)
      BY <1>1 DEF ActsOnStack, OthersWait
    <2>3. \A from, to, x : Goes(t, from, to, x) => Stack!Move(t, from, to, x)
      BY <2>2 DEF Goes, Stack!Move, ItemOf
    <2>4. CASE Waits(t)
      <3>1. phases' = phases /\ given' = given /\ nodes' = nodes
        BY <1>1, <2>1, <2>4 DEF Waits, ActsOnStack, OthersWait
      <3> HIDE DEF phases, given, nodes
      <3> QED BY <1>v, <1>w, <3>1
    <2>5. CASE Asks(t)
      <3>1. Stack!Move(t, "idle", "pop", nullptr) \/ \E x \in Objects : Stack!Move(t, "idle", "push", x)
        BY <2>3, <2>5 DEF Asks
      <3>2. nodes' = nodes
        BY <2>1, <2>5 DEF Asks
      <3>3. Stack!CallPush(t) \/ Stack!CallPop(t)
        BY <3>1, <3>2 DEF Stack!CallPush, Stack!CallPop
      <3> QED BY <3>3 DEF Stack!Next
    <2>6. CASE Adds(t)
      <3>1. phases[t] = "push" /\ phases' = [phases EXCEPT ![t] = "pushed"] /\ given' = [given EXCEPT ![t] = given[t]]
        BY <2>2, <2>6 DEF Adds, Goes
      <3>2. nodes' = <<given[t]>> \o nodes
        BY <2>1, <2>2, <2>6 DEF Adds
      <3>3. Stack!Push(t)
        BY <3>1, <3>2 DEF Stack!Push, Stack!Move, ItemOf
      <3> QED BY <3>3 DEF Stack!Next
    <2>7. CASE Takes(t)
      <3>1. phases[t] = "pop" /\ phases' = [phases EXCEPT ![t] = "popped"] /\ given' = [given EXCEPT ![t] = Head(nodes)]
        BY <2>1, <2>2, <2>7 DEF Takes, Goes
      <3>2. nodes # <<>> /\ nodes' = Tail(nodes)
        BY <2>1, <2>7 DEF Takes
      <3>3. Stack!Pop(t)
        BY <3>1, <3>2 DEF Stack!Pop, Stack!Move, ItemOf
      <3> QED BY <3>3 DEF Stack!Next
    <2>8. CASE FindsNone(t)
      <3>1. Stack!Move(t, "pop", "empty", nullptr)
        BY <2>3, <2>8 DEF FindsNone
      <3>2. nodes = <<>> /\ nodes' = nodes
        BY <2>1, <2>8 DEF FindsNone
      <3>3. Stack!FindEmpty(t)
        BY <3>1, <3>2 DEF Stack!FindEmpty
      <3> QED BY <3>3 DEF Stack!Next
    <2>9. CASE Answers(t)
      <3>1. \E answer \in {"pushed", "popped", "empty"} : Stack!Move(t, answer, "idle", nullptr)
        BY <2>3, <2>9 DEF Answers
      <3>2. nodes' = nodes
        BY <2>1, <2>9 DEF Answers
      <3>3. Stack!Return(t)
        BY <3>1, <3>2 DEF Stack!Return
      <3> QED BY <3>3 DEF Stack!Next
    <2> QED BY <1>1, <2>4, <2>5, <2>6, <2>7, <2>8, <2>9 DEF ActsOnStack
  <1>2. ASSUME UNCHANGED <<client, job>>, client = "any" PROVE [Stack!Next]_(Stack!vars)
    <2>1. \A u \in Threads : job[u] = "none" /\ job'[u] = "none"
      BY <1>2 DEF StackIInv, StackInPlace
    <2>2. \A u \in Threads : StackPhase(u) = "idle" /\ StackPhase(u)' = "idle"
      BY <2>1 DEF StackPhase, FindsEmpty
    <2>3. \A u \in Threads : ItemOf(u) = nullptr /\ ItemOf(u)' = nullptr
      BY <2>1, <2>2 DEF ItemOf
    <2>4. phases' = phases /\ given' = given /\ nodes' = nodes
      BY <1>2, <2>2, <2>3
    <2> HIDE DEF phases, given, nodes
    <2> QED BY <1>v, <1>w, <2>4
  <1>3. ASSUME NEW t \in Threads, RegisterStep(t), UNCHANGED <<client, job>> PROVE [Stack!Next]_(Stack!vars)
    <2>1. CASE client = "stack"
      BY <1>1, <1>3, <1>i, <2>1, RegisterOnStack
    <2> QED BY <1>2, <1>3, <2>1 DEF StackIInv, StackInPlace
  <1>4. ASSUME NEW t \in Threads, client = "stack", StackStep(t) PROVE [Stack!Next]_(Stack!vars)
    BY <1>1, <1>4, <1>i, StackStepOnStack
  <1>5. CASE UNCHANGED stackVars
    <2>1. UNCHANGED <<client, job, held, own, res, pc, won>>
      BY <1>5 DEF stackVars, vars
    <2>2. \A u \in Threads : StackPhase(u)' = StackPhase(u) /\ ItemOf(u)' = ItemOf(u)
      BY <2>1 DEF StackPhase, FindsEmpty, ItemOf
    <2>3. phases' = phases /\ given' = given /\ nodes' = nodes
      BY <1>5, <1>i, <2>1, <2>2, StackStutters
    <2> HIDE DEF phases, given, nodes
    <2> QED BY <1>v, <1>w, <2>3
  <1> QED BY <1>2, <1>3, <1>4, <1>5 DEF StackNext

\* The stack is last in, first out, for any number of threads and nodes, whose
\* addresses are used again: the CompareExchange of Push and of TryPop wins only
\* if top_ still is the node that was loaded, and what its Next was read to be,
\* its Next still is, because the thread holds the node
\* (LockFreeStack.hpp 24, 35).
THEOREM StackIsLastInFirstOut == StackSpec => IsStack
  <1>1. StackInit => Stack!Init
    <2> SUFFICES ASSUME StackInit PROVE Stack!Init
      OBVIOUS
    <2>1. StackIInv
      BY InitStackIInv
    <2>2. \A t \in Threads : job[t] = "none"
      BY DEF StackInit
    <2>3. \A t \in Threads : StackPhase(t) = "idle"
      BY <2>2 DEF StackPhase, FindsEmpty
    <2>4. client = "stack" => Chain = <<>>
      <3> SUFFICES ASSUME client = "stack" PROVE Chain = <<>>
        OBVIOUS
      <3>1. PICK s : Contains(s)
        BY <2>1 DEF StackIInv, StackInPlace
      <3>2. Chain = s
        BY <3>1, ChainIs DEF ChainRight
      <3>3. ptr.raw = nullptr /\ s \in Seq(Objects) /\ ptr.raw = FirstOf(s)
        BY <3>1 DEF StackInit, Init, Null, Contains
      <3> QED BY <3>2, <3>3, SharedPtrAssumption DEF FirstOf
    <2> QED BY <2>2, <2>3, <2>4 DEF Stack!Init
  <1> QED BY <1>1, InitStackIInv, NextStackIInv, NextIsStack, PTL DEF StackSpec, IsStack, Stack!Spec
=============================================================================
