--------------------------- MODULE WaitGroupProofs ---------------------------
(***************************************************************************)
(* Proofs about the wait group of fibers and the wait group of threads,    *)
(* for any waiters and workers (of fibers: finitely many workers), any     *)
(* width of the stamp and any bound of the futex word's counter.           *)
(*                                                                         *)
(* Fibers: no pointer to an awaiter dangles, the counter is exact, and the *)
(* promise of WaitGroupSpec is kept.  The invariant keeps two accounts.    *)
(* The stamp, the room that the callers have left and the Adds on their    *)
(* way make up kMaxStamp, and every unit of the stamp is a Done that is    *)
(* owed or on its way.  And the awaiters that wait have at most one        *)
(* pointer each: from the word, from the walk of a Done, or from another   *)
(* that waits.                                                             *)
(*                                                                         *)
(* Threads: Inv of ThreadWaitGroup is inductive (one lemma per action),    *)
(* the storage is free after Wait, no wake is lost, and the promise of     *)
(* WaitGroupSpec is kept.                                                  *)
(***************************************************************************)
EXTENDS FiberWaitGroup, MCThreadWaitGroup, FiniteSetTheorems, TLAPS

USE WaitGroupAssumption

\* The units of the Adds with these amounts.
Units(a) == {u \in Workers \X (1 .. kMaxStamp) : u[2] <= a[u[1]]}
Doing    == {w \in Workers : pc[w] = "done"}

CountIsKept ==
    /\ state.stamp = owed + Cardinality(Doing)
    /\ state.stamp + room + Cardinality(Units(amount)) = kMaxStamp
    /\ \A w \in Workers : pc[w] # "add" => amount[w] = 0
    /\ state.stamp = 0 => state.ptr = nullptr

EverybodyInPlace ==
    /\ \A w \in Workers : pc[w] \in {"idle", "add", "done", "walk", "wake"}
    /\ \A p \in Waiters : pc[p] \in {"idle", "test", "load", "link", "cas", "parked", "return"}
    /\ \A p \in Waiters : pc[p] = "cas" => next[p] = seen[p].ptr /\ seen[p].stamp > 0
    /\ \A p \in woken : pc[p] = "parked"

Walks(w) == pc[w] \in {"walk", "wake"}

PointersAreLive ==
    /\ state.ptr # nullptr => Live(state.ptr)
    /\ \A p \in Waiters : Live(p) /\ next[p] # nullptr => Live(next[p])
    /\ \A w \in Workers : IF Walks(w) THEN cursor[w] # nullptr /\ Live(cursor[w]) ELSE cursor[w] = nullptr
    /\ \A w \in Workers : follow[w] = IF pc[w] = "wake" THEN next[cursor[w]] ELSE nullptr

PointersAreUnique ==
    /\ \A p, q \in Waiters : Live(p) /\ Live(q) /\ next[p] = next[q] /\ next[p] # nullptr => p = q
    /\ \A v, w \in Workers : Walks(v) /\ cursor[v] = cursor[w] => v = w
    /\ \A w \in Workers, p \in Waiters : Walks(w) /\ Live(p) => cursor[w] # next[p]
    /\ \A w \in Workers : Walks(w) => cursor[w] # state.ptr
    /\ \A p \in Waiters : Live(p) /\ next[p] # nullptr => state.ptr # next[p]

IInv == TypeOK /\ CountIsKept /\ EverybodyInPlace /\ PointersAreLive /\ PointersAreUnique

-----------------------------------------------------------------------------
\* The two accounts.

LEMMA UnitsAreFinite ==
  ASSUME NEW a \in [Workers -> 0 .. kMaxStamp]
  PROVE  IsFiniteSet(Units(a)) /\ Cardinality(Units(a)) \in Nat
  <1>1. IsFiniteSet(1 .. kMaxStamp)
    BY FS_Interval
  <1>2. IsFiniteSet(Workers \X (1 .. kMaxStamp))
    BY <1>1, FS_Product
  <1> QED BY <1>2, FS_Subset, FS_CardinalityType DEF Units

\* An Add of n on its way is n units.
LEMMA UnitsGrow ==
  ASSUME NEW a \in [Workers -> 0 .. kMaxStamp], NEW w \in Workers, a[w] = 0, NEW n \in 0 .. kMaxStamp,
         NEW b \in [Workers -> 0 .. kMaxStamp], b[w] = n, \A v \in Workers : v # w => b[v] = a[v]
  PROVE  Cardinality(Units(a)) \in Nat /\ Cardinality(Units(b)) = Cardinality(Units(a)) + n
  <1>2. IsFiniteSet(Units(a)) /\ Cardinality(Units(a)) \in Nat
    BY UnitsAreFinite
  <1>3. PICK new : new = {w} \X (1 .. n)
    OBVIOUS
  <1>4. IsFiniteSet(new) /\ Cardinality(new) = n
    <2>1. IsFiniteSet(1 .. n) /\ Cardinality(1 .. n) = n
      BY FS_Interval
    <2>2. IsFiniteSet({w}) /\ Cardinality({w}) = 1
      BY FS_Singleton
    <2>3. IsFiniteSet(new) /\ Cardinality(new) = Cardinality({w}) * Cardinality(1 .. n)
      BY ONLY <1>3, <2>1, <2>2, FS_Product
    <2> QED BY <2>1, <2>2, <2>3
  <1>5. Units(b) = Units(a) \union new /\ Units(a) \intersect new = {}
    BY <1>3 DEF Units
  <1>6. Cardinality(Units(a) \intersect new) = 0
    BY <1>5, FS_EmptySet
  <1>7. Cardinality(Units(a) \union new) = Cardinality(Units(a)) + Cardinality(new) - Cardinality(Units(a) \intersect new)
    BY <1>2, <1>4, FS_Union
  <1>8. Cardinality(Units(b)) = Cardinality(Units(a) \union new)
    BY <1>5
  <1> QED BY ONLY <1>2, <1>4, <1>6, <1>7, <1>8, n \in 0 .. kMaxStamp, kMaxStamp \in Nat \ {0}

\* A unit of the stamp that is owed is on its way once its Done has begun.
LEMMA DoingGrows ==
  ASSUME NEW w \in Workers
  PROVE  /\ IsFiniteSet(Doing) /\ Cardinality(Doing) \in Nat
         /\ w \notin Doing => Cardinality(Doing \union {w}) = Cardinality(Doing) + 1
         /\ w \in Doing => Cardinality(Doing) > 0 /\ Cardinality(Doing \ {w}) = Cardinality(Doing) - 1
  <1>1. IsFiniteSet(Doing) /\ Cardinality(Doing) \in Nat
    BY FS_Subset, FS_CardinalityType DEF Doing
  <1>2. w \in Doing => Cardinality(Doing) # 0
    BY <1>1, FS_EmptySet
  <1>3. Cardinality(Doing \union {w}) = IF w \in Doing THEN Cardinality(Doing) ELSE Cardinality(Doing) + 1
    BY <1>1, FS_AddElement
  <1>4. Cardinality(Doing \ {w}) = IF w \in Doing THEN Cardinality(Doing) - 1 ELSE Cardinality(Doing)
    BY <1>1, FS_RemoveElement
  <1> QED BY <1>1, <1>2, <1>3, <1>4

\* A step that neither adds nor does keeps the accounts.
LEMMA CountStays ==
  ASSUME CountIsKept, UNCHANGED <<owed, room, amount, state.stamp>>,
         state'.stamp = 0 => state'.ptr = nullptr,
         \A w \in Workers : (pc'[w] = "add" <=> pc[w] = "add") /\ (pc'[w] = "done" <=> pc[w] = "done")
  PROVE  CountIsKept'
  <1>1. Doing' = Doing /\ Units(amount)' = Units(amount)
    BY DEF Doing, Units
  <1> QED BY <1>1 DEF CountIsKept

\* A step that does not touch the lists, nor those who wait in them, keeps them.
LEMMA PointersStay ==
  ASSUME PointersAreLive, PointersAreUnique, TypeOK, state'.ptr = state.ptr,
         \A p \in Waiters : (Live(p)' <=> Live(p)) /\ (Live(p) => next'[p] = next[p]),
         \A w \in Workers : /\ cursor'[w] = cursor[w] /\ follow'[w] = follow[w]
                            /\ Walks(w)' <=> Walks(w)
                            /\ pc'[w] = "wake" <=> pc[w] = "wake"
  PROVE  PointersAreLive' /\ PointersAreUnique'
  <1>1. /\ state.ptr \in Waiters \union {nullptr}
        /\ \A p \in Waiters : next[p] \in Waiters \union {nullptr}
        /\ \A w \in Workers : cursor[w] \in Waiters \union {nullptr}
    BY DEF TypeOK, Stamped
  <1>2. PointersAreLive'
    <2>1. state'.ptr # nullptr => Live(state.ptr)'
      BY <1>1 DEF PointersAreLive
    <2>2. \A p \in Waiters : Live(p)' /\ next'[p] # nullptr => Live(next[p])'
      BY <1>1 DEF PointersAreLive
    <2>3. \A w \in Workers : IF Walks(w)' THEN cursor'[w] # nullptr /\ Live(cursor[w])' ELSE cursor'[w] = nullptr
      BY <1>1 DEF PointersAreLive
    <2>4. \A w \in Workers : follow'[w] = IF pc'[w] = "wake" THEN next'[cursor'[w]] ELSE nullptr
      BY <1>1 DEF PointersAreLive, Walks
    <2> QED BY <2>1, <2>2, <2>3, <2>4 DEF PointersAreLive, Live
  <1>3. PointersAreUnique'
    BY DEF PointersAreUnique
  <1> QED BY <1>2, <1>3

-----------------------------------------------------------------------------
\* The steps of Add, and the first of Done.

\* The group starts at zero, and nobody uses it.
LEMMA InitIInv == Init => IInv
  <1> SUFFICES ASSUME Init PROVE IInv
    OBVIOUS
  <1> USE DEF Init
  <1>1. TypeOK
    BY DEF TypeOK, Stamped, Nothing
  <1>2. CountIsKept
    <2>1. Doing = {} /\ Units(amount) = {}
      BY DEF Doing, Units
    <2>2. Cardinality(Doing) = 0 /\ Cardinality(Units(amount)) = 0
      BY <2>1, FS_EmptySet
    <2> QED BY <2>2 DEF CountIsKept, Nothing
  <1>3. EverybodyInPlace /\ PointersAreLive /\ PointersAreUnique
    BY DEF EverybodyInPlace, PointersAreLive, PointersAreUnique, Live, Walks, Nothing
  <1> QED BY <1>1, <1>2, <1>3 DEF IInv

\* What it adds is taken from the room.
LEMMA AddLoadIInv == ASSUME IInv, NEW w \in Workers, AddLoad(w) PROVE IInv'
  <1> USE DEF IInv
  <1>1. PICK n \in 1 .. room : amount' = [amount EXCEPT ![w] = n] /\ room' = room - n
    BY DEF AddLoad
  <1>2. /\ pc[w] = "idle" /\ pc' = [pc EXCEPT ![w] = "add"] /\ seen' = [seen EXCEPT ![w] = state]
        /\ UNCHANGED <<state, next, owed, cursor, follow, woken>>
    BY DEF AddLoad, Load, Goto
  <1>t. /\ pc \in [Workers \union Waiters -> {"idle", "add", "done", "walk", "wake", "test",
                                              "load", "link", "cas", "parked", "return"}]
        /\ amount \in [Workers -> 0 .. kMaxStamp] /\ room \in 0 .. kMaxStamp /\ amount[w] = 0
        /\ state \in Stamped /\ state.stamp \in Nat /\ owed \in Nat
    BY <1>2 DEF TypeOK, CountIsKept, Stamped
  <1>p. /\ pc'[w] = "add" /\ \A v \in Workers : v # w => pc'[v] = pc[v] /\ amount'[v] = amount[v]
        /\ \A p \in Waiters : pc'[p] = pc[p] /\ seen'[p] = seen[p]
    BY <1>1, <1>2, <1>t DEF TypeOK
  <1>3. TypeOK'
    BY <1>1, <1>2, <1>t DEF TypeOK
  <1>4. CountIsKept'
    <2>1. n \in 0 .. kMaxStamp /\ amount' \in [Workers -> 0 .. kMaxStamp] /\ amount'[w] = n
      BY <1>1, <1>t
    <2>2. /\ Cardinality(Units(amount)) \in Nat
          /\ Cardinality(Units(amount')) = Cardinality(Units(amount)) + n
      BY <1>p, <1>t, <2>1, UnitsGrow
    <2>3. Doing' = Doing
      BY <1>p, <1>2 DEF Doing
    <2>4. state.stamp = owed + Cardinality(Doing) /\ (state.stamp = 0 => state.ptr = nullptr)
      BY DEF CountIsKept
    <2>5. state.stamp + (room - n) + (Cardinality(Units(amount)) + n) = kMaxStamp
      BY <1>1, <1>t, <2>2 DEF CountIsKept
    <2>6. \A v \in Workers : pc'[v] # "add" => amount'[v] = 0
      BY <1>p DEF CountIsKept
    <2> QED BY <1>1, <1>2, <2>2, <2>3, <2>4, <2>5, <2>6 DEF CountIsKept
  <1>5. EverybodyInPlace'
    BY <1>2, <1>p DEF EverybodyInPlace, TypeOK
  <1>6. PointersAreLive' /\ PointersAreUnique'
    BY <1>2, <1>p, PointersStay DEF Live, Walks
  <1> QED BY <1>3, <1>4, <1>5, <1>6

\* What was on its way is in the stamp, and owed.
LEMMA AddCasIInv == ASSUME IInv, NEW w \in Workers, AddCas(w) PROVE IInv'
  <1> USE DEF IInv
  <1>1. PICK n : n = amount[w]
    OBVIOUS
  <1>2. /\ pc[w] = "add" /\ pc' = [pc EXCEPT ![w] = "idle"] /\ seen' = [seen EXCEPT ![w] = Nothing]
        /\ state = seen[w] /\ state' = [state EXCEPT !.stamp = @ + n]
        /\ owed' = owed + n /\ amount' = [amount EXCEPT ![w] = 0]
        /\ UNCHANGED <<next, room, cursor, follow, woken>>
    BY <1>1 DEF AddCas, Replace, CasHits, Goto
  <1>t. /\ pc \in [Workers \union Waiters -> {"idle", "add", "done", "walk", "wake", "test",
                                              "load", "link", "cas", "parked", "return"}]
        /\ amount \in [Workers -> 0 .. kMaxStamp] /\ room \in 0 .. kMaxStamp /\ n \in 0 .. kMaxStamp
        /\ state \in Stamped /\ state.stamp \in Nat /\ owed \in Nat
    BY <1>1 DEF TypeOK, Stamped
  <1>p. /\ pc'[w] = "idle" /\ \A v \in Workers : v # w => pc'[v] = pc[v] /\ amount'[v] = amount[v]
        /\ \A p \in Waiters : pc'[p] = pc[p] /\ seen'[p] = seen[p]
        /\ state'.stamp = state.stamp + n /\ state'.ptr = state.ptr /\ amount'[w] = 0
    BY <1>1, <1>2, <1>t DEF TypeOK, Stamped
  <1>3. CountIsKept' /\ state'.stamp <= kMaxStamp /\ owed' <= kMaxStamp
    <2>1. amount' \in [Workers -> 0 .. kMaxStamp]
      BY <1>2, <1>t
    <2>2. /\ Cardinality(Units(amount')) \in Nat
          /\ Cardinality(Units(amount)) = Cardinality(Units(amount')) + n
      BY <1>1, <1>p, <1>t, <2>1, UnitsGrow
    <2>3. Doing' = Doing /\ Cardinality(Doing) \in Nat
      BY <1>p, <1>2, DoingGrows DEF Doing
    <2>4. state.stamp = owed + Cardinality(Doing) /\ (state.stamp = 0 => state.ptr = nullptr)
      BY DEF CountIsKept
    <2>5. state'.stamp + room + Cardinality(Units(amount')) = kMaxStamp
      BY <1>p, <1>t, <2>2 DEF CountIsKept
    <2>6. \A v \in Workers : pc'[v] # "add" => amount'[v] = 0
      BY <1>p DEF CountIsKept
    <2>7. state'.stamp = owed' + Cardinality(Doing)
      BY <1>2, <1>p, <1>t, <2>3, <2>4
    <2> QED BY <1>2, <1>p, <1>t, <2>2, <2>3, <2>4, <2>5, <2>6, <2>7 DEF CountIsKept
  <1>4. TypeOK'
    <2>1. state' \in Stamped /\ owed' \in 0 .. kMaxStamp
      BY <1>2, <1>3, <1>t, <1>p DEF Stamped
    <2> QED BY <1>2, <1>t, <2>1 DEF TypeOK, Nothing, Stamped
  <1>5. EverybodyInPlace'
    BY <1>2, <1>p DEF EverybodyInPlace, TypeOK
  <1>6. PointersAreLive' /\ PointersAreUnique'
    BY <1>2, <1>p, PointersStay DEF Live, Walks
  <1> QED BY <1>3, <1>4, <1>5, <1>6

\* A Done that was owed is on its way.
LEMMA DoneLoadIInv == ASSUME IInv, NEW w \in Workers, DoneLoad(w) PROVE IInv'
  <1> USE DEF IInv
  <1>2. /\ pc[w] = "idle" /\ pc' = [pc EXCEPT ![w] = "done"] /\ seen' = [seen EXCEPT ![w] = state]
        /\ owed > 0 /\ owed' = owed - 1
        /\ UNCHANGED <<state, next, amount, room, cursor, follow, woken>>
    BY DEF DoneLoad, Load, Goto
  <1>t. /\ pc \in [Workers \union Waiters -> {"idle", "add", "done", "walk", "wake", "test",
                                              "load", "link", "cas", "parked", "return"}]
        /\ state \in Stamped /\ state.stamp \in Nat /\ owed \in 0 .. kMaxStamp
    BY DEF TypeOK, Stamped
  <1>p. /\ pc'[w] = "done" /\ \A v \in Workers : v # w => pc'[v] = pc[v]
        /\ \A p \in Waiters : pc'[p] = pc[p] /\ seen'[p] = seen[p]
    BY <1>2, <1>t DEF TypeOK
  <1>3. TypeOK'
    BY <1>2, <1>t DEF TypeOK
  <1>4. CountIsKept'
    <2>1. Doing' = Doing \union {w} /\ w \notin Doing
      BY <1>p, <1>2 DEF Doing
    <2>2. Cardinality(Doing') = Cardinality(Doing) + 1 /\ Cardinality(Doing) \in Nat
      BY <2>1, DoingGrows
    <2>3. \A v \in Workers : pc'[v] # "add" => amount[v] = 0
      BY <1>p, <1>2 DEF CountIsKept
    <2>4. state.stamp = owed' + Cardinality(Doing')
      BY <1>2, <1>t, <2>2 DEF CountIsKept
    <2> QED BY <1>2, <2>3, <2>4 DEF CountIsKept
  <1>5. EverybodyInPlace'
    BY <1>2, <1>p DEF EverybodyInPlace, TypeOK
  <1>6. PointersAreLive' /\ PointersAreUnique'
    BY <1>2, <1>p, PointersStay DEF Live, Walks
  <1> QED BY <1>3, <1>4, <1>5, <1>6

\* A CAS that fails loads the word again.
LEMMA RetryIInv ==
  ASSUME IInv, NEW w \in Workers, AddRetry(w) \/ DoneRetry(w)
  PROVE  IInv'
  <1> USE DEF IInv
  <1>1. /\ pc' = pc /\ seen' = [seen EXCEPT ![w] = state]
        /\ UNCHANGED <<state, next, amount, owed, room, cursor, follow, woken>>
    BY DEF AddRetry, DoneRetry, Retry, Load, Goto, callers, TypeOK
  <1>2. TypeOK'
    BY <1>1 DEF TypeOK
  <1>3. CountIsKept'
    BY <1>1, CountStays DEF CountIsKept
  <1>4. EverybodyInPlace'
    BY <1>1 DEF EverybodyInPlace, TypeOK
  <1>5. PointersAreLive' /\ PointersAreUnique'
    BY <1>1, PointersStay DEF Live, Walks
  <1> QED BY <1>2, <1>3, <1>4, <1>5

-----------------------------------------------------------------------------
\* The rest of Done.

\* The Done takes effect; the last one takes the list off the word.
LEMMA DoneCasIInv == ASSUME IInv, NEW w \in Workers, DoneCas(w) PROVE IInv'
  <1> USE DEF IInv
  <1>1. /\ pc[w] = "done" /\ state = seen[w] /\ state' = DoneState(state)
        /\ seen' = [seen EXCEPT ![w] = Nothing] /\ room' = room + 1
        /\ UNCHANGED <<next, amount, owed, follow, woken>>
    BY DEF DoneCas, Replace, CasHits
  <1>2. IF state.stamp = 1 /\ state.ptr # nullptr
          THEN cursor' = [cursor EXCEPT ![w] = state.ptr] /\ pc' = [pc EXCEPT ![w] = "walk"]
          ELSE UNCHANGED cursor /\ pc' = [pc EXCEPT ![w] = "idle"]
    BY <1>1 DEF DoneCas, Goto
  <1>t. /\ pc \in [Workers \union Waiters -> {"idle", "add", "done", "walk", "wake", "test",
                                              "load", "link", "cas", "parked", "return"}]
        /\ state \in Stamped /\ state.stamp \in Nat /\ owed \in 0 .. kMaxStamp /\ room \in 0 .. kMaxStamp
        /\ state.ptr \in Waiters \union {nullptr} /\ cursor \in [Workers -> Waiters \union {nullptr}]
    BY DEF TypeOK, Stamped
  <1>p. /\ pc'[w] \in {"walk", "idle"} /\ \A v \in Workers : v # w => pc'[v] = pc[v] /\ cursor'[v] = cursor[v]
        /\ \A p \in Waiters : pc'[p] = pc[p] /\ seen'[p] = seen[p]
    BY <1>1, <1>2, <1>t DEF TypeOK
  <1>d. /\ Doing' = Doing \ {w} /\ Cardinality(Doing) \in Nat /\ Cardinality(Doing) > 0
        /\ Cardinality(Doing') = Cardinality(Doing) - 1
    <2>1. Doing' = Doing \ {w} /\ w \in Doing
      BY <1>p, <1>1 DEF Doing
    <2> QED BY <2>1, DoingGrows
  <1>s. /\ state.stamp > 0 /\ state'.stamp = state.stamp - 1 /\ state' \in Stamped
        /\ state'.ptr = IF state.stamp = 1 THEN nullptr ELSE state.ptr
    <2>1. state.stamp > 0
      BY <1>d, <1>t DEF CountIsKept
    <2> QED BY <1>1, <1>t, <2>1 DEF DoneState, Nothing, Stamped
  <1>3. CountIsKept' /\ room' <= kMaxStamp
    <2>1. Cardinality(Units(amount)) \in Nat
      BY UnitsAreFinite DEF TypeOK
    <2>2. \A v \in Workers : pc'[v] # "add" => amount[v] = 0
      BY <1>1, <1>p DEF CountIsKept
    <2>3. state'.stamp = owed + Cardinality(Doing') /\ state'.stamp + room' + Cardinality(Units(amount)) = kMaxStamp
      BY <1>1, <1>t, <1>d, <1>s, <2>1 DEF CountIsKept
    <2>4. state'.stamp = 0 => state'.ptr = nullptr
      BY <1>t, <1>s
    <2> QED BY <1>1, <1>t, <1>s, <2>1, <2>2, <2>3, <2>4 DEF CountIsKept
  <1>4. TypeOK'
    <2>1. room' \in 0 .. kMaxStamp /\ state' \in Stamped
      BY <1>1, <1>3, <1>s, <1>t
    <2>2. seen' \in [Workers \union Waiters -> Stamped]
      BY <1>1 DEF TypeOK, Nothing, Stamped
    <2>3. /\ cursor' \in [Workers -> Waiters \union {nullptr}]
          /\ pc' \in [Workers \union Waiters -> {"idle", "add", "done", "walk", "wake", "test",
                                                 "load", "link", "cas", "parked", "return"}]
      BY <1>2, <1>t
    <2> QED BY <1>1, <2>1, <2>2, <2>3 DEF TypeOK
  <1>5. EverybodyInPlace'
    BY <1>1, <1>p DEF EverybodyInPlace, TypeOK
  <1>6. PointersAreLive' /\ PointersAreUnique'
    <2>0. \A p : p \in Waiters => (Live(p)' <=> Live(p))
      BY <1>1, <1>p DEF Live
    <2>1. CASE state.stamp = 1 /\ state.ptr # nullptr
      <3>1. /\ state'.ptr = nullptr /\ cursor'[w] = state.ptr /\ pc'[w] = "walk"
            /\ state.ptr \in Waiters /\ Live(state.ptr) /\ ~ Walks(w)
        BY <1>1, <1>2, <1>s, <1>t, <2>1 DEF PointersAreLive, Walks
      <3>2. \A v \in Workers : v # w => (Walks(v)' <=> Walks(v)) /\ cursor'[v] = cursor[v]
        BY <1>p DEF Walks
      <3>3. PointersAreLive'
        <4>1. \A p \in Waiters : Live(p)' /\ next'[p] # nullptr => Live(next[p])'
          BY <1>1, <2>0 DEF PointersAreLive, TypeOK
        <4>2. \A v \in Workers : IF Walks(v)' THEN cursor'[v] # nullptr /\ Live(cursor[v])' ELSE cursor'[v] = nullptr
          BY <1>t, <2>0, <2>1, <3>1, <3>2 DEF PointersAreLive, Walks
        <4>3. \A v \in Workers : follow'[v] = IF pc'[v] = "wake" THEN next'[cursor'[v]] ELSE nullptr
          BY <1>1, <1>p, <3>1, <3>2 DEF PointersAreLive
        <4> QED BY <3>1, <4>1, <4>2, <4>3 DEF PointersAreLive, Live
      <3>4. PointersAreUnique'
        <4>1. \A v \in Workers : Walks(v) => cursor[v] # state.ptr
          BY DEF PointersAreUnique
        <4>2. \A p \in Waiters : Live(p) => state.ptr # next[p]
          BY <2>1 DEF PointersAreUnique
        <4>3. \A u, v \in Workers : Walks(u)' /\ cursor'[u] = cursor'[v] => u = v
          BY <3>1, <3>2, <4>1, <2>1 DEF PointersAreUnique, PointersAreLive
        <4>4. \A v \in Workers, p \in Waiters : Walks(v)' /\ Live(p)' => cursor'[v] # next'[p]
          BY <1>1, <2>0, <3>1, <3>2, <4>2 DEF PointersAreUnique
        <4>5. \A v \in Workers : Walks(v)' => cursor'[v] # state'.ptr
          BY <2>1, <3>1, <3>2 DEF PointersAreLive
        <4>6. \A p, q \in Waiters : Live(p)' /\ Live(q)' /\ next'[p] = next'[q] /\ next'[p] # nullptr => p = q
          BY <1>1, <2>0 DEF PointersAreUnique
        <4> QED BY <3>1, <4>3, <4>4, <4>5, <4>6 DEF PointersAreUnique
      <3> QED BY <3>3, <3>4
    <2>2. CASE ~ (state.stamp = 1 /\ state.ptr # nullptr)
      <3>1. UNCHANGED cursor /\ pc' = [pc EXCEPT ![w] = "idle"] /\ state'.ptr = state.ptr
        BY <1>2, <1>s, <2>2
      <3>2. \A v \in Workers : /\ cursor'[v] = cursor[v] /\ follow'[v] = follow[v] /\ (Walks(v)' <=> Walks(v))
                               /\ (pc'[v] = "wake" <=> pc[v] = "wake")
        BY <1>1, <1>t, <3>1 DEF Walks
      <3> QED BY <1>1, <2>0, <3>1, <3>2, PointersStay
    <2> QED BY <2>1, <2>2
  <1> QED BY <1>3, <1>4, <1>5, <1>6

\* Next of the awaiter is read: from now on it is the walk that knows it.
LEMMA FollowIInv == ASSUME IInv, NEW w \in Workers, Follow(w) PROVE IInv'
  <1> USE DEF IInv
  <1>1. /\ pc[w] = "walk" /\ pc' = [pc EXCEPT ![w] = "wake"] /\ follow' = [follow EXCEPT ![w] = next[cursor[w]]]
        /\ UNCHANGED <<state, next, seen, amount, owed, room, cursor, woken>>
    BY DEF Follow, Goto, callers
  <1>t. /\ pc \in [Workers \union Waiters -> {"idle", "add", "done", "walk", "wake", "test",
                                              "load", "link", "cas", "parked", "return"}]
        /\ follow \in [Workers -> Waiters \union {nullptr}]
    BY DEF TypeOK
  <1>p. /\ pc'[w] = "wake" /\ \A v \in Workers : v # w => pc'[v] = pc[v] /\ follow'[v] = follow[v]
        /\ \A p \in Waiters : pc'[p] = pc[p]
        /\ follow'[w] = next[cursor[w]]
    BY <1>1, <1>t
  <1>2. cursor[w] \in Waiters /\ next[cursor[w]] \in Waiters \union {nullptr}
    BY <1>1 DEF PointersAreLive, Walks, TypeOK
  <1>3. TypeOK'
    BY <1>1, <1>2 DEF TypeOK
  <1>4. CountIsKept'
    BY <1>1, <1>p, CountStays DEF CountIsKept
  <1>5. EverybodyInPlace'
    BY <1>1, <1>p DEF EverybodyInPlace
  <1>6. PointersAreLive'
    <2>1. \A v \in Workers : (Walks(v)' <=> Walks(v)) /\ follow'[v] = IF pc'[v] = "wake" THEN next[cursor[v]] ELSE nullptr
      BY <1>1, <1>p DEF PointersAreLive, Walks
    <2>2. \A p \in Waiters : Live(p)' <=> Live(p)
      BY <1>1, <1>p DEF Live
    <2>3. /\ state.ptr # nullptr => Live(state.ptr)'
          /\ \A p \in Waiters : Live(p)' /\ next[p] # nullptr => Live(next[p])'
          /\ \A v \in Workers : IF Walks(v)' THEN cursor[v] # nullptr /\ Live(cursor[v])' ELSE cursor[v] = nullptr
      BY <1>1, <2>1, <2>2 DEF PointersAreLive, TypeOK, Stamped
    <2> QED BY <1>1, <2>1, <2>3 DEF PointersAreLive, Live
  <1>7. PointersAreUnique'
    BY <1>1, <1>p DEF PointersAreUnique, Walks, Live
  <1> QED BY <1>3, <1>4, <1>5, <1>6, <1>7

\* The awaiter is woken, and nothing leads to it any more.
LEMMA WakeIInv == ASSUME IInv, NEW w \in Workers, Wake(w) PROVE IInv'
  <1> USE DEF IInv
  <1>0. PICK x : x = cursor[w]
    OBVIOUS
  <1>1. /\ pc[w] = "wake" /\ pc' = [pc EXCEPT ![w] = IF follow[w] = nullptr THEN "idle" ELSE "walk"]
        /\ woken' = woken \union {x} /\ cursor' = [cursor EXCEPT ![w] = follow[w]]
        /\ follow' = [follow EXCEPT ![w] = nullptr]
        /\ UNCHANGED <<state, next, seen, amount, owed, room>>
    BY <1>0 DEF Wake, Goto, callers
  <1>t. /\ pc \in [Workers \union Waiters -> {"idle", "add", "done", "walk", "wake", "test",
                                              "load", "link", "cas", "parked", "return"}]
        /\ follow \in [Workers -> Waiters \union {nullptr}]
        /\ cursor \in [Workers -> Waiters \union {nullptr}]
        /\ next \in [Waiters -> Waiters \union {nullptr}]
        /\ state.ptr \in Waiters \union {nullptr}
    BY DEF TypeOK, Stamped
  <1>2. x \in Waiters /\ Live(x) /\ follow[w] = next[x] /\ Walks(w)
    BY <1>0, <1>1, <1>t DEF PointersAreLive, Walks
  <1>p. /\ \A v \in Workers : v # w => pc'[v] = pc[v] /\ follow'[v] = follow[v] /\ cursor'[v] = cursor[v]
        /\ \A p \in Waiters : pc'[p] = pc[p]
        /\ pc'[w] = IF next[x] = nullptr THEN "idle" ELSE "walk"
        /\ cursor'[w] = next[x] /\ follow'[w] = nullptr
        /\ state' = state /\ next' = next
    BY <1>1, <1>2, <1>t
  <1>3. TypeOK'
    BY <1>1, <1>2, <1>t DEF TypeOK
  <1>4. CountIsKept'
    BY <1>1, <1>p, CountStays DEF CountIsKept
  <1>5. EverybodyInPlace'
    BY <1>1, <1>2, <1>p DEF EverybodyInPlace, Live
  <1>6. \A p \in Waiters : Live(p)' <=> Live(p) /\ p # x
    BY <1>1, <1>p DEF Live
  <1>7. /\ \A p \in Waiters : Live(p) => next[p] # x
        /\ \A v \in Workers : v # w => cursor[v] # x
        /\ state.ptr # x
    BY <1>0, <1>2 DEF PointersAreUnique, PointersAreLive
  <1>8. PointersAreLive'
    <2>1. \A v \in Workers : v # w => (Walks(v)' <=> Walks(v))
      BY <1>p DEF Walks
    <2>2. Walks(w)' <=> next[x] # nullptr
      BY <1>p DEF Walks
    <2>3. next[x] # nullptr => Live(next[x])'
      BY <1>p, <1>2, <1>6, <1>7, <1>t DEF PointersAreLive
    <2>4. \A v \in Workers : v # w => IF Walks(v) THEN cursor[v] # nullptr /\ Live(cursor[v])' ELSE cursor[v] = nullptr
      BY <1>p, <1>6, <1>7, <1>t DEF PointersAreLive
    <2>5. \A v \in Workers : IF Walks(v)' THEN cursor'[v] # nullptr /\ pc'[cursor'[v]] = "parked" /\ cursor'[v] \notin woken'
                                          ELSE cursor'[v] = nullptr
      BY <1>p, <2>1, <2>2, <2>3, <2>4 DEF Live
    <2>6. \A v \in Workers : follow'[v] = IF pc'[v] = "wake" THEN next[cursor'[v]] ELSE nullptr
      BY <1>p DEF PointersAreLive
    <2>7. state.ptr # nullptr => Live(state.ptr)'
      BY <1>p, <1>6, <1>7, <1>t DEF PointersAreLive
    <2>8. \A p \in Waiters : Live(p)' /\ next[p] # nullptr => Live(next[p])'
      BY <1>p, <1>6, <1>7, <1>t DEF PointersAreLive
    <2> QED BY <1>p, <2>5, <2>6, <2>7, <2>8 DEF PointersAreLive, Live
  <1>9. PointersAreUnique'
    <2>1. \A v \in Workers : v # w => (Walks(v)' <=> Walks(v)) /\ cursor'[v] = cursor[v]
      BY <1>p DEF Walks
    <2>2. Walks(w)' => next[x] # nullptr
      BY <1>p DEF Walks
    <2>3. /\ \A v \in Workers : Walks(v) => cursor[v] # next[x]
          /\ next[x] # nullptr => state.ptr # next[x] /\ \A p \in Waiters : Live(p) /\ p # x => next[p] # next[x]
      BY <1>2 DEF PointersAreUnique
    <2>4. \A u, v \in Workers : Walks(u)' /\ cursor'[u] = cursor'[v] => u = v
      BY <1>p, <2>1, <2>2, <2>3, <1>t DEF PointersAreUnique, PointersAreLive
    <2>5. \A v \in Workers, p \in Waiters : Walks(v)' /\ Live(p)' => cursor'[v] # next[p]
      BY <1>p, <1>6, <2>1, <2>2, <2>3 DEF PointersAreUnique
    <2>6. \A v \in Workers : Walks(v)' => cursor'[v] # state.ptr
      BY <1>p, <2>1, <2>2, <2>3 DEF PointersAreUnique
    <2>7. \A p, q \in Waiters : Live(p)' /\ Live(q)' /\ next[p] = next[q] /\ next[p] # nullptr => p = q
      BY <1>6 DEF PointersAreUnique
    <2>8. \A p \in Waiters : Live(p)' /\ next[p] # nullptr => state.ptr # next[p]
      BY <1>6 DEF PointersAreUnique
    <2> QED BY <1>p, <2>4, <2>5, <2>6, <2>7, <2>8 DEF PointersAreUnique
  <1> QED BY <1>3, <1>4, <1>5, <1>8, <1>9

-----------------------------------------------------------------------------
\* The steps of Wait.

\* What a waiter does that is on no list does not touch any.
LEMMA WaiterIInv ==
  ASSUME IInv, NEW p \in Waiters,
         Wait(p) \/ WaitTest(p) \/ AwaitLoad(p) \/ AwaitLink(p) \/ AwaitRetry(p) \/ Resume(p) \/ Return(p)
  PROVE  /\ IInv' /\ ~ Live(p) /\ pc'[p] # "parked"
         /\ \A q \in Waiters : q # p => pc'[q] = pc[q] /\ next'[q] = next[q] /\ seen'[q] = seen[q]
         /\ UNCHANGED state
  <1> USE DEF IInv
  <1>t. /\ pc \in [Workers \union Waiters -> {"idle", "add", "done", "walk", "wake", "test",
                                              "load", "link", "cas", "parked", "return"}]
        /\ next \in [Waiters -> Waiters \union {nullptr}]
        /\ seen \in [Workers \union Waiters -> Stamped]
        /\ state \in Stamped /\ Nothing \in Stamped
    BY DEF TypeOK, Nothing, Stamped
  <1>1. /\ UNCHANGED <<state, amount, owed, room, cursor, follow>>
        /\ ~ Live(p)
    BY DEF Wait, WaitTest, AwaitLoad, AwaitLink, AwaitRetry, Resume, Return, Live, callers
  <1>2. PICK label \in {"idle", "test", "load", "link", "cas", "return"} : pc' = [pc EXCEPT ![p] = label]
    BY DEF Wait, WaitTest, AwaitLoad, AwaitLink, AwaitRetry, Resume, Return, Load, Goto
  <1>3. PICK s \in Stamped : seen' = [seen EXCEPT ![p] = s]
    <2>1. seen' = seen \/ seen' = [seen EXCEPT ![p] = state] \/ seen' = [seen EXCEPT ![p] = Nothing]
      BY DEF Wait, WaitTest, AwaitLoad, AwaitLink, AwaitRetry, Resume, Return, Load
    <2>2. seen' = seen => seen' = [seen EXCEPT ![p] = seen[p]] /\ seen[p] \in Stamped
      BY <1>t
    <2> QED BY <1>t, <2>1, <2>2
  <1>4. PICK n \in Waiters \union {nullptr} : next' = [next EXCEPT ![p] = n]
    <2>1. next' = next \/ next' = [next EXCEPT ![p] = nullptr] \/ next' = [next EXCEPT ![p] = seen[p].ptr]
      BY DEF Wait, WaitTest, AwaitLoad, AwaitLink, AwaitRetry, Resume, Return
    <2>2. next' = next => next' = [next EXCEPT ![p] = next[p]] /\ next[p] \in Waiters \union {nullptr}
      BY <1>t
    <2>3. seen[p].ptr \in Waiters \union {nullptr}
      BY <1>t DEF Stamped
    <2> QED BY <2>1, <2>2, <2>3
  <1>5. woken' \subseteq woken /\ \A q \in woken : q # p => q \in woken'
    BY DEF Wait, WaitTest, AwaitLoad, AwaitLink, AwaitRetry, Resume, Return
  <1>6. pc'[p] = "cas" => next'[p] = seen'[p].ptr /\ seen'[p].stamp > 0
    <2>1. pc'[p] = label
      BY <1>2, <1>t
    <2>2. pc'[p] = "cas" => AwaitLink(p)
      BY <1>t, <2>1 DEF Wait, WaitTest, AwaitLoad, AwaitRetry, Resume, Return, Load, Goto
    <2>3. AwaitLink(p) /\ pc'[p] = "cas" => seen' = seen /\ next'[p] = seen[p].ptr /\ seen[p].stamp # 0
      BY <1>t DEF AwaitLink, Goto
    <2>4. seen[p].stamp \in Nat
      BY <1>t DEF Stamped
    <2> QED BY <2>2, <2>3, <2>4
  <1>7. p \notin woken'
    BY DEF EverybodyInPlace, Wait, WaitTest, AwaitLoad, AwaitLink, AwaitRetry, Resume, Return
  <1>p. /\ \A q \in Waiters : q # p => pc'[q] = pc[q] /\ next'[q] = next[q] /\ seen'[q] = seen[q]
        /\ \A w \in Workers : pc'[w] = pc[w]
        /\ pc'[p] \in {"idle", "test", "load", "link", "cas", "return"}
    BY <1>2, <1>3, <1>4, <1>t
  <1>8. TypeOK'
    BY <1>1, <1>2, <1>3, <1>4, <1>5, <1>t DEF TypeOK
  <1>9. CountIsKept'
    BY <1>1, <1>p, CountStays DEF CountIsKept
  <1>10. EverybodyInPlace'
    BY <1>5, <1>6, <1>7, <1>p DEF EverybodyInPlace, TypeOK
  <1>11. PointersAreLive' /\ PointersAreUnique'
    <2>1. \A q \in Waiters : (Live(q)' <=> Live(q)) /\ (Live(q) => next'[q] = next[q])
      BY <1>1, <1>5, <1>p DEF Live
    <2> QED BY <1>1, <1>p, <2>1, PointersStay DEF Walks
  <1> QED BY <1>1, <1>8, <1>9, <1>10, <1>11, <1>p

\* The awaiter is on the list, and has become its head.
LEMMA AwaitCasIInv == ASSUME IInv, NEW p \in Waiters, AwaitCas(p) PROVE IInv'
  <1> USE DEF IInv
  <1>1. /\ pc[p] = "cas" /\ state = seen[p] /\ state' = [state EXCEPT !.ptr = p]
        /\ seen' = [seen EXCEPT ![p] = Nothing] /\ pc' = [pc EXCEPT ![p] = "parked"]
        /\ UNCHANGED <<next, amount, owed, room, cursor, follow, woken>>
    BY DEF AwaitCas, Replace, CasHits, Goto, callers
  <1>t. /\ pc \in [Workers \union Waiters -> {"idle", "add", "done", "walk", "wake", "test",
                                              "load", "link", "cas", "parked", "return"}]
        /\ state \in Stamped /\ state.ptr \in Waiters \union {nullptr}
        /\ seen \in [Workers \union Waiters -> Stamped] /\ Nothing \in Stamped
    BY DEF TypeOK, Nothing, Stamped
  <1>p. /\ pc'[p] = "parked" /\ \A q \in Waiters : q # p => pc'[q] = pc[q] /\ seen'[q] = seen[q]
        /\ \A w \in Workers : pc'[w] = pc[w] /\ (Walks(w)' <=> Walks(w))
        /\ state'.ptr = p /\ state'.stamp = state.stamp /\ state' \in Stamped
    BY <1>1, <1>t DEF Walks, Stamped
  <1>2. ~ Live(p) /\ p \notin woken /\ next[p] = state.ptr /\ state.stamp > 0
    BY <1>1 DEF EverybodyInPlace, Live
  <1>3. TypeOK'
    BY <1>1, <1>p, <1>t DEF TypeOK
  <1>4. CountIsKept'
    BY <1>1, <1>2, <1>p, CountStays DEF CountIsKept
  <1>5. EverybodyInPlace'
    BY <1>1, <1>p DEF EverybodyInPlace, TypeOK
  <1>6. \A q \in Waiters : Live(q)' <=> Live(q) \/ q = p
    BY <1>1, <1>2, <1>p DEF Live
  <1>7. /\ \A q \in Waiters : Live(q) => next[q] # p
        /\ \A w \in Workers : cursor[w] # p
        /\ state.ptr # p
    BY <1>2 DEF PointersAreLive
  <1>8. PointersAreLive'
    <2>1. pc'[p] = "parked" /\ p \notin woken'
      BY <1>1, <1>2, <1>p
    <2>2. \A q \in Waiters : Live(q)' /\ next'[q] # nullptr => Live(next[q])'
      BY <1>1, <1>2, <1>6, <1>t DEF PointersAreLive, TypeOK
    <2>3. \A w \in Workers : IF Walks(w)' THEN cursor'[w] # nullptr /\ Live(cursor[w])' ELSE cursor'[w] = nullptr
      BY <1>1, <1>6, <1>p DEF PointersAreLive, TypeOK
    <2>4. \A w \in Workers : follow'[w] = IF pc'[w] = "wake" THEN next'[cursor'[w]] ELSE nullptr
      BY <1>1, <1>p DEF PointersAreLive
    <2> QED BY <1>p, <2>1, <2>2, <2>3, <2>4 DEF PointersAreLive, Live
  <1>9. PointersAreUnique'
    <2>1. \A q, r \in Waiters : Live(q)' /\ Live(r)' /\ next'[q] = next'[r] /\ next'[q] # nullptr => q = r
      BY <1>1, <1>2, <1>6 DEF PointersAreUnique
    <2>2. \A v, w \in Workers : Walks(v)' /\ cursor'[v] = cursor'[w] => v = w
      BY <1>1, <1>p DEF PointersAreUnique
    <2>3. \A w \in Workers, q \in Waiters : Walks(w)' /\ Live(q)' => cursor'[w] # next'[q]
      BY <1>1, <1>2, <1>p, <1>6 DEF PointersAreUnique
    <2>4. \A w \in Workers : Walks(w)' => cursor'[w] # state'.ptr
      BY <1>1, <1>p, <1>7
    <2>5. \A q \in Waiters : Live(q)' /\ next'[q] # nullptr => state'.ptr # next'[q]
      BY <1>1, <1>2, <1>p, <1>6, <1>7
    <2> QED BY <2>1, <2>2, <2>3, <2>4, <2>5 DEF PointersAreUnique
  <1> QED BY <1>3, <1>4, <1>5, <1>8, <1>9

\* Every step keeps it.
LEMMA NextIInv == ASSUME IInv, [Next]_vars PROVE IInv'
  <1>1. CASE UNCHANGED vars
    <2>1. UNCHANGED <<state, next, pc, seen, amount, owed, room, cursor, follow, woken>>
      BY <1>1 DEF vars, callers
    <2>2. TypeOK' /\ EverybodyInPlace'
      BY <2>1 DEF IInv, TypeOK, EverybodyInPlace
    <2>3. CountIsKept'
      BY <2>1, CountStays DEF IInv, CountIsKept
    <2>4. PointersAreLive' /\ PointersAreUnique'
      BY <2>1, PointersStay DEF IInv, Live, Walks
    <2> QED BY <2>2, <2>3, <2>4 DEF IInv
  <1>2. ASSUME NEW w \in Workers, AddStep(w)
        PROVE  IInv'
    BY <1>2, AddLoadIInv, AddCasIInv, RetryIInv DEF AddStep
  <1>3. ASSUME NEW w \in Workers, DoneStep(w)
        PROVE  IInv'
    BY <1>3, DoneLoadIInv, DoneCasIInv, RetryIInv, FollowIInv, WakeIInv DEF DoneStep
  <1>4. ASSUME NEW p \in Waiters, Wait(p) \/ WaitStep(p)
        PROVE  IInv'
    BY <1>4, WaiterIInv, AwaitCasIInv DEF WaitStep
  <1> QED BY <1>1, <1>2, <1>3, <1>4 DEF Next

LEMMA Invariance == Spec => []IInv
  BY InitIInv, NextIInv, PTL DEF Spec

\* For any workers, waiters and width of the stamp: no list that a Done walks or
\* that is in the word leads to an awaiter that may be gone (WaitGroup.cpp 63-68).
THEOREM AwaitersAreAlive == Spec => []AwaiterAlive
  <1>1. IInv => AwaiterAlive
    <2> SUFFICES ASSUME IInv,
                        NEW p \in Waiters,
                        p \in {state.ptr} \union {cursor[w] : w \in Workers} \union {follow[w] : w \in Workers}
                                          \union {next[q] : q \in {r \in Waiters : Live(r)}}
                 PROVE  Live(p)
      BY DEF AwaiterAlive
    <2> USE DEF IInv, PointersAreLive
    <2>1. CASE p = state.ptr
      BY <2>1
    <2>2. ASSUME NEW w \in Workers, p = cursor[w]
          PROVE  Live(p)
      BY <2>2
    <2>3. ASSUME NEW w \in Workers, p = follow[w]
          PROVE  Live(p)
      <3>1. pc[w] = "wake" /\ p = next[cursor[w]] /\ p # nullptr
        BY <2>3
      <3>2. cursor[w] \in Waiters /\ Live(cursor[w])
        BY <3>1 DEF Walks, TypeOK
      <3> QED BY <3>1, <3>2
    <2>4. ASSUME NEW q \in Waiters, Live(q), p = next[q]
          PROVE  Live(p)
      BY <2>4
    <2> QED BY <2>1, <2>2, <2>3, <2>4
  <1> QED BY <1>1, Invariance, PTL

\* For any workers, waiters and width of the stamp: the counter is the number of
\* the Done calls that have not taken effect, it never leaves the stamp's width,
\* and at zero the list is empty (WaitGroup.cpp 47, 61, 86).
THEOREM CounterIsRight == Spec => []CounterIsExact
  <1>1. IInv => CounterIsExact
    BY DEF IInv, CounterIsExact, CountIsKept, Doing
  <1> QED BY <1>1, Invariance, PTL

-----------------------------------------------------------------------------
\* The refinement.

\* Who is on the list waits in it, so that the list is what those who wait make of it.
LEMMA ChainStays ==
  ASSUME IInv, state'.ptr = state.ptr, \A q \in Waiters : Live(q) => next'[q] = next[q]
  PROVE  Chain(state.ptr)' = Chain(state.ptr) /\ \A q \in Chain(state.ptr) : Live(q)
  <1>1. PICK L : L = {q \in Waiters : Live(q)}
    OBVIOUS
  <1>2. /\ {state.ptr} \intersect Waiters \subseteq L
        /\ \A q \in L : q \in Waiters /\ next'[q] = next[q] /\ (next[q] \in Waiters => next[q] \in L)
    BY <1>1 DEF IInv, PointersAreLive, TypeOK
  <1>3. \A S \in SUBSET Waiters : /\ Closed(S) => Closed(S \intersect L) /\ Closed(S \intersect L)'
                                  /\ Closed(S)' => Closed(S \intersect L) /\ Closed(S \intersect L)'
    BY <1>2 DEF Closed
  <1>4. \A S \in SUBSET Waiters : {state.ptr} \intersect Waiters \subseteq S =>
           S \intersect L \in SUBSET Waiters /\ {state.ptr} \intersect Waiters \subseteq S \intersect L
    BY <1>2
  <1>5. ASSUME NEW q \in Chain(state.ptr)
        PROVE  q \in Chain(state.ptr)' /\ q \in L
    <2>1. q \in Waiters /\ \A S \in SUBSET Waiters : {state.ptr} \intersect Waiters \subseteq S /\ Closed(S) => q \in S
      BY DEF Chain
    <2>2. \A S \in SUBSET Waiters : {state.ptr} \intersect Waiters \subseteq S /\ Closed(S)' => q \in S \intersect L
      BY <1>3, <1>4, <2>1
    <2>3. q \in L
      BY <1>1, <1>2, <2>1 DEF Closed
    <2> QED BY <2>1, <2>2, <2>3 DEF Chain
  <1>6. ASSUME NEW q \in Chain(state.ptr)'
        PROVE  q \in Chain(state.ptr)
    <2>1. q \in Waiters /\ \A S \in SUBSET Waiters : {state.ptr} \intersect Waiters \subseteq S /\ Closed(S)' => q \in S
      BY DEF Chain
    <2>2. \A S \in SUBSET Waiters : {state.ptr} \intersect Waiters \subseteq S /\ Closed(S) => q \in S \intersect L
      BY <1>3, <1>4, <2>1
    <2> QED BY <2>1, <2>2 DEF Chain
  <1> QED BY <1>1, <1>5, <1>6

\* The new head leads to all that were on the list.
LEMMA ChainGrows ==
  ASSUME NEW p \in Waiters, UNCHANGED next, state'.ptr = p, next[p] = state.ptr
  PROVE  /\ p \in Chain(state.ptr)'
         /\ \A q \in Waiters : q # p => (q \in Chain(state.ptr)' <=> q \in Chain(state.ptr))
  <1>1. \A S : Closed(S)' <=> Closed(S)
    BY DEF Closed
  <1>2. Chain(state.ptr)' = {q \in Waiters : \A S \in SUBSET Waiters : p \in S /\ Closed(S) => q \in S}
    BY <1>1 DEF Chain
  <1>3. ASSUME NEW q \in Waiters, q # p, q \in Chain(state.ptr)'
        PROVE  q \in Chain(state.ptr)
    <2>1. SUFFICES ASSUME NEW S \in SUBSET Waiters, {state.ptr} \intersect Waiters \subseteq S, Closed(S)
                   PROVE  q \in S
      BY DEF Chain
    <2>2. Closed(S \union {p})
      BY <2>1 DEF Closed
    <2>3. S \union {p} \in SUBSET Waiters /\ p \in S \union {p}
      OBVIOUS
    <2>4. q \in S \union {p}
      BY <1>2, <1>3, <2>2, <2>3
    <2> QED BY <1>3, <2>4
  <1>4. ASSUME NEW q \in Waiters, q \in Chain(state.ptr)
        PROVE  q \in Chain(state.ptr)'
    <2>1. SUFFICES ASSUME NEW S \in SUBSET Waiters, p \in S, Closed(S)
                   PROVE  q \in S
      BY <1>2
    <2>2. {state.ptr} \intersect Waiters \subseteq S
      BY <2>1 DEF Closed
    <2> QED BY <1>4, <2>1, <2>2 DEF Chain
  <1> QED BY <1>2, <1>3, <1>4

\* The phase of a call changes by its own steps or with the list.
LEMMA PhaseStays ==
  ASSUME NEW q \in Waiters, pc'[q] = pc[q], seen'[q] = seen[q],
         q \in Chain(state.ptr)' <=> q \in Chain(state.ptr)
  PROVE  Phase(q)' = Phase(q)
  BY DEF Phase

LEMMA PhasesStay ==
  ASSUME UNCHANGED state.stamp, \A p \in Waiters : Phase(p)' = Phase(p)
  PROVE  UNCHANGED Promise!vars
  BY DEF Promise!vars

\* A step of one waiter that changes its phase is a move of the promise.
LEMMA PhaseMoves ==
  ASSUME NEW p \in Waiters, NEW to, UNCHANGED state.stamp, Phase(p)' = to,
         \A q \in Waiters : q # p => Phase(q)' = Phase(q)
  PROVE  Promise!Move(p, Phase(p), to)
  <1> DEFINE phase == [q \in Waiters |-> Phase(q)]
  <1>1. phase' = [q \in Waiters |-> Phase(q)']
    OBVIOUS
  <1>2. phase[p] = Phase(p) /\ phase' = [phase EXCEPT ![p] = to]
    BY <1>1
  <1> QED BY ONLY <1>2, UNCHANGED state.stamp DEF Promise!Move

\* A step of Wait by one that is on no list: it is called, sees zero, or returns.
LEMMA WaiterKeepsPromise ==
  ASSUME IInv, NEW p \in Waiters,
         Wait(p) \/ WaitTest(p) \/ AwaitLoad(p) \/ AwaitLink(p) \/ AwaitRetry(p) \/ Resume(p) \/ Return(p)
  PROVE  Promise!Next \/ UNCHANGED Promise!vars
  <1>1. /\ ~ Live(p) /\ state' = state
        /\ \A q \in Waiters : q # p => pc'[q] = pc[q] /\ next'[q] = next[q] /\ seen'[q] = seen[q]
    BY WaiterIInv
  <1>2. /\ \A q \in Waiters : q \in Chain(state.ptr)' <=> q \in Chain(state.ptr)
        /\ p \notin Chain(state.ptr)
    BY <1>1, ChainStays
  <1>3. \A q \in Waiters : q # p => Phase(q)' = Phase(q)
    BY <1>1, <1>2, PhaseStays
  <1>t. /\ pc \in [Workers \union Waiters -> {"idle", "add", "done", "walk", "wake", "test",
                                              "load", "link", "cas", "parked", "return"}]
        /\ seen \in [Workers \union Waiters -> Stamped]
    BY DEF IInv, TypeOK
  <1>4. \/ Phase(p) = Phase(p)'
        \/ Phase(p) = "out" /\ Phase(p)' = "called"
        \/ Phase(p) = "called" /\ Phase(p)' = "released" /\ state.stamp = 0
        \/ Phase(p) = "released" /\ Phase(p)' = "out"
    <2>1. CASE Wait(p)
      BY <2>1, <1>t DEF Wait, Goto, Phase
    <2>2. CASE WaitTest(p)
      BY <2>2, <1>t DEF WaitTest, Goto, Phase
    <2>3. CASE AwaitLoad(p) \/ AwaitRetry(p)
      <3>1. Phase(p) = "called"
        BY <2>3 DEF AwaitLoad, AwaitRetry, Phase
      <3>2. pc'[p] = "link" /\ seen'[p] = state
        BY <2>3, <1>t DEF AwaitLoad, AwaitRetry, Load, Goto
      <3>3. Phase(p)' = IF state.stamp = 0 THEN "released" ELSE "called"
        BY <3>2 DEF Phase
      <3> QED BY <3>1, <3>3
    <2>4. CASE AwaitLink(p)
      <3>1. pc[p] = "link" /\ pc'[p] = IF seen[p].stamp = 0 THEN "return" ELSE "cas"
        BY <2>4, <1>t DEF AwaitLink, Goto
      <3> QED BY <3>1 DEF Phase
    <2>5. CASE Resume(p)
      <3>1. pc[p] = "parked" /\ pc'[p] = "return"
        BY <2>5, <1>t DEF Resume, Goto
      <3> QED BY <1>2, <3>1 DEF Phase
    <2>6. CASE Return(p)
      BY <2>6, <1>t DEF Return, Goto, Phase
    <2> QED BY <2>1, <2>2, <2>3, <2>4, <2>5, <2>6
  <1>5. CASE Phase(p)' = Phase(p)
    BY <1>1, <1>3, <1>5, PhasesStay
  <1>6. CASE Phase(p) = "out" /\ Phase(p)' = "called"
    BY <1>1, <1>3, <1>6, PhaseMoves DEF Promise!Next, Promise!Call
  <1>7. CASE Phase(p) = "called" /\ Phase(p)' = "released" /\ state.stamp = 0
    BY <1>1, <1>3, <1>7, PhaseMoves DEF Promise!Next, Promise!Observe
  <1>8. CASE Phase(p) = "released" /\ Phase(p)' = "out"
    BY <1>1, <1>3, <1>8, PhaseMoves DEF Promise!Next, Promise!Return
  <1> QED BY <1>4, <1>5, <1>6, <1>7, <1>8

\* The CAS of Wait joins.
LEMMA AwaitCasKeepsPromise ==
  ASSUME IInv, NEW p \in Waiters, AwaitCas(p)
  PROVE  Promise!Next
  <1>t. /\ pc \in [Workers \union Waiters -> {"idle", "add", "done", "walk", "wake", "test",
                                              "load", "link", "cas", "parked", "return"}]
        /\ seen \in [Workers \union Waiters -> Stamped] /\ state \in Stamped
    BY DEF IInv, TypeOK
  <1>1. /\ pc[p] = "cas" /\ state = seen[p] /\ state' = [state EXCEPT !.ptr = p]
        /\ seen' = [seen EXCEPT ![p] = Nothing] /\ pc' = [pc EXCEPT ![p] = "parked"] /\ next' = next
    BY DEF AwaitCas, Replace, CasHits, Goto
  <1>2. next[p] = state.ptr /\ state.stamp > 0 /\ state'.stamp = state.stamp /\ state'.ptr = p
    BY <1>1, <1>t DEF IInv, EverybodyInPlace, Stamped
  <1>3. /\ p \in Chain(state.ptr)'
        /\ \A q \in Waiters : q # p => (q \in Chain(state.ptr)' <=> q \in Chain(state.ptr))
    BY <1>1, <1>2, ChainGrows
  <1>4. \A q \in Waiters : q # p => Phase(q)' = Phase(q)
    BY <1>1, <1>3, <1>t, PhaseStays
  <1>5. Phase(p) = "called" /\ Phase(p)' = "joined"
    <2>1. pc'[p] = "parked"
      BY <1>1, <1>t
    <2> QED BY <1>1, <1>3, <2>1 DEF Phase
  <1> QED BY <1>2, <1>4, <1>5, PhaseMoves DEF Promise!Next, Promise!Join

\* The last Done releases all that have joined, and no other releases any.
LEMMA DoneCasKeepsPromise ==
  ASSUME IInv, NEW w \in Workers, DoneCas(w)
  PROVE  Promise!Next
  <1>t. /\ pc \in [Workers \union Waiters -> {"idle", "add", "done", "walk", "wake", "test",
                                              "load", "link", "cas", "parked", "return"}]
        /\ seen \in [Workers \union Waiters -> Stamped] /\ state \in Stamped /\ state.stamp \in Nat
    BY DEF IInv, TypeOK, Stamped
  <1>1. /\ pc[w] = "done" /\ state = seen[w] /\ state' = DoneState(state)
        /\ seen' = [seen EXCEPT ![w] = Nothing] /\ next' = next
        /\ (pc' = [pc EXCEPT ![w] = "walk"] \/ pc' = [pc EXCEPT ![w] = "idle"])
    BY DEF DoneCas, Replace, CasHits, Goto
  <1>2. state.stamp > 0
    <2>1. w \in Doing
      BY <1>1 DEF Doing
    <2>2. Cardinality(Doing) \in Nat /\ Cardinality(Doing) > 0
      BY <2>1, DoingGrows
    <2> QED BY <2>2 DEF IInv, CountIsKept, TypeOK
  <1>3. state'.stamp = state.stamp - 1 /\ state'.ptr = IF state.stamp = 1 THEN nullptr ELSE state.ptr
    BY <1>1, <1>2, <1>t DEF DoneState, Nothing, Stamped
  <1>4. \A p \in Waiters : pc'[p] = pc[p] /\ seen'[p] = seen[p]
    BY <1>1, <1>t
  <1>5. \A p \in Waiters : Phase(p)' = IF state.stamp = 1 /\ Phase(p) = "joined" THEN "released" ELSE Phase(p)
    <2>1. CASE state.stamp = 1
      <3>1. Chain(state.ptr)' = {}
        <4>1. state'.ptr = nullptr /\ Closed({})'
          BY <1>3, <2>1 DEF Closed
        <4> QED BY <4>1 DEF Chain
      <3>2. \A p \in Waiters : pc[p] \in {"idle", "test", "load", "link", "cas", "parked", "return"}
        BY DEF IInv, EverybodyInPlace
      <3>3. \A p \in Waiters : Phase(p)' = IF Phase(p) = "joined" THEN "released" ELSE Phase(p)
        BY <1>4, <3>1, <3>2 DEF Phase
      <3> QED BY <2>1, <3>3
    <2>2. CASE state.stamp # 1
      <3>1. \A p \in Waiters : p \in Chain(state.ptr)' <=> p \in Chain(state.ptr)
        BY <1>1, <1>3, <2>2, ChainStays
      <3> QED BY <1>4, <2>2, <3>1, PhaseStays
    <2> QED BY <2>1, <2>2
  <1>6. [p \in Waiters |-> Phase(p)]' = [p \in Waiters |-> IF state.stamp = 1 /\ [q \in Waiters |-> Phase(q)][p] = "joined"
                                                             THEN "released" ELSE [q \in Waiters |-> Phase(q)][p]]
    BY <1>5
  <1>7. Promise!Done
    BY <1>2, <1>3, <1>6 DEF Promise!Done
  <1> QED BY <1>7 DEF Promise!Next

\* What a worker does otherwise: Add counts, and the rest shows nothing.
LEMMA WorkerKeepsPromise ==
  ASSUME IInv, IInv', NEW w \in Workers,
         AddStep(w) \/ DoneLoad(w) \/ DoneRetry(w) \/ Follow(w) \/ Wake(w)
  PROVE  Promise!Next \/ UNCHANGED Promise!vars
  <1>t. /\ pc \in [Workers \union Waiters -> {"idle", "add", "done", "walk", "wake", "test",
                                              "load", "link", "cas", "parked", "return"}]
        /\ seen \in [Workers \union Waiters -> Stamped] /\ state \in Stamped /\ state'.stamp <= kMaxStamp
        /\ amount \in [Workers -> 0 .. kMaxStamp]
    BY DEF IInv, TypeOK, Stamped
  <1>1. /\ next' = next /\ (AddCas(w) \/ state' = state)
        /\ \A p \in Waiters : pc'[p] = pc[p] /\ seen'[p] = seen[p]
    BY <1>t DEF AddStep, AddLoad, AddCas, AddRetry, DoneLoad, DoneRetry, Retry, Load, Follow, Wake, Replace, Goto
  <1>2. AddCas(w) => state'.stamp = state.stamp + amount[w] /\ state'.ptr = state.ptr
    BY <1>t DEF AddCas, Replace, CasHits, Stamped
  <1>3. \A p \in Waiters : Phase(p)' = Phase(p)
    <2>1. state'.ptr = state.ptr
      BY <1>1, <1>2
    <2>2. \A p \in Waiters : p \in Chain(state.ptr)' <=> p \in Chain(state.ptr)
      BY <1>1, <2>1, ChainStays
    <2> QED BY <1>1, <2>2, PhaseStays
  <1>4. CASE AddCas(w) /\ amount[w] > 0
    <2>1. [p \in Waiters |-> Phase(p)]' = [p \in Waiters |-> Phase(p)]
      BY <1>3
    <2>2. /\ amount[w] \in 1 .. kMaxStamp /\ state.stamp + amount[w] <= kMaxStamp
          /\ state'.stamp = state.stamp + amount[w]
      BY <1>2, <1>4, <1>t
    <2> QED BY <2>1, <2>2 DEF Promise!Next, Promise!Add
  <1>5. CASE ~ (AddCas(w) /\ amount[w] > 0)
    <2>1. state'.stamp = state.stamp
      BY <1>1, <1>2, <1>5, <1>t DEF Stamped
    <2> QED BY <1>3, <2>1, PhasesStay
  <1> QED BY <1>4, <1>5

\* For any workers, waiters and width of the stamp, the wait group of fibers keeps
\* the promise of WaitGroupSpec: Wait returns only if the counter was zero during
\* the call, and the Done that makes it zero releases exactly the waiters that had
\* joined, none of them by or for another round (WaitGroup.cpp 40-89).
THEOREM FiberWaitGroupImplementsPromise == Spec => IsWaitGroup
  <1>1. Init => Promise!Init
    <2> SUFFICES ASSUME Init PROVE Promise!Init
      OBVIOUS
    <2>1. state.stamp = 0 /\ \A p \in Waiters : Phase(p) = "out"
      BY DEF Init, Nothing, Phase
    <2>2. [p \in Waiters |-> Phase(p)] = [p \in Waiters |-> "out"]
      BY <2>1
    <2> QED BY <2>1, <2>2 DEF Promise!Init
  <1>2. IInv /\ IInv' /\ [Next]_vars => [Promise!Next]_(Promise!vars)
    <2> SUFFICES ASSUME IInv, IInv', [Next]_vars PROVE Promise!Next \/ UNCHANGED Promise!vars
      OBVIOUS
    <2>1. ASSUME NEW w \in Workers, AddStep(w) \/ DoneStep(w)
          PROVE  Promise!Next \/ UNCHANGED Promise!vars
      BY <2>1, DoneCasKeepsPromise, WorkerKeepsPromise DEF DoneStep
    <2>2. ASSUME NEW p \in Waiters, Wait(p) \/ WaitStep(p)
          PROVE  Promise!Next \/ UNCHANGED Promise!vars
      BY <2>2, WaiterKeepsPromise, AwaitCasKeepsPromise DEF WaitStep
    <2>3. CASE UNCHANGED vars
      <3>1. UNCHANGED <<state, next, pc, seen>>
        BY <2>3 DEF vars
      <3>2. \A p \in Waiters : p \in Chain(state.ptr)' <=> p \in Chain(state.ptr)
        BY <3>1, ChainStays
      <3>3. \A p \in Waiters : Phase(p)' = Phase(p)
        BY <3>1, <3>2, PhaseStays
      <3> QED BY <3>1, <3>3, PhasesStay
    <2> QED BY <2>1, <2>2, <2>3 DEF Next
  <1> QED BY <1>1, <1>2, Invariance, PTL DEF Spec, IsWaitGroup, Promise!Spec


-----------------------------------------------------------------------------
\* The wait group of threads.

\* The group starts at zero and nobody uses it.
LEMMA ThreadGroupInit == T!Init => T!Inv
  BY ThreadWaitGroupAssumption
     DEF T!Callers, T!Init, T!Inv, T!TypeOK, T!Words, T!Zero, T!EverybodyInPlace,
         T!FlagIsTakenBack, T!FlagHasWaiter,
         T!SleeperIsAnnounced

\* An Add at zero meets no waiter: no flag is set and nobody returns.
LEMMA ThreadAddKeeps == ASSUME T!Inv, NEW w \in WorkThreads, T!Add(w) PROVE T!Inv'
  <1> USE ThreadWaitGroupAssumption DEF T!Callers, T!Inv, T!TypeOK, T!Words, T!EverybodyInPlace
  <1>1. PICK cnt \in 1 .. MaxCount - job_cnt.count :
           job_cnt' = [job_cnt EXCEPT !.count = @ + cnt] /\ thread_owed' = thread_owed + cnt
    BY DEF T!Add
  <1>2. /\ job_cnt'.count > 0 /\ job_cnt'.flag = job_cnt.flag
        /\ job_cnt' \in T!Words /\ thread_owed' = job_cnt'.count
    BY <1>1
  <1>3. UNCHANGED <<thread_pc, latest, asleep>>
    BY DEF T!Add
  <1>4. job_cnt.count = 0 => ~ job_cnt.flag
    BY DEF T!Add, T!MayAdd, T!FlagHasWaiter
  <1>5. \A p \in WaitThreads : thread_pc[p] # "return"
    BY DEF T!Add, T!MayAdd, T!FlagHasWaiter, T!Zero
  <1>6. T!TypeOK' /\ T!EverybodyInPlace'
    BY <1>2, <1>3
  <1>7. T!FlagIsTakenBack'
    BY <1>2, <1>3, <1>4 DEF T!FlagIsTakenBack
  <1>8. T!FlagHasWaiter'
    BY <1>2, <1>3, <1>5 DEF T!FlagHasWaiter
  <1>9. T!SleeperIsAnnounced'
    BY <1>2, <1>3, <1>4 DEF T!SleeperIsAnnounced
  <1> QED BY <1>2, <1>6, <1>7, <1>8, <1>9

\* The Done that reaches zero under the flag goes on to take it back.
LEMMA ThreadDoneKeeps == ASSUME T!Inv, NEW w \in WorkThreads, T!Done(w) PROVE T!Inv'
  <1> USE ThreadWaitGroupAssumption DEF T!Callers, T!Inv, T!TypeOK, T!Words, T!EverybodyInPlace
  <1>1. /\ job_cnt.count > 0 /\ job_cnt' = [job_cnt EXCEPT !.count = @ - 1]
        /\ thread_owed' = thread_owed - 1
        /\ UNCHANGED <<latest, asleep>>
    BY DEF T!Done
  <1>2. job_cnt' \in T!Words /\ job_cnt'.flag = job_cnt.flag /\ job_cnt'.count = job_cnt.count - 1
    BY <1>1
  <1>3. thread_pc[w] = "idle" /\ IF T!MustWake(job_cnt') THEN T!Goto(w, "clear") ELSE UNCHANGED thread_pc
    BY DEF T!Done
  <1>4. \A v \in WorkThreads : thread_pc[v] # "clear"
    BY <1>1 DEF T!FlagIsTakenBack
  <1>5. \A p \in WaitThreads : thread_pc[p] # "return" /\ thread_pc'[p] = thread_pc[p]
    BY <1>1, <1>3 DEF T!FlagHasWaiter, T!Zero, T!Goto
  <1>6. T!TypeOK' /\ T!EverybodyInPlace'
    BY <1>1, <1>2, <1>3, <1>5 DEF T!Goto
  <1>7. T!FlagIsTakenBack'
    BY <1>2, <1>3, <1>4 DEF T!FlagIsTakenBack, T!MustWake, T!Goto
  <1>8. T!FlagHasWaiter'
    BY <1>1, <1>2, <1>5 DEF T!FlagHasWaiter
  <1>9. T!SleeperIsAnnounced'
    BY <1>1, <1>2, <1>3, <1>4, <1>7 DEF T!SleeperIsAnnounced, T!FlagIsTakenBack, T!MustWake, T!Goto
  <1> QED BY <1>1, <1>2, <1>6, <1>7, <1>8, <1>9

\* The flag goes, and a Done that is to wake takes over from it.
LEMMA ClearFlagKeeps == ASSUME T!Inv, NEW w \in WorkThreads, T!ClearFlag(w) PROVE T!Inv'
  <1> USE ThreadWaitGroupAssumption
       DEF T!Callers, T!Inv, T!TypeOK, T!Words, T!EverybodyInPlace, T!ClearFlag, T!Goto
  <1>1. job_cnt' = T!Zero
    <2>1. job_cnt = [flag |-> TRUE, count |-> 0] /\ job_cnt' = [job_cnt EXCEPT !.flag = FALSE]
      BY DEF T!FlagIsTakenBack
    <2>2. job_cnt' \in T!Words /\ job_cnt'.flag = FALSE /\ job_cnt'.count = 0
      BY <2>1
    <2>3. job_cnt' = [flag |-> job_cnt'.flag, count |-> job_cnt'.count]
      BY <2>2
    <2> QED BY <2>2, <2>3 DEF T!Zero
  <1>2. T!TypeOK' /\ T!EverybodyInPlace' /\ thread_owed' = job_cnt'.count
    BY <1>1 DEF T!Zero, T!FlagIsTakenBack
  <1>3. T!FlagIsTakenBack'
    BY <1>1 DEF T!FlagIsTakenBack, T!Zero
  <1>4. T!FlagHasWaiter'
    BY <1>1 DEF T!FlagHasWaiter, T!Zero
  <1>5. T!SleeperIsAnnounced'
    BY DEF T!SleeperIsAnnounced
  <1> QED BY <1>2, <1>3, <1>4, <1>5

\* Nobody sleeps after the wake.
LEMMA WakeAllKeeps == ASSUME T!Inv, NEW w \in WorkThreads, T!WakeAll(w) PROVE T!Inv'
  <1> USE ThreadWaitGroupAssumption
       DEF T!Callers, T!Inv, T!TypeOK, T!Words, T!EverybodyInPlace, T!WakeAll
  <1>1. T!TypeOK' /\ T!EverybodyInPlace' /\ thread_owed' = job_cnt'.count
    OBVIOUS
  <1>2. T!FlagIsTakenBack'
    BY DEF T!FlagIsTakenBack
  <1>3. T!FlagHasWaiter'
    BY DEF T!FlagHasWaiter
  <1>4. T!SleeperIsAnnounced'
    BY DEF T!SleeperIsAnnounced
  <1> QED BY <1>1, <1>2, <1>3, <1>4

\* A waiter begins, loads the word, announces itself, sleeps and returns.
LEMMA ThreadWaitKeeps ==
  ASSUME T!Inv, NEW p \in WaitThreads, T!Wait(p) \/ T!WaitStep(p) \/ T!WakeForNothing(p)
  PROVE  T!Inv'
  <1> USE ThreadWaitGroupAssumption DEF T!Callers, T!Inv, T!TypeOK, T!Words, T!EverybodyInPlace, T!Goto
  <1>1. CASE T!Wait(p)
    BY <1>1 DEF T!Wait, T!FlagIsTakenBack, T!FlagHasWaiter, T!SleeperIsAnnounced
  <1>2. CASE T!Load(p)
    <2>1. T!TypeOK' /\ T!EverybodyInPlace' /\ thread_owed' = job_cnt'.count
      BY <1>2 DEF T!Load, T!LooksDone, T!Zero
    <2>2. T!FlagIsTakenBack' /\ T!SleeperIsAnnounced'
      BY <1>2 DEF T!Load, T!FlagIsTakenBack, T!SleeperIsAnnounced
    <2>3. T!FlagHasWaiter'
      BY <1>2 DEF T!Load, T!LooksDone, T!FlagHasWaiter, T!Zero
    <2> QED BY <2>1, <2>2, <2>3
  <1>3. CASE T!Announce(p)
    <2>1. \/ UNCHANGED job_cnt
          \/ job_cnt' = [job_cnt EXCEPT !.flag = TRUE] /\ ~ job_cnt.flag /\ job_cnt.count > 0
      <3>1. CASE UNCHANGED job_cnt
        BY <3>1
      <3>2. CASE ~ UNCHANGED job_cnt
        <4>1. /\ job_cnt' = [job_cnt EXCEPT !.flag = TRUE]
              /\ ~ job_cnt.flag /\ job_cnt = latest[p] /\ thread_pc[p] = "announce"
          BY <1>3, <3>2 DEF T!Announce
        <4>2. job_cnt = [flag |-> job_cnt.flag, count |-> job_cnt.count] /\ job_cnt # T!Zero
          BY <4>1 DEF T!FlagHasWaiter
        <4>3. job_cnt.flag = FALSE
          BY <4>1
        <4>4. job_cnt.count # 0
          BY <4>2, <4>3 DEF T!Zero
        <4> QED BY <4>1, <4>4
      <3> QED BY <3>1, <3>2
    <2>2. UNCHANGED <<latest, thread_owed, asleep>> /\ thread_pc[p] = "announce"
          /\ (thread_pc' = [thread_pc EXCEPT ![p] = "wait"] \/ thread_pc' = [thread_pc EXCEPT ![p] = "load"])
      BY <1>3 DEF T!Announce
    <2>3. \A q \in WaitThreads : thread_pc[q] = "return" => UNCHANGED job_cnt
      BY <2>1 DEF T!FlagHasWaiter, T!Zero
    <2>4. T!TypeOK' /\ T!EverybodyInPlace' /\ thread_owed' = job_cnt'.count
      <3>1. job_cnt' \in T!Words /\ job_cnt'.count = job_cnt.count
        BY <2>1
      <3>2. T!TypeOK' /\ thread_owed' = job_cnt'.count
        BY <2>2, <3>1
      <3>3. T!EverybodyInPlace'
        BY <2>2
      <3> QED BY <3>2, <3>3
    <2>5. T!FlagIsTakenBack'
      BY <2>1, <2>2 DEF T!FlagIsTakenBack
    <2>6. T!FlagHasWaiter'
      BY <2>1, <2>2, <2>3 DEF T!FlagHasWaiter
    <2>7. T!SleeperIsAnnounced'
      BY <2>1, <2>2 DEF T!SleeperIsAnnounced
    <2> QED BY <2>4, <2>5, <2>6, <2>7
  <1>4. CASE T!FutexWait(p)
    <2>1. T!TypeOK' /\ T!EverybodyInPlace' /\ thread_owed' = job_cnt'.count
      BY <1>4 DEF T!FutexWait
    <2>2. T!FlagIsTakenBack'
      BY <1>4 DEF T!FutexWait, T!FlagIsTakenBack
    <2>3. T!FlagHasWaiter'
      BY <1>4 DEF T!FutexWait, T!FlagHasWaiter
    <2>4. T!SleeperIsAnnounced'
      <3>1. CASE T!Still(p)
        <4>1. job_cnt'.flag
          BY <1>4, <3>1 DEF T!FutexWait, T!Still
        <4>2. job_cnt'.count = 0 => \E w \in WorkThreads : thread_pc'[w] = "clear"
          BY <2>2, <4>1 DEF T!FlagIsTakenBack
        <4> QED BY <4>1, <4>2 DEF T!SleeperIsAnnounced
      <3>2. CASE ~ T!Still(p)
        BY <1>4, <3>2 DEF T!FutexWait, T!SleeperIsAnnounced
      <3> QED BY <3>1, <3>2
    <2> QED BY <2>1, <2>2, <2>3, <2>4
  <1>5. CASE T!Return(p)
    BY <1>5 DEF T!Return, T!FlagIsTakenBack, T!FlagHasWaiter, T!SleeperIsAnnounced
  <1>6. CASE T!WakeForNothing(p)
    BY <1>6 DEF T!WakeForNothing, T!FlagIsTakenBack, T!FlagHasWaiter, T!SleeperIsAnnounced
  <1> QED BY <1>1, <1>2, <1>3, <1>4, <1>5, <1>6 DEF T!WaitStep

\* The invariant holds in every reachable state.
THEOREM ThreadGroupInvariance == ThreadSpec => []ThreadInv
  <1>1. T!Inv /\ [T!Next]_(T!vars) => T!Inv'
    <2> SUFFICES ASSUME T!Inv, [T!Next]_(T!vars) PROVE T!Inv'
      OBVIOUS
    <2>1. CASE UNCHANGED T!vars
      BY <2>1 DEF T!vars, T!Inv, T!TypeOK, T!EverybodyInPlace, T!FlagIsTakenBack, T!FlagHasWaiter,
                  T!SleeperIsAnnounced
    <2>2. CASE T!Next
      BY <2>2, ThreadAddKeeps, ThreadDoneKeeps, ClearFlagKeeps, WakeAllKeeps, ThreadWaitKeeps
           DEF T!Next, T!DoneStep
    <2> QED BY <2>1, <2>2
  <1> QED BY <1>1, ThreadGroupInit, PTL DEF ThreadSpec, ThreadInv, T!Spec

\* Every variable keeps its type: in particular the counter is never decremented below zero.
THEOREM ThreadGroupTypes == ThreadSpec => []T!TypeOK
  <1>1. T!Inv => T!TypeOK
    BY DEF T!Inv
  <1> QED BY <1>1, ThreadGroupInvariance, PTL DEF ThreadInv

\* When a Wait returns no Done will touch the word any more: the group may be destroyed.
THEOREM StorageMayBeFreed == ThreadSpec => []StorageIsFree
  <1>1. T!Inv => StorageIsFree
    BY DEF StorageIsFree, T!Inv, T!FlagIsTakenBack, T!FlagHasWaiter, T!StorageIsFree, T!Zero
  <1> QED BY <1>1, ThreadGroupInvariance, PTL DEF ThreadInv

\* Nobody sleeps without a Done that will wake it.
THEOREM NoWakeIsLost == ThreadSpec => []SleeperIsAnnounced
  <1>1. T!Inv => SleeperIsAnnounced
    BY DEF SleeperIsAnnounced, T!Inv
  <1> QED BY <1>1, ThreadGroupInvariance, PTL DEF ThreadInv

-----------------------------------------------------------------------------
\* The refinement.

\* How far the call of p has come, as the promise sees it.
ThreadPhase(p) == CASE thread_pc[p] = "idle" -> "out"
                [] thread_pc[p] = "return" -> "released"
                [] OTHER -> "called"

\* A step that changes neither the counter nor a phase changes nothing promised.
LEMMA ThreadPromiseStays ==
  ASSUME UNCHANGED job_cnt.count, \A p \in WaitThreads : ThreadPhase(p)' = ThreadPhase(p)
  PROVE  UNCHANGED T!Promise!vars
  BY DEF T!Promise!vars, ThreadPhase

\* A step of one waiter that changes its phase is a move of the promise.
LEMMA ThreadPromiseMoves ==
  ASSUME NEW p \in WaitThreads, NEW to, UNCHANGED job_cnt.count, ThreadPhase(p)' = to,
         \A q \in WaitThreads \ {p} : ThreadPhase(q)' = ThreadPhase(q)
  PROVE  T!Promise!Move(p, ThreadPhase(p), to)
  <1> DEFINE phase == [q \in WaitThreads |-> CASE thread_pc[q] = "idle" -> "out"
                                           [] thread_pc[q] = "return" -> "released"
                                           [] OTHER -> "called"]
  <1>1. phase = [q \in WaitThreads |-> ThreadPhase(q)] /\ phase' = [q \in WaitThreads |-> ThreadPhase(q)']
    BY DEF ThreadPhase
  <1>2. phase[p] = ThreadPhase(p) /\ phase' = [phase EXCEPT ![p] = to]
    <2> HIDE DEF phase
    <2> QED BY <1>1
  <1> QED BY ONLY <1>2, UNCHANGED job_cnt.count DEF T!Promise!Move

\* The wait group of threads keeps the promise of WaitGroupSpec.
THEOREM ThreadWaitGroupImplementsPromise == ThreadSpec => IsThreadWaitGroup
  <1>1. T!Init => T!Promise!Init
    BY ThreadWaitGroupAssumption DEF T!Callers, T!Init, T!Promise!Init, T!Zero
  <1>2. T!Inv /\ T!Inv' /\ [T!Next]_(T!vars) => [T!Promise!Next]_(T!Promise!vars)
    <2> SUFFICES ASSUME T!Inv, T!Inv', [T!Next]_(T!vars) PROVE T!Promise!Next \/ UNCHANGED T!Promise!vars
      OBVIOUS
    <2> USE ThreadWaitGroupAssumption DEF T!Callers, T!Inv, T!TypeOK, T!Words, T!EverybodyInPlace
    <2>1. ASSUME NEW w \in WorkThreads, T!Add(w) PROVE T!Promise!Next
      <3>1. UNCHANGED thread_pc /\ \E n \in 1 .. MaxCount :
               job_cnt.count + n <= MaxCount /\ job_cnt'.count = job_cnt.count + n
        BY <2>1 DEF T!Add
      <3> QED BY <3>1 DEF T!Promise!Next, T!Promise!Add
    <2>2. ASSUME NEW w \in WorkThreads, T!Done(w) PROVE T!Promise!Next
      <3>1. job_cnt.count > 0 /\ job_cnt'.count = job_cnt.count - 1
        BY <2>2 DEF T!Done
      <3>2. \A p \in WaitThreads : thread_pc'[p] = thread_pc[p]
        BY <2>2 DEF T!Done, T!Goto
      <3> QED BY <3>1, <3>2 DEF T!Promise!Next, T!Promise!Done
    <2>3. ASSUME NEW w \in WorkThreads, T!ClearFlag(w) \/ T!WakeAll(w) PROVE UNCHANGED T!Promise!vars
      BY <2>3, ThreadPromiseStays DEF T!ClearFlag, T!WakeAll, T!Goto, ThreadPhase
    <2>4. ASSUME NEW p \in WaitThreads, T!Wait(p) PROVE T!Promise!Next
      <3>1. ThreadPhase(p) = "out" /\ ThreadPhase(p)' = "called"
        BY <2>4 DEF T!Wait, T!Goto, ThreadPhase
      <3> QED BY <2>4, <3>1, ThreadPromiseMoves
           DEF T!Wait, T!Goto, ThreadPhase, T!Promise!Next, T!Promise!Call
    <2>5. ASSUME NEW p \in WaitThreads, T!Load(p) PROVE T!Promise!Next \/ UNCHANGED T!Promise!vars
      <3>1. CASE T!LooksDone(job_cnt)
        <4>1. ThreadPhase(p) = "called" /\ ThreadPhase(p)' = "released" /\ job_cnt.count = 0
          BY <2>5, <3>1 DEF T!Load, T!LooksDone, T!Zero, T!Goto, ThreadPhase
        <4> QED BY <2>5, <3>1, <4>1, ThreadPromiseMoves
               DEF T!Load, T!Goto, ThreadPhase, T!Promise!Next, T!Promise!Observe
      <3>2. CASE ~ T!LooksDone(job_cnt)
        BY <2>5, <3>2, ThreadPromiseStays DEF T!Load, T!Goto, ThreadPhase
      <3> QED BY <3>1, <3>2
    <2>6. ASSUME NEW p \in WaitThreads, T!Announce(p) \/ T!FutexWait(p) \/ T!WakeForNothing(p)
          PROVE  UNCHANGED T!Promise!vars
      BY <2>6, ThreadPromiseStays DEF T!Announce, T!FutexWait, T!WakeForNothing, T!Goto, ThreadPhase
    <2>7. ASSUME NEW p \in WaitThreads, T!Return(p) PROVE T!Promise!Next
      <3>1. ThreadPhase(p) = "released" /\ ThreadPhase(p)' = "out"
        BY <2>7 DEF T!Return, T!Goto, ThreadPhase
      <3> QED BY <2>7, <3>1, ThreadPromiseMoves
           DEF T!Return, T!Goto, ThreadPhase, T!Promise!Next, T!Promise!Return
    <2>8. CASE UNCHANGED T!vars
      BY <2>8, ThreadPromiseStays DEF T!vars, ThreadPhase
    <2> QED BY <2>1, <2>2, <2>3, <2>4, <2>5, <2>6, <2>7, <2>8 DEF T!Next, T!DoneStep, T!WaitStep
  <1> QED BY <1>1, <1>2, ThreadGroupInvariance, PTL
       DEF ThreadSpec, ThreadInv, T!Spec, IsThreadWaitGroup, T!IsWaitGroup, T!Promise!Spec
=============================================================================
