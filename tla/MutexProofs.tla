----------------------------- MODULE MutexProofs ----------------------------
(***************************************************************************)
(* Proofs about the mutex: by itself, for any set of processes, finite or  *)
(* not, and used by fibers on workers, for any workers and threads and any *)
(* finite set of fibers.                                                   *)
(*                                                                         *)
(* Of the mutex, Inv is inductive: one lemma per action, one step per      *)
(* conjunct.  The safety properties and the refinement of FifoLock follow. *)
(*                                                                         *)
(* The scheduler only restricts the steps of the mutex.  Places(f) counts; *)
(* the invariant of the system says the same place by place, and why a     *)
(* handle is valid: its fiber is in its awaiter's OnSuspend or may be      *)
(* woken, and no fiber is parked unless DoAwait has suspended it.          *)
(***************************************************************************)
EXTENDS MutexOnWorkers, SequenceTheorems, FiniteSetTheorems, TLAPS

-----------------------------------------------------------------------------
\* Sequences of waiters, element by element.

\* What joining the queue does to it.
LEMMA AppendFacts ==
  ASSUME NEW s \in Seq(Procs), NEW x \in Procs
  PROVE  /\ Append(s, x) \in Seq(Procs)
         /\ Len(Append(s, x)) = Len(s) + 1
         /\ DOMAIN Append(s, x) = 1 .. Len(s) + 1
         /\ DOMAIN s = 1 .. Len(s)
         /\ \A i \in 1 .. Len(s) : Append(s, x)[i] = s[i]
         /\ Append(s, x)[Len(s) + 1] = x
  OBVIOUS

\* What leaving the queue does to it.
LEMMA TailFacts ==
  ASSUME NEW s \in Seq(Procs), s # <<>>
  PROVE  /\ Tail(s) \in Seq(Procs)
         /\ Len(Tail(s)) = Len(s) - 1
         /\ DOMAIN Tail(s) = 1 .. Len(s) - 1
         /\ DOMAIN s = 1 .. Len(s)
         /\ \A i \in 1 .. Len(s) - 1 : Tail(s)[i] = s[i + 1]
         /\ Head(s) = s[1]
         /\ Len(s) > 0
  OBVIOUS

-----------------------------------------------------------------------------
\* The inductive invariant.

\* The mutex starts free, with empty lists.
LEMMA InitInv == Init => Inv
  BY PointersAssumption
     DEF Init, Inv, Labels, Pointers, TypeOK, MutualExclusion, HeadIsStack, RestIsStack, TailIsReady,
         WaitersAreParked, HandOverIsOnce, FreeIsUnlocked, Owns, Locked, HandsTo, Live, Waiting

\* The fast path takes a free mutex; else nothing is touched but pc.
LEMMA LockInv == ASSUME Inv, NEW p \in Procs, Lock(p) PROVE Inv'
  <1> USE PointersAssumption DEF Inv, Pointers
  <1>1. TypeOK'
    BY DEF Lock, Goto, history, TypeOK, Labels
  <1>2. MutualExclusion'
    BY DEF Lock, Goto, TypeOK, MutualExclusion, FreeIsUnlocked, Owns, Locked, HandsTo
  <1>3. HeadIsStack'
    BY DEF Lock, history, TypeOK, HeadIsStack, FreeIsUnlocked
  <1>4. RestIsStack'
    BY DEF Lock, Goto, history, TypeOK, RestIsStack
  <1>5. TailIsReady'
    BY DEF Lock, Goto, history, TypeOK, TailIsReady
  <1>6. WaitersAreParked'
    BY DEF Lock, Goto, history, TypeOK, WaitersAreParked, HandsTo, Live
  <1>7. HandOverIsOnce'
    BY DEF Lock, Goto, TypeOK, HandOverIsOnce, Live
  <1>8. FreeIsUnlocked'
    BY DEF Lock, Goto, history, TypeOK, FreeIsUnlocked, Owns, Locked, HandsTo, Waiting
  <1> QED BY <1>1, <1>2, <1>3, <1>4, <1>5, <1>6, <1>7, <1>8

\* As the fast path of Lock.
LEMMA TryLockInv == ASSUME Inv, NEW p \in Procs, TryLock(p) PROVE Inv'
  <1> USE PointersAssumption DEF Inv, Pointers
  <1>1. TypeOK'
    BY DEF TryLock, Goto, history, TypeOK, Labels
  <1>2. MutualExclusion'
    BY DEF TryLock, Goto, MutualExclusion, FreeIsUnlocked, Owns, Locked, HandsTo
  <1>3. HeadIsStack'
    BY DEF TryLock, history, TypeOK, HeadIsStack, FreeIsUnlocked
  <1>4. RestIsStack'
    BY DEF TryLock, Goto, history, RestIsStack
  <1>5. TailIsReady'
    BY DEF TryLock, Goto, history, TailIsReady
  <1>6. WaitersAreParked'
    BY DEF TryLock, Goto, history, WaitersAreParked, HandsTo, Live
  <1>7. HandOverIsOnce'
    BY DEF TryLock, Goto, HandOverIsOnce, Live
  <1>8. FreeIsUnlocked'
    BY DEF TryLock, Goto, TypeOK, FreeIsUnlocked, Owns, Locked, HandsTo, Waiting
  <1> QED BY <1>1, <1>2, <1>3, <1>4, <1>5, <1>6, <1>7, <1>8

\* Only the local of p changes.
LEMMA AwaitLoadInv == ASSUME Inv, NEW p \in Procs, AwaitLoad(p) PROVE Inv'
  <1> USE PointersAssumption DEF Inv, Pointers
  <1>1. TypeOK'
    BY DEF AwaitLoad, Goto, history, TypeOK, Labels
  <1>2. MutualExclusion'
    BY DEF AwaitLoad, Goto, MutualExclusion, Owns, HandsTo
  <1>3. HeadIsStack'
    BY DEF AwaitLoad, history, HeadIsStack
  <1>4. RestIsStack'
    BY DEF AwaitLoad, Goto, history, RestIsStack
  <1>5. TailIsReady'
    BY DEF AwaitLoad, Goto, history, TailIsReady
  <1>6. WaitersAreParked'
    BY DEF AwaitLoad, Goto, history, WaitersAreParked, HandsTo, Live
  <1>7. HandOverIsOnce'
    BY DEF AwaitLoad, Goto, HandOverIsOnce, Live
  <1>8. FreeIsUnlocked'
    BY DEF AwaitLoad, Goto, history, FreeIsUnlocked, Owns, Locked, HandsTo, Waiting
  <1> QED BY <1>1, <1>2, <1>3, <1>4, <1>5, <1>6, <1>7, <1>8

\* The awaiter that is linked is not in the list yet.
LEMMA AwaitLinkInv == ASSUME Inv, NEW p \in Procs, AwaitLink(p) PROVE Inv'
  <1> USE PointersAssumption DEF Inv, Pointers
  <1>1. TypeOK'
    BY DEF AwaitLink, Goto, history, TypeOK, Labels
  <1>2. MutualExclusion'
    BY DEF AwaitLink, Goto, MutualExclusion, Owns, HandsTo
  <1>3. HeadIsStack'
    BY DEF AwaitLink, history, HeadIsStack, WaitersAreParked, Live
  <1>4. RestIsStack'
    BY DEF AwaitLink, Goto, history, RestIsStack, WaitersAreParked, Live
  <1>5. TailIsReady'
    BY DEF AwaitLink, Goto, history, TailIsReady, WaitersAreParked, Live
  <1>6. WaitersAreParked'
    BY DEF AwaitLink, Goto, history, TypeOK, WaitersAreParked, HandsTo, Live
  <1>7. HandOverIsOnce'
    BY DEF AwaitLink, Goto, HandOverIsOnce, Live
  <1>8. FreeIsUnlocked'
    BY DEF AwaitLink, Goto, history, FreeIsUnlocked, Owns, Locked, HandsTo, Waiting
  <1> QED BY <1>1, <1>2, <1>3, <1>4, <1>5, <1>6, <1>7, <1>8

\* Either the mutex was free and p takes it, or p is the newest of the stack.
LEMMA AwaitCasInv == ASSUME Inv, NEW p \in Procs, AwaitCas(p) PROVE Inv'
  <1> USE PointersAssumption DEF Goto, Forget, Pointers
  <1>1. CASE expected[p] = kUnlocked
  <2>0. /\ pc[p] = "cas" /\ pc' = [pc EXCEPT ![p] = "cs"]
        /\ head = kUnlocked /\ head' = kLocked
        /\ next' = [next EXCEPT ![p] = kUnlocked]
        /\ expected' = [expected EXCEPT ![p] = kUnlocked]
        /\ UNCHANGED <<tail, curr, woken, order, taken, unreversed>>
    BY <1>1 DEF AwaitCas, CasHits, NewState
  <2>1. TypeOK'
    BY <2>0 DEF Labels, Inv, TypeOK, MutualExclusion, HeadIsStack, RestIsStack, TailIsReady, WaitersAreParked, HandOverIsOnce, FreeIsUnlocked, Owns, Locked, HandsTo, Live, Waiting
  <2>2. MutualExclusion'
    BY <2>0 DEF Inv, TypeOK, MutualExclusion, HeadIsStack, RestIsStack, TailIsReady, WaitersAreParked, HandOverIsOnce, FreeIsUnlocked, Owns, Locked, HandsTo, Live, Waiting
  <2>3. HeadIsStack'
    BY <2>0 DEF Inv, TypeOK, MutualExclusion, HeadIsStack, RestIsStack, TailIsReady, WaitersAreParked, HandOverIsOnce, FreeIsUnlocked, Owns, Locked, HandsTo, Live, Waiting
  <2>4. RestIsStack'
    BY <2>0 DEF Inv, TypeOK, MutualExclusion, HeadIsStack, RestIsStack, TailIsReady, WaitersAreParked, HandOverIsOnce, FreeIsUnlocked, Owns, Locked, HandsTo, Live, Waiting
  <2>5. TailIsReady'
    BY <2>0 DEF Inv, TypeOK, MutualExclusion, HeadIsStack, RestIsStack, TailIsReady, WaitersAreParked, HandOverIsOnce, FreeIsUnlocked, Owns, Locked, HandsTo, Live, Waiting
  <2>6. WaitersAreParked'
    BY <2>0 DEF Inv, TypeOK, MutualExclusion, HeadIsStack, RestIsStack, TailIsReady, WaitersAreParked, HandOverIsOnce, FreeIsUnlocked, Owns, Locked, HandsTo, Live, Waiting
  <2>7. HandOverIsOnce'
    BY <2>0 DEF Inv, TypeOK, MutualExclusion, HeadIsStack, RestIsStack, TailIsReady, WaitersAreParked, HandOverIsOnce, FreeIsUnlocked, Owns, Locked, HandsTo, Live, Waiting
  <2>8. FreeIsUnlocked'
    BY <2>0 DEF Inv, TypeOK, MutualExclusion, HeadIsStack, RestIsStack, TailIsReady, WaitersAreParked, HandOverIsOnce, FreeIsUnlocked, Owns, Locked, HandsTo, Live, Waiting
  <2> QED BY <2>1, <2>2, <2>3, <2>4, <2>5, <2>6, <2>7, <2>8 DEF Inv
  <1>2. CASE expected[p] # kUnlocked
  <2>0. /\ pc[p] = "cas" /\ pc' = [pc EXCEPT ![p] = "parked"]
        /\ head = expected[p] /\ head' = p /\ next[p] = head /\ next' = next
        /\ p # kUnlocked /\ p # kLocked
        /\ expected' = [expected EXCEPT ![p] = kUnlocked]
        /\ UNCHANGED <<tail, curr, woken, taken, unreversed>>
        /\ order' = Append(order, p)
    BY <1>2 DEF Inv, TypeOK, AwaitCas, CasHits, NewState, WaitersAreParked
  <2>a. /\ order \in Seq(Procs)
        /\ order' \in Seq(Procs)
        /\ Len(order') = Len(order) + 1
        /\ DOMAIN order' = 1 .. Len(order) + 1
        /\ DOMAIN order = 1 .. Len(order)
        /\ \A i \in 1 .. Len(order) : order'[i] = order[i]
        /\ order'[Len(order) + 1] = p
    BY <2>0, AppendFacts DEF Inv, TypeOK
  <2>1. TypeOK'
    BY <2>0, <2>a DEF Inv, TypeOK, Labels
  <2>2. MutualExclusion'
    BY <2>0 DEF Inv, TypeOK, MutualExclusion, HandOverIsOnce, Owns, HandsTo
  <2>3. HeadIsStack'
    <3>1. taken <= Len(order) /\ taken \in Nat /\ Len(order) \in Nat
      BY <2>a DEF Inv, TypeOK, TailIsReady
    <3>2. head' = IF taken' < Len(order') THEN order'[Len(order')] ELSE kLocked
      BY <2>0, <2>a, <3>1
    <3>3. ASSUME NEW i \in DOMAIN order', i > taken'
          PROVE  next'[order'[i]] = IF i = taken' + 1 THEN kLocked ELSE order'[i - 1]
      <4>1. CASE i = Len(order) + 1
        <5>1. next'[order'[i]] = IF taken < Len(order) THEN order[Len(order)] ELSE kLocked
          BY <4>1, <2>0, <2>a, <1>2 DEF Inv, HeadIsStack
        <5>2. i = taken' + 1 <=> ~ (taken < Len(order))
          BY <4>1, <2>0, <3>1
        <5>3. taken < Len(order) => order'[i - 1] = order[Len(order)]
          BY <4>1, <2>a, <3>1
        <5> QED BY <5>1, <5>2, <5>3
      <4>2. CASE i # Len(order) + 1
        <5>1. i \in 1 .. Len(order) /\ (i # taken + 1 => i - 1 \in 1 .. Len(order))
          BY <4>2, <3>1, <3>3, <2>0, <2>a
        <5> QED BY <5>1, <3>3, <2>0, <2>a DEF Inv, HeadIsStack
      <4> QED BY <4>1, <4>2
    <3> QED BY <3>2, <3>3 DEF HeadIsStack
  <2>4. RestIsStack'
    BY <2>0, <2>a DEF Inv, TypeOK, RestIsStack, TailIsReady, Labels
  <2>5. TailIsReady'
    BY <2>0, <2>a DEF Inv, TypeOK, TailIsReady
  <2>6. WaitersAreParked'
    BY <2>0, <2>a DEF Inv, TypeOK, WaitersAreParked, HandOverIsOnce, HandsTo, Live
  <2>7. HandOverIsOnce'
    BY <2>0 DEF Inv, TypeOK, HandOverIsOnce, Live
  <2>8. FreeIsUnlocked'
    <3>1. Locked /\ Locked'
      BY <2>0, <1>2 DEF Inv, TypeOK, FreeIsUnlocked, Locked, Owns, HandsTo
    <3>2. ASSUME NEW q \in Procs, pc'[q] = "parked"
          PROVE  Waiting(q)' \/ q \in woken' \/ \E r \in Procs : HandsTo(r, q)'
      <4>1. CASE q = p
        <5>1. Len(order) + 1 \in DOMAIN order'
          BY <2>a
        <5> QED BY <4>1, <5>1, <2>a DEF Waiting
      <4>2. CASE q # p /\ Waiting(q)
        <5>1. PICK i \in DOMAIN order : order[i] = q
          BY <4>2 DEF Waiting
        <5>2. i \in DOMAIN order' /\ order'[i] = q
          BY <5>1, <2>a
        <5> QED BY <5>2 DEF Waiting
      <4>3. CASE q # p /\ ~ Waiting(q)
        BY <4>3, <3>2, <2>0 DEF Inv, TypeOK, FreeIsUnlocked, HandsTo
      <4> QED BY <4>1, <4>2, <4>3
    <3> QED BY <2>0, <3>1, <3>2 DEF FreeIsUnlocked
  <2> QED BY <2>1, <2>2, <2>3, <2>4, <2>5, <2>6, <2>7, <2>8 DEF Inv
  <1> QED BY <1>1, <1>2

\* Only the local of p changes.
LEMMA AwaitRetryInv == ASSUME Inv, NEW p \in Procs, AwaitRetry(p) PROVE Inv'
  <1> USE PointersAssumption DEF Inv, Pointers
  <1>1. TypeOK'
    BY DEF AwaitRetry, Goto, history, TypeOK, Labels
  <1>2. MutualExclusion'
    BY DEF AwaitRetry, Goto, MutualExclusion, Owns, HandsTo
  <1>3. HeadIsStack'
    BY DEF AwaitRetry, history, HeadIsStack
  <1>4. RestIsStack'
    BY DEF AwaitRetry, Goto, history, RestIsStack
  <1>5. TailIsReady'
    BY DEF AwaitRetry, Goto, history, TailIsReady
  <1>6. WaitersAreParked'
    BY DEF AwaitRetry, Goto, history, TypeOK, WaitersAreParked, HandsTo, Live
  <1>7. HandOverIsOnce'
    BY DEF AwaitRetry, Goto, HandOverIsOnce, Live
  <1>8. FreeIsUnlocked'
    BY DEF AwaitRetry, Goto, history, FreeIsUnlocked, Owns, Locked, HandsTo, Waiting
  <1> QED BY <1>1, <1>2, <1>3, <1>4, <1>5, <1>6, <1>7, <1>8

\* The awaiter that goes away is in no list.
LEMMA ResumeInv == ASSUME Inv, NEW p \in Procs, Resume(p) PROVE Inv'
  <1> USE PointersAssumption DEF Inv, Pointers
  <1>1. TypeOK'
    BY DEF Resume, Goto, Forget, history, TypeOK, Labels
  <1>2. MutualExclusion'
    BY DEF Resume, Goto, MutualExclusion, Owns, HandsTo
  <1>3. HeadIsStack'
    BY DEF Resume, Forget, history, HeadIsStack, WaitersAreParked, Live
  <1>4. RestIsStack'
    BY DEF Resume, Goto, Forget, history, RestIsStack, WaitersAreParked, Live
  <1>5. TailIsReady'
    BY DEF Resume, Goto, Forget, history, TailIsReady, WaitersAreParked, Live
  <1>6. WaitersAreParked'
    BY DEF Resume, Goto, Forget, history, WaitersAreParked, HandsTo, Live
  <1>7. HandOverIsOnce'
    BY DEF Resume, Goto, HandOverIsOnce, Live
  <1>8. FreeIsUnlocked'
    BY DEF Resume, Goto, history, TypeOK, FreeIsUnlocked, Owns, Locked, HandsTo, Waiting
  <1> QED BY <1>1, <1>2, <1>3, <1>4, <1>5, <1>6, <1>7, <1>8

\* An owner that finds tail_ empty has taken nobody's awaiter.
LEMMA UnlockInv == ASSUME Inv, NEW p \in Procs, Unlock(p) PROVE Inv'
  <1> USE PointersAssumption DEF Inv, Pointers
  <1>1. TypeOK'
    BY DEF Unlock, UnlockFrom, Goto, history, TypeOK, Labels
  <1>2. MutualExclusion'
    BY DEF Unlock, UnlockFrom, Goto, MutualExclusion, Owns, HandsTo
  <1>3. HeadIsStack'
    BY DEF Unlock, UnlockFrom, history, HeadIsStack
  <1>4. RestIsStack'
    BY DEF Unlock, UnlockFrom, Goto, history, RestIsStack
  <1>5. TailIsReady'
    BY DEF Unlock, UnlockFrom, Goto, history, TypeOK, MutualExclusion, TailIsReady, Owns
  <1>6. WaitersAreParked'
    BY DEF Unlock, UnlockFrom, Goto, history, WaitersAreParked, HandsTo, Live
  <1>7. HandOverIsOnce'
    BY DEF Unlock, UnlockFrom, Goto, HandOverIsOnce, Live
  <1>8. FreeIsUnlocked'
    BY DEF Unlock, UnlockFrom, Goto, history, FreeIsUnlocked, Owns, Locked, HandsTo,
       Waiting
  <1> QED BY <1>1, <1>2, <1>3, <1>4, <1>5, <1>6, <1>7, <1>8

\* Only the local of p changes.
LEMMA UnlockLoadInv == ASSUME Inv, NEW p \in Procs, UnlockLoad(p) PROVE Inv'
  <1> USE PointersAssumption DEF Inv, Pointers
  <1>1. TypeOK'
    BY DEF UnlockLoad, Goto, history, TypeOK, Labels
  <1>2. MutualExclusion'
    BY DEF UnlockLoad, Goto, MutualExclusion, Owns, HandsTo
  <1>3. HeadIsStack'
    BY DEF UnlockLoad, history, HeadIsStack
  <1>4. RestIsStack'
    BY DEF UnlockLoad, Goto, history, RestIsStack
  <1>5. TailIsReady'
    BY DEF UnlockLoad, Goto, history, TailIsReady
  <1>6. WaitersAreParked'
    BY DEF UnlockLoad, Goto, history, WaitersAreParked, HandsTo, Live
  <1>7. HandOverIsOnce'
    BY DEF UnlockLoad, Goto, HandOverIsOnce, Live
  <1>8. FreeIsUnlocked'
    BY DEF UnlockLoad, Goto, history, FreeIsUnlocked, Owns, Locked, HandsTo, Waiting
  <1> QED BY <1>1, <1>2, <1>3, <1>4, <1>5, <1>6, <1>7, <1>8

\* The mutex is freed with nobody waiting, or the whole stack is to be reversed.
LEMMA UnlockCasInv == ASSUME Inv, NEW p \in Procs, UnlockCas(p) PROVE Inv'
  <1> USE PointersAssumption DEF Inv, Pointers
  <1>1. TypeOK'
    BY DEF UnlockCas, CasHits, NewHead, Goto, Forget, TypeOK, Labels
  <1>2. MutualExclusion'
    BY DEF UnlockCas, CasHits, NewHead, Goto, TypeOK, MutualExclusion, Owns, HandsTo
  <1>3. HeadIsStack'
    BY DEF UnlockCas, CasHits, NewHead, HeadIsStack
  <1>4. RestIsStack'
    BY DEF UnlockCas, CasHits, NewHead, Goto, TypeOK, HeadIsStack, RestIsStack,
       TailIsReady, FreeIsUnlocked, Owns, Locked
  <1>5. TailIsReady'
    BY DEF UnlockCas, CasHits, NewHead, Goto, TypeOK, MutualExclusion, HeadIsStack,
       TailIsReady, FreeIsUnlocked, Owns, Locked
  <1>6. WaitersAreParked'
    BY DEF UnlockCas, CasHits, NewHead, Goto, Forget, TypeOK, WaitersAreParked, HandsTo,
       Live
  <1>7. HandOverIsOnce'
    BY DEF UnlockCas, CasHits, NewHead, Goto, TypeOK, HandOverIsOnce, Live
  <1>8. FreeIsUnlocked'
    BY DEF UnlockCas, CasHits, NewHead, Goto, TypeOK, MutualExclusion, HeadIsStack,
       TailIsReady, HandOverIsOnce, FreeIsUnlocked, Owns, Locked, HandsTo, Live, Waiting
  <1> QED BY <1>1, <1>2, <1>3, <1>4, <1>5, <1>6, <1>7, <1>8

\* Only the local of p changes.
LEMMA UnlockRetryInv == ASSUME Inv, NEW p \in Procs, UnlockRetry(p) PROVE Inv'
  <1> USE PointersAssumption DEF Inv, Pointers
  <1>1. TypeOK'
    BY DEF UnlockRetry, history, TypeOK, Labels
  <1>2. MutualExclusion'
    BY DEF UnlockRetry, MutualExclusion, Owns, HandsTo
  <1>3. HeadIsStack'
    BY DEF UnlockRetry, history, HeadIsStack
  <1>4. RestIsStack'
    BY DEF UnlockRetry, history, RestIsStack
  <1>5. TailIsReady'
    BY DEF UnlockRetry, history, TailIsReady
  <1>6. WaitersAreParked'
    BY DEF UnlockRetry, history, WaitersAreParked, HandsTo, Live
  <1>7. HandOverIsOnce'
    BY DEF UnlockRetry, HandOverIsOnce, Live
  <1>8. FreeIsUnlocked'
    BY DEF UnlockRetry, history, FreeIsUnlocked, Owns, Locked, HandsTo, Waiting
  <1> QED BY <1>1, <1>2, <1>3, <1>4, <1>5, <1>6, <1>7, <1>8

\* The newest of the rest becomes the first of tail_.
LEMMA ReverseInv == ASSUME Inv, NEW p \in Procs, Reverse(p) PROVE Inv'
  <1> USE PointersAssumption DEF Inv, Pointers
  <1>1. TypeOK'
    BY DEF Reverse, TypeOK, RestIsStack, TailIsReady, Labels
  <1>2. MutualExclusion'
    BY DEF Reverse, MutualExclusion, Owns, HandsTo
  <1>3. HeadIsStack'
    BY DEF Reverse, TypeOK, HeadIsStack, RestIsStack, TailIsReady, WaitersAreParked
  <1>4. RestIsStack'
    <2>1. /\ unreversed \in DOMAIN order /\ expected[p] = order[unreversed]
          /\ unreversed' = unreversed - 1 /\ order' = order
      BY DEF Reverse, TypeOK, RestIsStack, TailIsReady, history
    <2>2. \A q \in Procs : pc[q] = "reverse" => q = p
      BY DEF Reverse, MutualExclusion, Owns
    <2>3. ASSUME NEW i \in DOMAIN order, i < unreversed
          PROVE  next'[order[i]] = next[order[i]]
      BY <2>1, <2>3 DEF Reverse, TypeOK, WaitersAreParked
    <2>4. expected'[p] = next[order[unreversed]] /\ pc' = pc
      BY <2>1 DEF Reverse, TypeOK
    <2>5. next[order[unreversed]] = IF unreversed = 1 THEN kLocked ELSE order[unreversed - 1]
      BY <2>1 DEF TypeOK, RestIsStack
    <2>6. \A q \in Procs : pc'[q] = "reverse" =>
             expected'[q] = IF unreversed' > 0 THEN order'[unreversed'] ELSE kLocked
      BY <2>1, <2>2, <2>4, <2>5 DEF TypeOK
    <2>7. ASSUME NEW i \in DOMAIN order', i <= unreversed'
          PROVE  next'[order'[i]] = IF i = 1 THEN kLocked ELSE order'[i - 1]
      <3>1. i \in DOMAIN order /\ i < unreversed
        BY <2>1, <2>7 DEF TypeOK
      <3>2. next[order[i]] = IF i = 1 THEN kLocked ELSE order[i - 1]
        BY <3>1 DEF TypeOK, RestIsStack
      <3> QED BY <2>1, <2>3, <3>1, <3>2
    <2> QED BY <2>6, <2>7 DEF RestIsStack
  <1>5. TailIsReady'
    BY SMTT(30) DEF Reverse, TypeOK, RestIsStack, TailIsReady, WaitersAreParked, HandOverIsOnce
  <1>6. WaitersAreParked'
    BY DEF Reverse, TypeOK, RestIsStack, TailIsReady, WaitersAreParked, HandsTo, Live
  <1>7. HandOverIsOnce'
    BY DEF Reverse, HandOverIsOnce, Live
  <1>8. FreeIsUnlocked'
    BY DEF Reverse, FreeIsUnlocked, Owns, Locked, HandsTo, Waiting
  <1> QED BY <1>1, <1>2, <1>3, <1>4, <1>5, <1>6, <1>7, <1>8

\* Everything taken is in tail_, which is not empty.
LEMMA ReversedInv == ASSUME Inv, NEW p \in Procs, Reversed(p) PROVE Inv'
  <1> USE PointersAssumption DEF Inv, Pointers
  <1>1. TypeOK'
    BY DEF Reversed, Goto, Forget, history, TypeOK, Labels
  <1>2. MutualExclusion'
    BY DEF Reversed, Goto, MutualExclusion, Owns, HandsTo
  <1>3. HeadIsStack'
    BY DEF Reversed, history, HeadIsStack
  <1>4. RestIsStack'
    BY DEF Reversed, Goto, Forget, history, TypeOK, RestIsStack
  <1>5. TailIsReady'
    BY DEF Reversed, Goto, history, TypeOK, RestIsStack, TailIsReady
  <1>6. WaitersAreParked'
    BY DEF Reversed, Goto, Forget, history, WaitersAreParked, HandsTo, Live
  <1>7. HandOverIsOnce'
    BY DEF Reversed, Goto, HandOverIsOnce, Live
  <1>8. FreeIsUnlocked'
    BY DEF Reversed, Goto, history, TypeOK, RestIsStack, TailIsReady, FreeIsUnlocked,
       Owns, Locked, HandsTo, Waiting
  <1> QED BY <1>1, <1>2, <1>3, <1>4, <1>5, <1>6, <1>7, <1>8

\* The oldest waiter leaves the list: from now on it owns the mutex.
LEMMA PopInv == ASSUME Inv, NEW p \in Procs, Pop(p) PROVE Inv'
  <1> USE PointersAssumption DEF Goto, Forget, Pointers
  <1>0. /\ pc[p] = "pop" /\ pc' = [pc EXCEPT ![p] = "wake"]
        /\ curr' = [curr EXCEPT ![p] = tail]
        /\ tail' = next[tail] /\ order' = Tail(order) /\ taken' = taken - 1
        /\ UNCHANGED <<head, next, expected, woken, unreversed>>
    BY DEF Pop
  <1>a. unreversed = 0 /\ taken > 0 /\ Len(order) > 0 /\ order # <<>> /\ tail = order[1] /\ tail \in Procs
    BY <1>0 DEF Inv, TypeOK, TailIsReady, MutualExclusion, Owns
  <1>b. /\ order' \in Seq(Procs)
        /\ Len(order') = Len(order) - 1
        /\ DOMAIN order' = 1 .. Len(order) - 1
        /\ DOMAIN order = 1 .. Len(order)
        /\ \A i \in 1 .. Len(order) - 1 : order'[i] = order[i + 1]
    BY <1>0, <1>a, TailFacts DEF Inv, TypeOK
  <1>c. next[tail] = IF taken = 1 THEN kUnlocked ELSE order[2]
    BY <1>a, <1>b DEF Inv, TypeOK, TailIsReady
  <1>d. taken <= Len(order) /\ \A q \in Procs : pc'[q] = IF q = p THEN "wake" ELSE pc[q]
    BY <1>0 DEF Inv, TypeOK, TailIsReady
  <1>1. TypeOK'
    BY <1>0, <1>a, <1>b, <1>c, <1>d DEF Inv, TypeOK, Labels
  <1>e. ASSUME NEW q \in Procs, Owns(q)' PROVE q = tail
    BY <1>0, <1>a, <1>d, <1>e DEF Inv, TypeOK, MutualExclusion, HandOverIsOnce, Owns, HandsTo, Live
  <1>2. MutualExclusion'
    BY <1>e DEF MutualExclusion
  <1>3. HeadIsStack'
    <2>1. /\ head' = head /\ next' = next
          /\ taken \in Nat /\ taken' = taken - 1 /\ Len(order) \in Nat
      BY <1>0 DEF Inv, TypeOK
    <2>2. head # kUnlocked => head = IF taken < Len(order) THEN order[Len(order)] ELSE kLocked
      BY DEF Inv, HeadIsStack
    <2>3. head' # kUnlocked => head' = IF taken' < Len(order') THEN order'[Len(order')] ELSE kLocked
      BY <1>a, <1>b, <2>1, <2>2
    <2>4. ASSUME NEW i \in DOMAIN order', i > taken'
          PROVE  next'[order'[i]] = IF i = taken' + 1 THEN kLocked ELSE order'[i - 1]
      <3>1. /\ i \in 1 .. Len(order) - 1 /\ i + 1 \in DOMAIN order /\ i + 1 > taken
            /\ order'[i] = order[i + 1]
        BY <1>b, <2>1, <2>4
      <3>2. next[order[i + 1]] = IF i + 1 = taken + 1 THEN kLocked ELSE order[i + 1 - 1]
        BY <3>1 DEF Inv, HeadIsStack
      <3>3. i # taken => i - 1 \in 1 .. Len(order) - 1 /\ order'[i - 1] = order[i - 1 + 1]
        BY <1>a, <1>b, <2>1, <3>1
      <3> QED BY <2>1, <3>1, <3>2, <3>3
    <2> QED BY <2>3, <2>4 DEF HeadIsStack
  <1>4. RestIsStack'
    BY <1>0, <1>a, <1>b DEF Inv, TypeOK, RestIsStack, MutualExclusion, Owns
  <1>5. TailIsReady'
    BY <1>0, <1>a, <1>b, <1>c, <1>d DEF Inv, TypeOK, TailIsReady, MutualExclusion, Owns
  <1>6. WaitersAreParked'
    BY <1>0, <1>a, <1>b DEF Inv, TypeOK, WaitersAreParked, HandsTo, Live
  <1>7. HandOverIsOnce'
    <2>1. Live(tail)
      BY <1>a, <1>b DEF Inv, WaitersAreParked
    <2>2. ASSUME NEW q \in Procs, pc'[q] = "wake" PROVE q = p /\ curr'[q] = tail
      <3>1. CASE q = p
        BY <3>1, <1>0 DEF Inv, TypeOK
      <3>2. CASE q # p
        <4>1. pc[q] = "wake" /\ curr[q] \in Procs /\ Live(curr[q])
          BY <3>2, <2>2, <1>d DEF Inv, HandOverIsOnce
        <4>2. curr[q] = p
          BY <4>1, <1>0 DEF Inv, MutualExclusion, Owns, HandsTo
        <4> QED BY <4>1, <4>2, <1>0 DEF Live
      <3> QED BY <3>1, <3>2
    <2>3. pc'[tail] = "parked" /\ tail \notin woken'
      BY <2>1, <1>0, <1>a, <1>d DEF Live
    <2> QED BY <2>2, <2>3, <1>0, <1>a, <1>d DEF Inv, HandOverIsOnce, Live
  <1>8. FreeIsUnlocked'
    <2>1. Locked /\ Locked'
      BY <1>0, <1>a DEF Inv, TypeOK, Locked, Owns, HandsTo
    <2>2. ASSUME NEW q \in Procs, pc'[q] = "parked"
          PROVE  Waiting(q)' \/ q \in woken' \/ \E r \in Procs : HandsTo(r, q)'
      <3>1. CASE q = order[1]
        BY <3>1, <1>0, <1>a DEF Inv, TypeOK, HandsTo
      <3>2. CASE q # order[1] /\ Waiting(q)
        <4>1. PICK i \in DOMAIN order : order[i] = q
          BY <3>2 DEF Waiting
        <4>2. i - 1 \in DOMAIN order' /\ order'[i - 1] = q
          BY <4>1, <3>2, <1>a, <1>b
        <4> QED BY <4>2 DEF Waiting
      <3>3. CASE ~ Waiting(q)
        BY <2>2, <3>3, <1>0, <1>a DEF Inv, TypeOK, FreeIsUnlocked, HandsTo
      <3> QED BY <3>1, <3>2, <3>3
    <2> QED BY <1>0, <2>1, <2>2 DEF FreeIsUnlocked, Inv
  <1> QED BY <1>1, <1>2, <1>3, <1>4, <1>5, <1>6, <1>7, <1>8 DEF Inv

\* The handed-over process is woken once.
LEMMA WakeInv == ASSUME Inv, NEW p \in Procs, Wake(p) PROVE Inv'
  <1> USE PointersAssumption DEF Inv, Pointers
  <1>1. TypeOK'
    BY DEF Wake, Goto, Forget, history, TypeOK, HandOverIsOnce, Labels
  <1>2. MutualExclusion'
    BY DEF Wake, Goto, Forget, MutualExclusion, Owns, HandsTo
  <1>3. HeadIsStack'
    BY DEF Wake, history, HeadIsStack
  <1>4. RestIsStack'
    BY DEF Wake, Goto, history, RestIsStack
  <1>5. TailIsReady'
    BY DEF Wake, Goto, history, TailIsReady
  <1>6. WaitersAreParked'
    BY DEF Wake, Goto, Forget, history, TypeOK, WaitersAreParked, HandsTo, Live
  <1>7. HandOverIsOnce'
    BY DEF Wake, Goto, TypeOK, HandOverIsOnce, Live
  <1>8. FreeIsUnlocked'
    BY DEF Wake, Goto, Forget, history, FreeIsUnlocked, Owns, Locked, HandsTo, Waiting
  <1> QED BY <1>1, <1>2, <1>3, <1>4, <1>5, <1>6, <1>7, <1>8

\* A step that changes nothing.
LEMMA StutterInv == ASSUME Inv, UNCHANGED vars PROVE Inv'
  BY DEF vars, Inv, TypeOK, MutualExclusion, HeadIsStack, RestIsStack, TailIsReady,
         WaitersAreParked, HandOverIsOnce, FreeIsUnlocked, Owns, Locked, HandsTo, Live, Waiting

\* Every step of the specification keeps the invariant.
LEMMA NextInv == ASSUME Inv, [Next]_vars PROVE Inv'
  <1>1. ASSUME NEW p \in Procs, LockStep(p) PROVE Inv'
    BY <1>1, LockInv, TryLockInv, AwaitLoadInv, AwaitLinkInv, AwaitCasInv, AwaitRetryInv, ResumeInv
       DEF LockStep
  <1>2. ASSUME NEW p \in Procs, UnlockStep(p) PROVE Inv'
    BY <1>2, UnlockInv, UnlockLoadInv, UnlockCasInv, UnlockRetryInv, ReverseInv, ReversedInv, PopInv, WakeInv
       DEF UnlockStep
  <1> QED BY <1>1, <1>2, StutterInv DEF Next

\* The pointers of the mutex spell the queue of its waiters in every reachable state.
THEOREM Invariance == Spec => []Inv
  <1>1. Init => Inv
    BY InitInv
  <1>2. Inv /\ [Next]_vars => Inv'
    BY NextInv
  <1> QED BY <1>1, <1>2, PTL DEF Spec

-----------------------------------------------------------------------------
\* Safety.

\* Every variable keeps its type: no terminator of one list gets into the other.
THEOREM TypeCorrect == Spec => []TypeOK
  <1>1. Inv => TypeOK
    BY DEF Inv
  <1> QED BY <1>1, Invariance, PTL

\* At most one process owns the mutex, and so uses tail_, at any time.
THEOREM MutexIsExclusive == Spec => []MutualExclusion
  <1>1. Inv => MutualExclusion
    BY DEF Inv
  <1> QED BY <1>1, Invariance, PTL

\* Unlock follows no pointer to an awaiter that may be gone.
THEOREM AwaitersAreAlive == Spec => []AwaiterAlive
  <1>1. ASSUME Inv PROVE AwaiterAlive
    <2> USE <1>1 DEF Inv
    <2>1. order \in Seq(Procs) /\ DOMAIN order = 1 .. Len(order) /\ Len(order) \in Nat
      BY DEF TypeOK
    <2>2. \A i \in 1 .. Len(order) : Live(order[i])
      BY <2>1 DEF WaitersAreParked
    <2>3. head \in Procs => Live(head)
      BY <2>1, <2>2, PointersAssumption DEF TypeOK, HeadIsStack, TailIsReady
    <2>4. tail \in Procs => Live(tail)
      BY <2>1, <2>2, PointersAssumption DEF TypeOK, TailIsReady
    <2>5. \A p \in Procs : pc[p] = "reverse" /\ expected[p] \in Procs => Live(expected[p])
      BY <2>1, <2>2, PointersAssumption DEF TypeOK, RestIsStack, TailIsReady
    <2>6. \A p \in Procs : pc[p] = "wake" => Live(curr[p])
      BY DEF HandOverIsOnce
    <2>7. ASSUME NEW i \in DOMAIN order, next[order[i]] \in Procs PROVE Live(next[order[i]])
      <3>0. i \in 1 .. Len(order) /\ (i # 1 => i - 1 \in 1 .. Len(order))
        BY <2>1
      <3>1. CASE i <= unreversed
        BY <3>0, <3>1, <2>1, <2>2, <2>7, PointersAssumption DEF TypeOK, RestIsStack
      <3>2. CASE i > unreversed /\ i <= taken
        <4>1. next[order[i]] = IF i = taken THEN kUnlocked ELSE order[i + 1]
          BY <3>2 DEF TailIsReady
        <4>2. i # taken => i + 1 \in 1 .. Len(order)
          BY <2>1, <3>0, <3>2 DEF TypeOK, TailIsReady
        <4> QED BY <2>2, <2>7, <4>1, <4>2, PointersAssumption
      <3>3. CASE i > taken
        BY <3>3, <2>1, <2>2, <2>7, PointersAssumption DEF TypeOK, HeadIsStack
      <3> QED BY <3>1, <3>2, <3>3, <2>1 DEF TypeOK
    <2> QED BY <2>3, <2>4, <2>5, <2>6, <2>7 DEF AwaiterAlive
  <1> QED BY <1>1, Invariance, PTL

\* No waiter is left behind on a mutex that nobody owns.
THEOREM WaitersAreNotLost == Spec => []NoLostWaiter
  <1>1. ASSUME Inv PROVE NoLostWaiter
    <2>1. ASSUME NEW p \in Procs, pc[p] = "parked", ~ Locked PROVE FALSE
      BY <1>1, <2>1 DEF Inv, FreeIsUnlocked, Waiting, Locked, Owns
    <2> QED BY <1>1, <2>1 DEF Inv, FreeIsUnlocked, NoLostWaiter
  <1> QED BY <1>1, Invariance, PTL

-----------------------------------------------------------------------------
\* The mutex implements the fair lock.

\* The owner of the abstract lock is the one process that owns the mutex.
LEMMA OwnerIs == ASSUME MutualExclusion, NEW p \in Procs, Owns(p) PROVE Owner = p /\ Locked
  BY DEF MutualExclusion, Owner, Locked

\* A mutex that nobody owns has no abstract owner.
LEMMA NoOwner == ASSUME ~ Locked PROVE Owner = NoProc
  BY DEF Owner

\* The mutex starts as a free lock.
LEMMA InitImplements == Init => Fair!Init
  BY DEF Init, Fair!Init, Owner, Locked, Owns, HandsTo

\* Whoever comes to own a free mutex has acquired it.
LEMMA AcquireImplements ==
  ASSUME Inv, Inv', NEW p \in Procs, head = kUnlocked, Owns(p)', UNCHANGED order
  PROVE  Fair!Acquire(p)
  <1>1. ~ Locked /\ order = <<>>
    BY DEF Inv, FreeIsUnlocked
  <1>2. Owner' = p
    BY DEF Inv, MutualExclusion, Owner, Locked
  <1> QED BY <1>1, <1>2, NoOwner DEF Fair!Acquire

\* The owner does not change in a step that changes nobody's ownership.
LEMMA OwnerStays ==
  ASSUME \A p \in Procs : Owns(p)' <=> Owns(p)
  PROVE  Owner' = Owner
  BY DEF Owner, Locked

\* Steps inside Lock and Unlock that the abstract lock does not see.
InnerStep(p) ==
    \/ AwaitLoad(p) \/ AwaitLink(p) \/ AwaitRetry(p) \/ Resume(p)
    \/ Unlock(p) \/ UnlockLoad(p) \/ UnlockRetry(p) \/ Reverse(p) \/ Reversed(p) \/ Wake(p)

\* They leave the owner and the queue alone.
LEMMA InnerImplements ==
  ASSUME Inv, NEW p \in Procs, InnerStep(p)
  PROVE  UNCHANGED <<Owner, order>>
  <1>1. UNCHANGED order
    BY DEF InnerStep, AwaitLoad, AwaitLink, AwaitRetry, Resume, Unlock, UnlockLoad, UnlockRetry,
           Reverse, Reversed, Wake, history
  <1>2. ASSUME NEW q \in Procs PROVE Owns(q)' <=> Owns(q)
    <2> USE DEF Inv, TypeOK, Owns, HandsTo, Goto
    <2>1. CASE AwaitLoad(p) \/ AwaitLink(p) \/ AwaitRetry(p)
      BY <2>1 DEF AwaitLoad, AwaitLink, AwaitRetry
    <2>2. CASE Resume(p)
      BY <2>2 DEF Resume
    <2>3. CASE Unlock(p) \/ UnlockLoad(p) \/ UnlockRetry(p)
      BY <2>3 DEF Unlock, UnlockFrom, UnlockLoad, UnlockRetry
    <2>4. CASE Reverse(p)
      BY <2>4 DEF Reverse
    <2>5. CASE Reversed(p)
      <3>1. unreversed = 0 /\ tail \in Procs
        BY <2>5, PointersAssumption DEF Reversed, RestIsStack, TailIsReady
      <3> QED BY <2>5, <3>1, PointersAssumption DEF Reversed
    <2>6. CASE Wake(p)
      BY <2>6 DEF Wake, Forget, HandOverIsOnce, Live
    <2> QED BY <2>1, <2>2, <2>3, <2>4, <2>5, <2>6 DEF InnerStep
  <1> QED BY <1>1, <1>2, OwnerStays

\* The fast path of Lock and TryLock: Acquire, or nothing.
LEMMA LockImplements ==
  ASSUME Inv, Inv', NEW p \in Procs, Lock(p) \/ TryLock(p)
  PROVE  Fair!Acquire(p) \/ UNCHANGED <<Owner, order>>
  <1>1. UNCHANGED order
    BY DEF Lock, TryLock, history
  <1>2. CASE head = kUnlocked
    <2>1. Owns(p)'
      BY <1>2 DEF Lock, TryLock, Goto, Owns, Inv, TypeOK
    <2> QED BY <1>1, <1>2, <2>1, AcquireImplements
  <1>3. CASE head # kUnlocked
    <2>1. \A q \in Procs : Owns(q)' <=> Owns(q)
      BY <1>3 DEF Lock, TryLock, Goto, Owns, HandsTo, Inv, TypeOK
    <2> QED BY <1>1, <2>1, OwnerStays
  <1> QED BY <1>2, <1>3

\* The CAS of the slow path: Acquire when the mutex is free, Enqueue when not.
LEMMA AwaitCasImplements ==
  ASSUME Inv, Inv', NEW p \in Procs, AwaitCas(p)
  PROVE  Fair!Acquire(p) \/ Fair!Enqueue(p)
  <1>1. CASE head = kUnlocked
    <2>1. Owns(p)' /\ UNCHANGED order
      BY <1>1, PointersAssumption DEF AwaitCas, CasHits, NewState, Goto, Owns, Inv, TypeOK
    <2> QED BY <1>1, <2>1, AcquireImplements
  <1>2. CASE head # kUnlocked
    <2>1. /\ pc[p] = "cas" /\ pc' = [pc EXCEPT ![p] = "parked"]
          /\ order' = Append(order, p) /\ UNCHANGED <<curr, woken>>
      BY <1>2, PointersAssumption DEF AwaitCas, CasHits, NewState, Goto, Forget, Inv, TypeOK
    <2>2. Owner' = Owner
      <3>1. \A q \in Procs : Owns(q)' <=> Owns(q)
        BY <2>1 DEF Owns, HandsTo, Inv, TypeOK
      <3> QED BY <3>1, OwnerStays
    <2>3. ~ Owns(p)
      BY <2>1 DEF Owns, HandsTo, Inv, HandOverIsOnce, Live
    <2>4. Locked
      BY <1>2 DEF Inv, FreeIsUnlocked
    <2>5. Owner \in Procs /\ Owns(Owner)
      BY <2>4 DEF Owner, Locked
    <2>6. \A i \in DOMAIN order : order[i] # p
      BY <2>1 DEF Inv, WaitersAreParked, Live
    <2> QED BY <2>1, <2>2, <2>3, <2>5, <2>6, PointersAssumption DEF Fair!Enqueue, NoProc
  <1> QED BY <1>1, <1>2

\* The CAS of Unlock: Free when nobody waits, else nothing yet.
LEMMA UnlockCasImplements ==
  ASSUME Inv, Inv', NEW p \in Procs, UnlockCas(p)
  PROVE  Fair!Free \/ UNCHANGED <<Owner, order>>
  <1>1. UNCHANGED order
    BY DEF UnlockCas
  <1>2. CASE NewHead(p) = kUnlocked
    <2>1. head = kLocked /\ head' = kUnlocked /\ Owns(p)
      BY <1>2, PointersAssumption DEF UnlockCas, CasHits, NewHead, Owns
    <2>2. taken = 0 /\ order = <<>>
      BY <2>1, PointersAssumption
         DEF UnlockCas, Inv, TypeOK, HeadIsStack, TailIsReady, WaitersAreParked
    <2>3. Owner = p
      BY <2>1, OwnerIs DEF Inv
    <2>4. Owner' = NoProc
      BY <2>1 DEF Inv, FreeIsUnlocked, Owner, NoProc
    <2> QED BY <1>1, <2>2, <2>3, <2>4, PointersAssumption DEF Fair!Free, NoProc
  <1>3. CASE NewHead(p) # kUnlocked
    <2>1. \A q \in Procs : Owns(q)' <=> Owns(q)
      BY <1>3 DEF UnlockCas, Goto, Owns, HandsTo, Inv, TypeOK
    <2> QED BY <1>1, <2>1, OwnerStays
  <1> QED BY <1>2, <1>3

\* Unlock hands the mutex to the oldest waiter.
LEMMA PopImplements == ASSUME Inv, Inv', NEW p \in Procs, Pop(p) PROVE Fair!HandOver
  <1>1. tail \in Procs /\ order # <<>> /\ tail = Head(order)
    BY PointersAssumption DEF Pop, Inv, TypeOK, TailIsReady, MutualExclusion, Owns
  <1>2. Owner = p
    BY OwnerIs DEF Pop, Inv, Owns
  <1>3. ASSUME NEW w \in Procs, w = tail PROVE Owner' = w
    <2>1. HandsTo(p, w)'
      BY <1>3 DEF Pop, Goto, HandsTo, Inv, TypeOK
    <2>2. Owns(w)'
      BY <2>1 DEF Owns
    <2> QED BY <2>2 DEF Inv, MutualExclusion, Owner, Locked
  <1> QED BY <1>1, <1>2, <1>3, PointersAssumption DEF Fair!HandOver, Pop, NoProc

\* The mutex implements the fair lock: mutual exclusion and service in the order of arrival.
THEOREM FiberMutexImplementsFifoLock == Spec => IsFifoLock
  <1>1. Init => Fair!Init
    BY InitImplements
  <1>2. Inv /\ Inv' /\ [Next]_vars => [Fair!Next]_(Fair!vars)
    <2> SUFFICES ASSUME Inv, Inv', [Next]_vars PROVE Fair!Next \/ UNCHANGED <<Owner, order>>
      BY DEF Fair!vars
    <2>1. ASSUME NEW p \in Procs, LockStep(p) \/ UnlockStep(p)
          PROVE  Fair!Next \/ UNCHANGED <<Owner, order>>
      BY <2>1, InnerImplements, LockImplements, AwaitCasImplements, UnlockCasImplements, PopImplements
         DEF LockStep, UnlockStep, InnerStep, Fair!Next
    <2>2. CASE UNCHANGED vars
      BY <2>2 DEF vars, Owner, Locked, Owns, HandsTo
    <2> QED BY <2>1, <2>2 DEF Next
  <1> QED BY <1>1, <1>2, Invariance, PTL DEF Spec, IsFifoLock, Fair!Spec

-----------------------------------------------------------------------------
\* Fibers on workers.

USE WorkersAssumption

Queued(f) == \E i \in 1 .. Len(queue) : queue[i] = f

QueueIsSet == \A i, j \in 1 .. Len(queue) : queue[i] = queue[j] => i = j

\* A worker has its fiber and its switched-out fiber for itself.
WorkersApart ==
    /\ \A v, w \in Workers : current[v] = current[w] /\ current[v] # nullptr => v = w
    /\ \A v, w \in Workers : buffer[v] = buffer[w] /\ buffer[v] # nullptr => v = w
    /\ \A v, w \in Workers : current[v] # nullptr => buffer[w] # current[v]

\* What a worker has is nowhere else.
PlacesApart ==
    /\ \A w \in Workers : current[w] # nullptr =>
          ~ Queued(current[w]) /\ current[w] \notin handles /\ current[w] \notin finished
    /\ \A w \in Workers : buffer[w] # nullptr =>
          ~ Queued(buffer[w]) /\ buffer[w] \notin handles /\ buffer[w] \notin finished
    /\ \A f \in Fibers : Queued(f) => f \notin handles /\ f \notin finished
    /\ \A f \in handles : f \notin finished

NoneIsLost ==
    \A f \in Fibers :
        \/ f \in finished \/ f \in handles \/ Queued(f)
        \/ \E w \in Workers : current[w] = f \/ buffer[w] = f

\* While a worker runs an awaiter's OnSuspend it has no fiber of its own.
SuspendRight ==
    \A w \in Workers : onSuspend[w] # nullptr =>
        /\ current[w] = nullptr
        /\ pc[onSuspend[w]] \in {"load", "link", "cas", "cs"}
        /\ onSuspend[w] \in handles
        /\ \A v \in Workers : onSuspend[v] = onSuspend[w] => v = w

\* A fiber that may be woken has left its handle.
HandlesRight ==
    /\ \A f \in handles : f \in inAwait
    /\ \A f \in Fibers : pc[f] = "parked" => f \in inAwait
    /\ \A f \in Fibers : Live(f) => f \in handles

SInv == /\ SchedTypeOK /\ QueueIsSet /\ WorkersApart /\ PlacesApart /\ NoneIsLost
        /\ SuspendRight /\ HandlesRight /\ BufferIsTransient

-----------------------------------------------------------------------------
\* The run queue.

LEMMA QueueAppends ==
  ASSUME SchedTypeOK, NEW f \in Fibers, queue' = Append(queue, f)
  PROVE  /\ queue' \in Seq(Fibers)
         /\ \A y : Queued(y)' <=> Queued(y) \/ y = f
         /\ QueueIsSet /\ ~ Queued(f) => QueueIsSet'
  <1> DEFINE n == Len(queue)
             m == Len(queue')
  <1>1. queue \in Seq(Fibers)
    BY DEF SchedTypeOK
  <1>2. /\ queue' \in Seq(Fibers) /\ m = n + 1 /\ n \in Nat
        /\ \A i \in 1 .. n : queue'[i] = queue[i]
        /\ queue'[n + 1] = f
    BY <1>1, AppendProperties, LenProperties
  <1> HIDE DEF n, m
  <1>3. \A i \in 1 .. m : i \in 1 .. n \/ i = n + 1
    BY <1>2
  <1>4. n + 1 \in 1 .. m /\ \A i \in 1 .. n : i \in 1 .. m
    BY <1>2
  <1>5. \A y : (\E i \in 1 .. m : queue'[i] = y) <=> (\E i \in 1 .. n : queue[i] = y) \/ y = f
    BY <1>2, <1>3, <1>4
  <1>6. ASSUME \A i, j \in 1 .. n : queue[i] = queue[j] => i = j, \A i \in 1 .. n : queue[i] # f
        PROVE  \A i, j \in 1 .. m : queue'[i] = queue'[j] => i = j
    BY <1>2, <1>3, <1>6
  <1> QED BY <1>2, <1>5, <1>6 DEF Queued, QueueIsSet, n, m

LEMMA QueueAdvances ==
  ASSUME SchedTypeOK, queue # <<>>, queue' = Tail(queue), QueueIsSet
  PROVE  /\ Head(queue) \in Fibers /\ Queued(Head(queue))
         /\ queue' \in Seq(Fibers) /\ QueueIsSet'
         /\ \A y : Queued(y)' <=> Queued(y) /\ y # Head(queue)
  <1> DEFINE n == Len(queue)
             m == Len(queue')
  <1>1. queue \in Seq(Fibers)
    BY DEF SchedTypeOK
  <1>2. /\ Head(queue) \in Fibers /\ queue' \in Seq(Fibers) /\ n \in Nat \ {0} /\ m = n - 1
        /\ \A i \in 1 .. n - 1 : queue'[i] = queue[i + 1]
        /\ Head(queue) = queue[1]
    BY <1>1, HeadTailProperties, LenProperties, EmptySeq
  <1>0. \A i, j \in 1 .. n : queue[i] = queue[j] => i = j
    BY DEF QueueIsSet
  <1> HIDE DEF n, m
  <1>3. 1 \in 1 .. n /\ \A i \in 1 .. m : i + 1 \in 1 .. n /\ i + 1 # 1
    BY <1>2
  <1>4. \A i \in 1 .. n : i # 1 => i - 1 \in 1 .. m /\ (i - 1) + 1 = i
    BY <1>2
  <1>5. \A i \in 1 .. m : queue'[i] = queue[i + 1]
    BY <1>2
  <1>6. \A i, j \in 1 .. m : queue'[i] = queue'[j] => i = j
    <2> SUFFICES ASSUME NEW i \in 1 .. m, NEW j \in 1 .. m, queue'[i] = queue'[j] PROVE i = j
      OBVIOUS
    <2>1. i + 1 \in 1 .. n /\ j + 1 \in 1 .. n /\ queue[i + 1] = queue[j + 1]
      BY <1>3, <1>5
    <2>2. i + 1 = j + 1
      BY <1>0, <2>1
    <2> QED BY <1>2, <2>2
  <1>7. \A i \in 1 .. m : queue'[i] # queue[1] /\ \E j \in 1 .. n : queue[j] = queue'[i]
    BY <1>0, <1>3, <1>5
  <1>8. ASSUME NEW i \in 1 .. n, queue[i] # queue[1] PROVE \E j \in 1 .. m : queue'[j] = queue[i]
    <2>1. i - 1 \in 1 .. m /\ queue'[i - 1] = queue[i]
      BY <1>4, <1>5, <1>8
    <2> QED BY <2>1
  <1>9. \A y : (\E i \in 1 .. m : queue'[i] = y) <=> (\E i \in 1 .. n : queue[i] = y) /\ y # queue[1]
    <2> SUFFICES ASSUME NEW y
                 PROVE  (\E i \in 1 .. m : queue'[i] = y) <=> (\E i \in 1 .. n : queue[i] = y) /\ y # queue[1]
      OBVIOUS
    <2>1. (\E i \in 1 .. m : queue'[i] = y) => (\E i \in 1 .. n : queue[i] = y) /\ y # queue[1]
      BY <1>7
    <2>2. (\E i \in 1 .. n : queue[i] = y) /\ y # queue[1] => \E i \in 1 .. m : queue'[i] = y
      BY <1>8
    <2> QED BY <2>1, <2>2
  <1> QED BY <1>2, <1>3, <1>6, <1>9 DEF Queued, QueueIsSet, n, m

LEMMA QueueStays ==
  ASSUME SchedTypeOK, QueueIsSet, queue' = queue
  PROVE  queue' \in Seq(Fibers) /\ QueueIsSet' /\ \A y : Queued(y)' <=> Queued(y)
  BY DEF SchedTypeOK, QueueIsSet, Queued

-----------------------------------------------------------------------------
\* The scheduler restricts the mutex.

\* The fiber that runs on a worker is one of the processes.
LEMMA RunnerIsFiber ==
  ASSUME SchedTypeOK, NEW w \in Workers
  PROVE  /\ RunsOn(current[w], w) => current[w] \in Fibers /\ current[w] \in Procs
         /\ current[w] \in inAwait => current[w] \in Fibers /\ current[w] \in Procs
         /\ onSuspend[w] # nullptr => onSuspend[w] \in Fibers /\ onSuspend[w] \in Procs
         /\ current[w] # nullptr => current[w] \in Fibers
         /\ buffer[w] # nullptr => buffer[w] \in Fibers
         /\ Fibers \subseteq Procs /\ nullptr \notin Fibers
  BY DEF RunsOn, SchedTypeOK

\* Every step of the system is a step of the mutex or leaves it alone.
LEMMA SchedStepIsMutexStep == ASSUME SchedTypeOK, [SchedNext]_allVars PROVE [Next]_vars
  <1>1. ASSUME NEW w \in Workers, Runtime(w) \/ FiberCalls(w) \/ Yield(w) \/ Finish(w)
        PROVE  [Next]_vars
    <2>1. CASE RunNext(w) \/ Suspend(w) \/ OnSuspendSchedules(w) \/ Yield(w) \/ Finish(w)
      BY <2>1 DEF RunNext, Suspend, OnSuspendSchedules, Yield, Finish
    <2>2. CASE OnSuspend(w)
      BY <2>2, RunnerIsFiber DEF OnSuspend, Next, LockStep
    <2>3. CASE AfterSuspend(w)
      BY <2>3, RunnerIsFiber DEF AfterSuspend, Next, LockStep
    <2>4. CASE WakeFromFiber(w)
      BY <2>4, RunnerIsFiber DEF WakeFromFiber, Next, UnlockStep
    <2>5. CASE FiberSteps(w) \/ FiberCalls(w)
      BY <2>5, RunnerIsFiber DEF FiberSteps, FiberCalls, Call, Step, Next, LockStep, UnlockStep
    <2> QED BY <1>1, <2>1, <2>2, <2>3, <2>4, <2>5 DEF Runtime
  <1>2. ASSUME NEW t \in Threads, WakeFromThread(t) \/ ThreadCalls(t) \/ ThreadSteps(t)
        PROVE  [Next]_vars
    <2>1. t \in Procs
      BY DEF Threads
    <2> QED BY <1>2, <2>1 DEF WakeFromThread, ThreadCalls, ThreadSteps, Call, Step, ThreadAwaits,
                              Next, LockStep, UnlockStep
  <1>3. CASE UNCHANGED allVars
    BY <1>3 DEF allVars
  <1> QED BY <1>1, <1>2, <1>3 DEF SchedNext

-----------------------------------------------------------------------------
\* What the steps of the mutex do to the processes.

\* A step of a process's own code.
LEMMA OwnStepFrame ==
  ASSUME Inv, NEW p \in Procs, Call(p) \/ Step(p)
  PROVE  /\ woken' = woken /\ pc[p] # "parked" /\ pc'[p] # "parked"
         /\ \A q \in Procs : q # p => pc'[q] = pc[q]
  <1>1. pc \in [Procs -> Labels]
    BY DEF Inv, TypeOK
  <1>2. CASE Call(p)
    BY <1>1, <1>2 DEF Call, Lock, TryLock, Goto
  <1>3. CASE Step(p)
    BY <1>1, <1>3 DEF Step, Unlock, UnlockFrom, UnlockLoad, UnlockCas, UnlockRetry, Reverse, Reversed, Pop, Goto
  <1> QED BY <1>2, <1>3

\* A step of the lambda that Lock gives to DoAwait.
LEMMA AwaitFrame ==
  ASSUME Inv, NEW p \in Procs, AwaitLoad(p) \/ AwaitLink(p) \/ AwaitCas(p) \/ AwaitRetry(p)
  PROVE  /\ woken' = woken /\ p \notin woken /\ pc[p] # "parked"
         /\ pc'[p] \in {"link", "cas", "cs", "parked"}
         /\ \A q \in Procs : q # p => pc'[q] = pc[q]
  <1>1. pc \in [Procs -> Labels] /\ \A q \in woken : pc[q] = "parked"
    BY DEF Inv, TypeOK, HandOverIsOnce
  <1> QED BY <1>1 DEF AwaitLoad, AwaitLink, AwaitCas, AwaitRetry, Goto

LEMMA ResumeFrame ==
  ASSUME Inv, NEW p \in Procs, Resume(p)
  PROVE  /\ woken' = woken \ {p} /\ pc[p] = "parked" /\ p \in woken /\ pc'[p] = "cs"
         /\ \A q \in Procs : q # p => pc'[q] = pc[q]
  BY DEF Resume, Goto, Inv, TypeOK

\* Wake finds a process that waits, and hands it the mutex.
LEMMA WakeFrame ==
  ASSUME Inv, NEW p \in Procs, Wake(p)
  PROVE  /\ pc[p] = "wake" /\ pc'[p] = "idle" /\ curr[p] \in Procs /\ Live(curr[p])
         /\ woken' = woken \union {curr[p]} /\ curr[p] # p
         /\ \A q \in Procs : q # p => pc'[q] = pc[q]
  BY DEF Wake, Goto, Inv, TypeOK, HandOverIsOnce, Live


\* A step that leaves the scheduler alone.
LEMMA SchedulerRests ==
  ASSUME SInv, UNCHANGED sched, \A f \in Fibers : f \in woken' <=> f \in woken,
         \A w \in Workers : onSuspend[w] # nullptr => pc'[onSuspend[w]] = pc[onSuspend[w]],
         \A f \in Fibers : pc'[f] = "parked" => pc[f] = "parked"
  PROVE  SInv'
  <1>1. UNCHANGED <<queue, current, buffer, onSuspend, handles, inAwait, finished>>
    BY DEF sched
  <1>2. SchedTypeOK' /\ BufferIsTransient'
    BY <1>1 DEF SInv, SchedTypeOK, BufferIsTransient
  <1>3. QueueIsSet' /\ \A y : Queued(y)' <=> Queued(y)
    BY <1>1, QueueStays DEF SInv
  <1>4. WorkersApart' /\ PlacesApart' /\ NoneIsLost'
    BY <1>1, <1>3 DEF SInv, WorkersApart, PlacesApart, NoneIsLost
  <1>5. SuspendRight'
    BY <1>1 DEF SInv, SuspendRight
  <1>6. HandlesRight'
    BY <1>1 DEF SInv, HandlesRight, Live
  <1> QED BY <1>2, <1>3, <1>4, <1>5, <1>6 DEF SInv

\* A process that calls or is in Lock or Unlock, on a worker or on a thread.
LEMMA OwnStepSInv ==
  ASSUME Inv, SInv, NEW p \in Procs, Call(p) \/ Step(p), UNCHANGED sched,
         p \notin Fibers \/ \E w \in Workers : current[w] = p
  PROVE  SInv'
  <1>1. \A w \in Workers : onSuspend[w] # nullptr => onSuspend[w] # p /\ onSuspend[w] \in Procs
    BY RunnerIsFiber DEF SInv, SuspendRight, PlacesApart
  <1>2. \A w \in Workers : onSuspend[w] # nullptr => pc'[onSuspend[w]] = pc[onSuspend[w]]
    BY <1>1, OwnStepFrame
  <1>3. \A f \in Fibers : pc'[f] = "parked" => pc[f] = "parked"
    BY OwnStepFrame
  <1> QED BY <1>2, <1>3, SchedulerRests, OwnStepFrame

LEMMA ThreadStepsSInv == ASSUME Inv, SInv, NEW t \in Threads, ThreadSteps(t) PROVE SInv'
  <1>1. t \in Procs /\ t \notin Fibers /\ UNCHANGED sched
    BY DEF Threads, ThreadSteps
  <1>2. CASE Step(t)
    BY <1>1, <1>2, OwnStepSInv
  <1>3. CASE AwaitLoad(t) \/ AwaitLink(t) \/ AwaitCas(t) \/ AwaitRetry(t)
    <2>1. woken' = woken /\ \A f \in Fibers : pc'[f] = pc[f]
      BY <1>1, <1>3, AwaitFrame
    <2>2. \A w \in Workers : onSuspend[w] # nullptr => pc'[onSuspend[w]] = pc[onSuspend[w]]
      BY <2>1, RunnerIsFiber DEF SInv
    <2> QED BY <1>1, <2>1, <2>2, SchedulerRests
  <1>4. CASE Resume(t)
    <2>1. /\ \A f \in Fibers : f \in woken' <=> f \in woken
          /\ \A f \in Fibers : pc'[f] = pc[f]
      BY <1>1, <1>4, ResumeFrame
    <2>2. \A w \in Workers : onSuspend[w] # nullptr => pc'[onSuspend[w]] = pc[onSuspend[w]]
      BY <2>1, RunnerIsFiber DEF SInv
    <2> QED BY <1>1, <2>1, <2>2, SchedulerRests
  <1> QED BY <1>2, <1>3, <1>4 DEF ThreadSteps, ThreadAwaits

-----------------------------------------------------------------------------
\* The steps of the scheduler and of the awaiters.

\* Nothing of the mutex changes: the handles of who may be woken are as before.
LEMMA MutexRests ==
  ASSUME SInv, UNCHANGED vars, handles \subseteq handles', inAwait \subseteq inAwait',
         handles' \subseteq inAwait'
  PROVE  HandlesRight'
  BY DEF SInv, HandlesRight, Live, vars

LEMMA RunNextSInv == ASSUME SInv, NEW w \in Workers, RunNext(w) PROVE SInv'
  <1> DEFINE f == Head(queue)
  <1>0. /\ current[w] = nullptr /\ onSuspend[w] = nullptr /\ queue # <<>>
        /\ current' = [current EXCEPT ![w] = f] /\ queue' = Tail(queue)
        /\ UNCHANGED <<vars, buffer, onSuspend, handles, inAwait, finished>>
    BY DEF RunNext, Free
  <1>1. /\ f \in Fibers /\ Queued(f) /\ queue' \in Seq(Fibers) /\ QueueIsSet'
        /\ \A y : Queued(y)' <=> Queued(y) /\ y # f
    BY <1>0, QueueAdvances DEF SInv
  <1> HIDE DEF f
  <1>2. /\ current'[w] = f /\ \A v \in Workers : v # w => current'[v] = current[v]
        /\ nullptr \notin Fibers
    BY <1>0 DEF SInv, SchedTypeOK
  <1>3. SchedTypeOK'
    BY <1>0, <1>1 DEF SInv, SchedTypeOK
  <1>4. \A v \in Workers : current[v] # f /\ buffer[v] # f
    BY <1>1, <1>2 DEF SInv, PlacesApart
  <1>5. WorkersApart'
    BY <1>0, <1>2, <1>4 DEF SInv, WorkersApart
  <1>6. PlacesApart'
    BY <1>0, <1>1, <1>2 DEF SInv, PlacesApart
  <1>7. NoneIsLost'
    BY <1>0, <1>1, <1>2 DEF SInv, NoneIsLost
  <1>8. SuspendRight'
    BY <1>0, <1>2 DEF SInv, SuspendRight, vars
  <1>9. HandlesRight'
    BY <1>0, MutexRests DEF SInv, HandlesRight
  <1>10. BufferIsTransient'
    BY <1>0, <1>2 DEF SInv, BufferIsTransient
  <1> QED BY <1>1, <1>3, <1>5, <1>6, <1>7, <1>8, <1>9, <1>10 DEF SInv

LEMMA SuspendSInv == ASSUME SInv, NEW w \in Workers, Suspend(w) PROVE SInv'
  <1>0. PICK f \in Fibers :
          /\ f = current[w] /\ f \notin inAwait /\ pc[f] = "load"
          /\ current' = [current EXCEPT ![w] = nullptr]
          /\ onSuspend' = [onSuspend EXCEPT ![w] = f]
          /\ handles' = handles \union {f} /\ inAwait' = inAwait \union {f}
          /\ UNCHANGED <<vars, queue, buffer, finished>>
    BY DEF Suspend, RunsOn
  <1>1. QueueIsSet' /\ \A y : Queued(y)' <=> Queued(y)
    BY <1>0, QueueStays DEF SInv
  <1>2. /\ current'[w] = nullptr /\ \A v \in Workers : v # w => current'[v] = current[v]
        /\ onSuspend'[w] = f /\ \A v \in Workers : v # w => onSuspend'[v] = onSuspend[v]
        /\ nullptr \notin Fibers
    BY <1>0 DEF SInv, SchedTypeOK
  <1>3. SchedTypeOK'
    BY <1>0 DEF SInv, SchedTypeOK
  <1>4. /\ f \notin handles /\ f \notin finished /\ ~ Queued(f)
        /\ \A v \in Workers : buffer[v] # f /\ (v # w => current[v] # f) /\ onSuspend[v] # f
    BY <1>0, <1>2 DEF SInv, PlacesApart, WorkersApart, SuspendRight
  <1>5. WorkersApart'
    BY <1>0, <1>2 DEF SInv, WorkersApart
  <1>6. PlacesApart'
    BY <1>0, <1>1, <1>2, <1>4 DEF SInv, PlacesApart
  <1>7. NoneIsLost'
    BY <1>0, <1>1, <1>2 DEF SInv, NoneIsLost
  <1>8. SuspendRight'
    BY <1>0, <1>2, <1>4 DEF SInv, SuspendRight, vars
  <1>9. HandlesRight'
    BY <1>0, MutexRests DEF SInv, HandlesRight
  <1>10. BufferIsTransient'
    BY <1>0, <1>2 DEF SInv, BufferIsTransient
  <1> QED BY <1>1, <1>3, <1>5, <1>6, <1>7, <1>8, <1>9, <1>10 DEF SInv

\* The lambda of Lock on the worker: it keeps the handle, whatever its CAS does.
LEMMA OnSuspendSInv == ASSUME Inv, SInv, NEW w \in Workers, OnSuspend(w) PROVE SInv'
  <1>0. PICK f \in Fibers :
          /\ f = onSuspend[w] /\ f \in Procs
          /\ AwaitLoad(f) \/ AwaitLink(f) \/ AwaitCas(f) \/ AwaitRetry(f)
          /\ onSuspend' = [onSuspend EXCEPT ![w] = IF pc'[f] = "parked" THEN nullptr ELSE f]
          /\ UNCHANGED <<queue, current, buffer, handles, inAwait, finished>>
    BY RunnerIsFiber DEF OnSuspend, SInv
  <1>1. QueueIsSet' /\ \A y : Queued(y)' <=> Queued(y)
    BY <1>0, QueueStays DEF SInv
  <1>2. /\ onSuspend'[w] = IF pc'[f] = "parked" THEN nullptr ELSE f
        /\ \A v \in Workers : v # w => onSuspend'[v] = onSuspend[v]
        /\ nullptr \notin Fibers
    BY <1>0 DEF SInv, SchedTypeOK
  <1>3. /\ woken' = woken /\ f \notin woken /\ pc[f] # "parked"
        /\ pc'[f] \in {"link", "cas", "cs", "parked"}
        /\ \A q \in Procs : q # f => pc'[q] = pc[q]
    BY <1>0, AwaitFrame
  <1>4. SchedTypeOK'
    BY <1>0 DEF SInv, SchedTypeOK
  <1>5. WorkersApart' /\ PlacesApart' /\ NoneIsLost'
    BY <1>0, <1>1 DEF SInv, WorkersApart, PlacesApart, NoneIsLost
  <1>6. f \in handles /\ f \in inAwait /\ \A v \in Workers : v # w => onSuspend[v] # f
    BY <1>0, <1>2 DEF SInv, SuspendRight, HandlesRight
  <1>7. SuspendRight'
    BY <1>0, <1>2, <1>3, <1>6, RunnerIsFiber DEF SInv, SuspendRight
  <1>8. HandlesRight'
    BY <1>0, <1>3, <1>6 DEF SInv, HandlesRight, Live
  <1>9. BufferIsTransient'
    BY <1>0 DEF SInv, BufferIsTransient
  <1> QED BY <1>1, <1>4, <1>5, <1>7, <1>8, <1>9 DEF SInv

\* The fiber that need not wait leaves its handle for the run queue.
LEMMA OnSuspendSchedulesSInv == ASSUME SInv, NEW w \in Workers, OnSuspendSchedules(w) PROVE SInv'
  <1>0. PICK f \in Fibers :
          /\ f = onSuspend[w] /\ pc[f] = "cs"
          /\ queue' = Append(queue, f) /\ handles' = handles \ {f}
          /\ onSuspend' = [onSuspend EXCEPT ![w] = nullptr]
          /\ UNCHANGED <<vars, current, buffer, inAwait, finished>>
    BY RunnerIsFiber DEF OnSuspendSchedules, ScheduleHandle, SInv
  <1>1. f \in handles /\ f \in inAwait /\ \A v \in Workers : v # w => onSuspend[v] # f
    BY <1>0 DEF SInv, SuspendRight, HandlesRight, SchedTypeOK
  <1>2. /\ onSuspend'[w] = nullptr /\ \A v \in Workers : v # w => onSuspend'[v] = onSuspend[v]
        /\ nullptr \notin Fibers
    BY <1>0 DEF SInv, SchedTypeOK
  <1>3. /\ ~ Queued(f) /\ f \notin finished
        /\ \A v \in Workers : current[v] # f /\ buffer[v] # f
    BY <1>1, <1>2 DEF SInv, PlacesApart
  <1>4. queue' \in Seq(Fibers) /\ QueueIsSet' /\ \A y : Queued(y)' <=> Queued(y) \/ y = f
    BY <1>0, <1>3, QueueAppends DEF SInv
  <1>5. SchedTypeOK'
    BY <1>0, <1>4 DEF SInv, SchedTypeOK
  <1>6. WorkersApart'
    BY <1>0 DEF SInv, WorkersApart
  <1>7. PlacesApart'
    BY <1>0, <1>3, <1>4 DEF SInv, PlacesApart
  <1>8. NoneIsLost'
    BY <1>0, <1>4 DEF SInv, NoneIsLost
  <1>9. SuspendRight'
    BY <1>0, <1>1, <1>2 DEF SInv, SuspendRight, vars
  <1>10. HandlesRight'
    BY <1>0 DEF SInv, HandlesRight, Live, vars
  <1>11. BufferIsTransient'
    BY <1>0 DEF SInv, BufferIsTransient
  <1> QED BY <1>4, <1>5, <1>6, <1>7, <1>8, <1>9, <1>10, <1>11 DEF SInv

\* The buffer's fiber goes to the run queue.
LEMMA ScheduleBufferFacts ==
  ASSUME SInv, NEW w \in Workers, ScheduleBuffer(w)
  PROVE  /\ queue' \in Seq(Fibers) /\ QueueIsSet'
         /\ \A y : Queued(y)' <=> Queued(y) \/ (y = buffer[w] /\ y # nullptr)
         /\ buffer' \in [Workers -> Fibers \union {nullptr}] /\ buffer'[w] = nullptr
         /\ \A v \in Workers : v # w => buffer'[v] = buffer[v]
  <1>1. CASE buffer[w] = nullptr
    <2>1. queue' = queue /\ buffer' = buffer
      BY <1>1 DEF ScheduleBuffer
    <2>2. queue' \in Seq(Fibers) /\ QueueIsSet' /\ \A y : Queued(y)' <=> Queued(y)
      BY <2>1, QueueStays DEF SInv
    <2> QED BY <1>1, <2>1, <2>2 DEF SInv, SchedTypeOK
  <1>2. CASE buffer[w] # nullptr
    <2>1. /\ queue' = Append(queue, buffer[w]) /\ buffer' = [buffer EXCEPT ![w] = nullptr]
          /\ buffer[w] \in Fibers /\ ~ Queued(buffer[w])
      BY <1>2, RunnerIsFiber DEF ScheduleBuffer, SInv, PlacesApart
    <2>2. queue' \in Seq(Fibers) /\ QueueIsSet' /\ \A y : Queued(y)' <=> Queued(y) \/ y = buffer[w]
      BY <2>1, QueueAppends DEF SInv
    <2> QED BY <1>2, <2>1, <2>2 DEF SInv, SchedTypeOK
  <1> QED BY <1>1, <1>2

LEMMA AfterSuspendSInv == ASSUME Inv, SInv, NEW w \in Workers, AfterSuspend(w) PROVE SInv'
  <1>0. PICK f \in Fibers :
          /\ f = current[w] /\ f \in inAwait /\ f \in Procs /\ ScheduleBuffer(w)
          /\ inAwait' = inAwait \ {f}
          /\ IF pc[f] = "parked" THEN Resume(f) ELSE UNCHANGED vars
          /\ UNCHANGED <<current, onSuspend, handles, finished>>
    BY RunnerIsFiber DEF AfterSuspend, SInv
  <1>1. /\ pc'[f] # "parked" /\ \A q \in Procs : q # f => pc'[q] = pc[q]
        /\ \A q \in Procs : q # f => (q \in woken' <=> q \in woken)
    BY <1>0, ResumeFrame DEF vars
  <1>2. /\ queue' \in Seq(Fibers) /\ QueueIsSet'
        /\ \A y : Queued(y)' <=> Queued(y) \/ (y = buffer[w] /\ y # nullptr)
        /\ buffer' \in [Workers -> Fibers \union {nullptr}] /\ buffer'[w] = nullptr
        /\ \A v \in Workers : v # w => buffer'[v] = buffer[v]
    BY <1>0, ScheduleBufferFacts
  <1>3. /\ f \notin handles /\ f # nullptr
        /\ \A v \in Workers : (v # w => current[v] # f) /\ onSuspend[v] # f
    BY <1>0 DEF SInv, WorkersApart, PlacesApart, SuspendRight, SchedTypeOK
  <1>4. SchedTypeOK'
    BY <1>0, <1>2 DEF SInv, SchedTypeOK
  <1>5. WorkersApart'
    BY <1>0, <1>2 DEF SInv, WorkersApart
  <1>6. PlacesApart'
    BY <1>0, <1>2 DEF SInv, PlacesApart, WorkersApart
  <1>7. NoneIsLost'
    <2> SUFFICES ASSUME NEW g \in Fibers
                 PROVE  \/ g \in finished' \/ g \in handles' \/ Queued(g)'
                        \/ \E v \in Workers : current'[v] = g \/ buffer'[v] = g
      BY DEF NoneIsLost
    <2>1. CASE g = buffer[w]
      BY <1>2, <2>1 DEF SInv, SchedTypeOK
    <2>2. CASE g # buffer[w]
      BY <1>0, <1>2, <2>2 DEF SInv, NoneIsLost
    <2> QED BY <2>1, <2>2
  <1>8. SuspendRight'
    BY <1>0, <1>1, <1>3, RunnerIsFiber DEF SInv, SuspendRight
  <1>9. HandlesRight'
    BY <1>0, <1>1, <1>3 DEF SInv, HandlesRight, Live
  <1>10. BufferIsTransient'
    BY <1>0, <1>2, <1>3 DEF SInv, BufferIsTransient
  <1> QED BY <1>2, <1>4, <1>5, <1>6, <1>7, <1>8, <1>9, <1>10 DEF SInv

\* The woken fiber has a handle, and nobody runs its OnSuspend any more.
LEMMA WokenHasHandle ==
  ASSUME Inv, SInv, NEW p \in Procs, Wake(p), curr[p] \in Fibers
  PROVE  /\ curr[p] \in handles /\ curr[p] \in inAwait
         /\ \A v \in Workers : onSuspend[v] # curr[p] /\ current[v] # curr[p] /\ buffer[v] # curr[p]
         /\ ~ Queued(curr[p]) /\ curr[p] \notin finished
  <1>1. curr[p] \in handles /\ pc[curr[p]] = "parked"
    BY WakeFrame DEF Live, SInv, HandlesRight
  <1>2. \A v \in Workers : onSuspend[v] # curr[p]
    <2> SUFFICES ASSUME NEW v \in Workers, onSuspend[v] = curr[p] PROVE FALSE
      OBVIOUS
    <2>1. onSuspend[v] # nullptr
      BY RunnerIsFiber DEF SInv
    <2> QED BY <1>1, <2>1 DEF SInv, SuspendRight
  <1>3. \A v \in Workers : current[v] # curr[p] /\ buffer[v] # curr[p]
    BY <1>1, RunnerIsFiber DEF SInv, PlacesApart
  <1> QED BY <1>1, <1>2, <1>3 DEF SInv, PlacesApart, HandlesRight

\* A symmetric switch: the handle's fiber runs, the other one is in the free buffer.
LEMMA WakeFromFiberSInv == ASSUME Inv, SInv, NEW w \in Workers, WakeFromFiber(w) PROVE SInv'
  <1>0. PICK p \in Fibers :
          /\ p = current[w] /\ p \in Procs /\ p \notin inAwait /\ Wake(p)
          /\ IF curr[p] \in Fibers
               THEN Switch(w, curr[p]) ELSE UNCHANGED <<queue, current, buffer, handles>>
          /\ UNCHANGED <<onSuspend, inAwait, finished>>
    BY RunnerIsFiber DEF WakeFromFiber, RunsOn, SInv
  <1> DEFINE q == curr[p]
  <1>1. /\ pc'[p] = "idle" /\ \A g \in Procs : g # p => pc'[g] = pc[g]
        /\ q \in Procs /\ q # p /\ woken' = woken \union {q}
    BY <1>0, WakeFrame
  <1>2. buffer[w] = nullptr /\ p # nullptr /\ p \notin handles
    BY <1>0, RunnerIsFiber DEF SInv, BufferIsTransient, PlacesApart
  <1>3. \A v \in Workers : onSuspend[v] # p
    BY <1>2 DEF SInv, SuspendRight
  <1>4. q \in Fibers =>
          /\ q \in handles /\ q \in inAwait /\ q # nullptr
          /\ \A v \in Workers : onSuspend[v] # q /\ current[v] # q /\ buffer[v] # q
          /\ ~ Queued(q) /\ q \notin finished
    BY <1>0, WokenHasHandle, RunnerIsFiber
  <1> HIDE DEF q
  <1>5. queue' = queue
    BY <1>0 DEF Switch
  <1>6. queue' \in Seq(Fibers) /\ QueueIsSet' /\ \A y : Queued(y)' <=> Queued(y)
    BY <1>5, QueueStays DEF SInv
  <1>7. CASE q \in Fibers
    <2>0. /\ buffer' = [buffer EXCEPT ![w] = p] /\ current' = [current EXCEPT ![w] = q]
          /\ handles' = handles \ {q}
      BY <1>0, <1>7 DEF Switch, q
    <2>1. /\ current'[w] = q /\ \A v \in Workers : v # w => current'[v] = current[v]
          /\ buffer'[w] = p /\ \A v \in Workers : v # w => buffer'[v] = buffer[v]
          /\ nullptr \notin Fibers
      BY <2>0 DEF SInv, SchedTypeOK
    <2>2. SchedTypeOK'
      BY <1>0, <1>6, <1>7, <2>0 DEF SInv, SchedTypeOK
    <2>3. /\ ~ Queued(p) /\ p \notin finished
          /\ \A v \in Workers : buffer[v] # p /\ (v # w => current[v] # p)
      BY <1>0, <1>2 DEF SInv, PlacesApart, WorkersApart
    <2>4. WorkersApart'
      BY <1>0, <1>1, <1>4, <1>7, <2>1, <2>3 DEF SInv, WorkersApart
    <2>5. PlacesApart'
      BY <1>0, <1>2, <1>4, <1>6, <1>7, <2>0, <2>1, <2>3 DEF SInv, PlacesApart
    <2>6. NoneIsLost'
      <3> SUFFICES ASSUME NEW g \in Fibers
                   PROVE  \/ g \in finished' \/ g \in handles' \/ Queued(g)'
                          \/ \E v \in Workers : current'[v] = g \/ buffer'[v] = g
        BY DEF NoneIsLost
      <3>1. CASE g = p \/ g = q
        BY <2>1, <3>1
      <3>2. CASE g # p /\ g # q
        BY <1>0, <1>2, <1>6, <2>0, <2>1, <3>2 DEF SInv, NoneIsLost
      <3> QED BY <3>1, <3>2
    <2>7. SuspendRight'
      <3> SUFFICES ASSUME NEW v \in Workers, onSuspend'[v] # nullptr
                   PROVE  /\ current'[v] = nullptr
                          /\ pc'[onSuspend'[v]] \in {"load", "link", "cas", "cs"}
                          /\ onSuspend'[v] \in handles'
                          /\ \A u \in Workers : onSuspend'[u] = onSuspend'[v] => u = v
        BY DEF SuspendRight
      <3>1. v # w /\ onSuspend'[v] = onSuspend[v] /\ onSuspend[v] # q /\ onSuspend[v] # p
        BY <1>0, <1>2, <1>3, <1>4, <1>7 DEF SInv, SuspendRight
      <3>2. onSuspend[v] \in Procs /\ pc'[onSuspend[v]] = pc[onSuspend[v]]
        BY <1>0, <1>1, <3>1, RunnerIsFiber DEF SInv
      <3> QED BY <1>0, <2>0, <2>1, <3>1, <3>2 DEF SInv, SuspendRight
    <2>8. HandlesRight'
      BY <1>0, <1>1, <2>0 DEF SInv, HandlesRight, Live
    <2>9. BufferIsTransient'
      BY <1>0, <1>4, <1>7, <2>1 DEF SInv, BufferIsTransient
    <2> QED BY <1>6, <2>2, <2>4, <2>5, <2>6, <2>7, <2>8, <2>9 DEF SInv
  <1>8. CASE q \notin Fibers
    <2>1. UNCHANGED sched
      BY <1>0, <1>8 DEF sched, q
    <2>2. \A f \in Fibers : f \in woken' <=> f \in woken
      BY <1>1, <1>8
    <2>3. \A v \in Workers : onSuspend[v] # nullptr => pc'[onSuspend[v]] = pc[onSuspend[v]]
      BY <1>1, <1>3, RunnerIsFiber DEF SInv
    <2>4. \A f \in Fibers : pc'[f] = "parked" => pc[f] = "parked"
      BY <1>1
    <2> QED BY <2>1, <2>2, <2>3, <2>4, SchedulerRests
  <1> QED BY <1>7, <1>8

\* A thread schedules the fiber that it wakes.
LEMMA WakeFromThreadSInv == ASSUME Inv, SInv, NEW t \in Threads, WakeFromThread(t) PROVE SInv'
  <1>0. /\ t \in Procs /\ t \notin Fibers /\ Wake(t)
        /\ IF curr[t] \in Fibers THEN ScheduleHandle(curr[t]) ELSE UNCHANGED <<queue, handles>>
        /\ UNCHANGED <<current, buffer, onSuspend, inAwait, finished>>
    BY DEF WakeFromThread, Threads
  <1> DEFINE q == curr[t]
  <1>1. /\ \A f \in Fibers : pc'[f] = pc[f]
        /\ q \in Procs /\ woken' = woken \union {q}
    BY <1>0, WakeFrame
  <1>2. q \in Fibers =>
          /\ q \in handles /\ q \in inAwait /\ q # nullptr
          /\ \A v \in Workers : onSuspend[v] # q /\ current[v] # q /\ buffer[v] # q
          /\ ~ Queued(q) /\ q \notin finished
    BY <1>0, WokenHasHandle, RunnerIsFiber
  <1> HIDE DEF q
  <1>3. CASE q \in Fibers
    <2>0. queue' = Append(queue, q) /\ handles' = handles \ {q}
      BY <1>0, <1>3 DEF ScheduleHandle, q
    <2>1. queue' \in Seq(Fibers) /\ QueueIsSet' /\ \A y : Queued(y)' <=> Queued(y) \/ y = q
      BY <1>2, <1>3, <2>0, QueueAppends DEF SInv
    <2>2. SchedTypeOK'
      BY <1>0, <2>0, <2>1 DEF SInv, SchedTypeOK
    <2>3. WorkersApart'
      BY <1>0 DEF SInv, WorkersApart
    <2>4. PlacesApart'
      BY <1>0, <1>2, <1>3, <2>0, <2>1 DEF SInv, PlacesApart
    <2>5. NoneIsLost'
      BY <1>0, <2>0, <2>1 DEF SInv, NoneIsLost
    <2>6. SuspendRight'
      BY <1>0, <1>1, <1>2, <1>3, <2>0, RunnerIsFiber DEF SInv, SuspendRight
    <2>7. HandlesRight'
      BY <1>0, <1>1, <2>0 DEF SInv, HandlesRight, Live
    <2>8. BufferIsTransient'
      BY <1>0 DEF SInv, BufferIsTransient
    <2> QED BY <2>1, <2>2, <2>3, <2>4, <2>5, <2>6, <2>7, <2>8 DEF SInv
  <1>4. CASE q \notin Fibers
    <2>1. UNCHANGED sched
      BY <1>0, <1>4 DEF sched, q
    <2>2. \A f \in Fibers : f \in woken' <=> f \in woken
      BY <1>1, <1>4
    <2>3. \A v \in Workers : onSuspend[v] # nullptr => pc'[onSuspend[v]] = pc[onSuspend[v]]
      BY <1>1, RunnerIsFiber DEF SInv
    <2> QED BY <1>1, <2>1, <2>2, <2>3, SchedulerRests
  <1> QED BY <1>3, <1>4

LEMMA YieldSInv == ASSUME SInv, NEW w \in Workers, Yield(w) PROVE SInv'
  <1>0. PICK f \in Fibers :
          /\ f = current[w] /\ f \notin inAwait /\ f # nullptr
          /\ queue' = Append(queue, f) /\ current' = [current EXCEPT ![w] = nullptr]
          /\ UNCHANGED <<vars, buffer, onSuspend, handles, inAwait, finished>>
    BY RunnerIsFiber DEF Yield, RunsOn
  <1>1. /\ ~ Queued(f) /\ f \notin handles /\ f \notin finished
        /\ \A v \in Workers : buffer[v] # f /\ (v # w => current[v] # f)
    BY <1>0 DEF SInv, PlacesApart, WorkersApart
  <1>2. current'[w] = nullptr /\ \A v \in Workers : v # w => current'[v] = current[v]
    BY <1>0 DEF SInv, SchedTypeOK
  <1>3. queue' \in Seq(Fibers) /\ QueueIsSet' /\ \A y : Queued(y)' <=> Queued(y) \/ y = f
    BY <1>0, <1>1, QueueAppends DEF SInv
  <1>4. SchedTypeOK'
    BY <1>0, <1>3 DEF SInv, SchedTypeOK
  <1>5. WorkersApart'
    BY <1>0, <1>2 DEF SInv, WorkersApart
  <1>6. PlacesApart'
    BY <1>0, <1>1, <1>2, <1>3 DEF SInv, PlacesApart
  <1>7. NoneIsLost'
    BY <1>0, <1>2, <1>3 DEF SInv, NoneIsLost
  <1>8. SuspendRight'
    BY <1>0, <1>2 DEF SInv, SuspendRight, vars
  <1>9. HandlesRight'
    BY <1>0, MutexRests DEF SInv, HandlesRight
  <1>10. BufferIsTransient'
    BY <1>0, <1>2 DEF SInv, BufferIsTransient
  <1> QED BY <1>3, <1>4, <1>5, <1>6, <1>7, <1>8, <1>9, <1>10 DEF SInv

LEMMA FinishSInv == ASSUME SInv, NEW w \in Workers, Finish(w) PROVE SInv'
  <1>0. PICK f \in Fibers :
          /\ f = current[w] /\ f \notin inAwait /\ f # nullptr
          /\ finished' = finished \union {f} /\ current' = [current EXCEPT ![w] = nullptr]
          /\ UNCHANGED <<vars, queue, buffer, onSuspend, handles, inAwait>>
    BY RunnerIsFiber DEF Finish, RunsOn
  <1>1. /\ ~ Queued(f) /\ f \notin handles
        /\ \A v \in Workers : buffer[v] # f /\ (v # w => current[v] # f)
    BY <1>0 DEF SInv, PlacesApart, WorkersApart
  <1>2. current'[w] = nullptr /\ \A v \in Workers : v # w => current'[v] = current[v]
    BY <1>0 DEF SInv, SchedTypeOK
  <1>3. QueueIsSet' /\ \A y : Queued(y)' <=> Queued(y)
    BY <1>0, QueueStays DEF SInv
  <1>4. SchedTypeOK'
    BY <1>0 DEF SInv, SchedTypeOK
  <1>5. WorkersApart'
    BY <1>0, <1>2 DEF SInv, WorkersApart
  <1>6. PlacesApart'
    BY <1>0, <1>1, <1>2, <1>3 DEF SInv, PlacesApart
  <1>7. NoneIsLost'
    BY <1>0, <1>2, <1>3 DEF SInv, NoneIsLost
  <1>8. SuspendRight'
    BY <1>0, <1>2 DEF SInv, SuspendRight, vars
  <1>9. HandlesRight'
    BY <1>0, MutexRests DEF SInv, HandlesRight
  <1>10. BufferIsTransient'
    BY <1>0, <1>2 DEF SInv, BufferIsTransient
  <1> QED BY <1>3, <1>4, <1>5, <1>6, <1>7, <1>8, <1>9, <1>10 DEF SInv

-----------------------------------------------------------------------------
\* Every fiber begins in the run queue: n different ones of n are all of them.
LEMMA InitQueue ==
  ASSUME SchedInit
  PROVE  /\ queue \in Seq(Fibers) /\ QueueIsSet
         /\ \A f \in Fibers : Queued(f)
  <1> DEFINE n == Cardinality(Fibers)
  <1>1. n \in Nat
    BY FS_CardinalityType
  <1>2. queue \in [1 .. n -> Fibers] /\ \A i, j \in 1 .. n : i # j => queue[i] # queue[j]
    <2>1. queue \in Seqs!SetToSeqs(Fibers)
      BY DEF SchedInit
    <2>2. Seqs!SetToSeqs(Fibers) = {s \in [1 .. n -> Fibers] : \A i, j \in 1 .. n : i # j => s[i] # s[j]}
      <3>1. Seqs!Cardinality(Fibers) = Cardinality(Fibers)
        BY DEF Seqs!Cardinality, Cardinality
      <3> QED BY <3>1 DEF Seqs!SetToSeqs
    <2> QED BY <2>1, <2>2
  <1>3. IsFiniteSet(1 .. n) /\ Cardinality(1 .. n) = n
    BY <1>1, FS_Interval
  <1>4. queue \in Seq(Fibers) /\ Len(queue) = n
    BY <1>1, <1>2, SeqDef, LenProperties
  <1>5. queue \in Injection(1 .. n, Fibers)
    BY <1>2 DEF Injection, IsInjective
  <1>6. queue \in Surjection(1 .. n, Fibers)
    BY <1>3, <1>5, FS_Injection
  <1>7. \A f \in Fibers : \E i \in 1 .. n : queue[i] = f
    BY <1>6 DEF Surjection
  <1> QED BY <1>2, <1>4, <1>7 DEF Queued, QueueIsSet

LEMMA SchedInitSInv == SchedInit => SInv
  <1> SUFFICES ASSUME SchedInit PROVE SInv
    OBVIOUS
  <1>1. /\ \A w \in Workers : current[w] = nullptr /\ buffer[w] = nullptr /\ onSuspend[w] = nullptr
        /\ handles = {} /\ inAwait = {} /\ finished = {}
        /\ \A p \in Procs : pc[p] = "idle"
    BY DEF SchedInit, Init
  <1>2. SchedTypeOK
    BY InitQueue DEF SchedInit, SchedTypeOK
  <1>3. WorkersApart /\ PlacesApart /\ NoneIsLost
    BY <1>1, InitQueue DEF WorkersApart, PlacesApart, NoneIsLost
  <1>4. SuspendRight /\ HandlesRight /\ BufferIsTransient
    BY <1>1 DEF SuspendRight, HandlesRight, BufferIsTransient, Live
  <1> QED BY <1>2, <1>3, <1>4, InitQueue DEF SInv

LEMMA SchedNextSInv == ASSUME Inv, SInv, [SchedNext]_allVars PROVE SInv'
  <1>1. ASSUME NEW w \in Workers, Runtime(w) \/ FiberCalls(w) \/ Yield(w) \/ Finish(w)
        PROVE  SInv'
    <2>1. CASE FiberSteps(w) \/ FiberCalls(w)
      <3>1. current[w] \in Procs /\ UNCHANGED sched /\ (Call(current[w]) \/ Step(current[w]))
        BY <2>1, RunnerIsFiber DEF FiberSteps, FiberCalls, SInv
      <3> QED BY <3>1, OwnStepSInv
    <2> QED BY <1>1, <2>1, RunNextSInv, SuspendSInv, OnSuspendSInv, OnSuspendSchedulesSInv,
               AfterSuspendSInv, WakeFromFiberSInv, YieldSInv, FinishSInv DEF Runtime
  <1>2. ASSUME NEW t \in Threads, WakeFromThread(t) \/ ThreadCalls(t) \/ ThreadSteps(t)
        PROVE  SInv'
    <2>1. CASE ThreadCalls(t)
      <3>1. t \in Procs /\ t \notin Fibers /\ Call(t) /\ UNCHANGED sched
        BY <2>1 DEF ThreadCalls, Threads
      <3> QED BY <3>1, OwnStepSInv
    <2> QED BY <1>2, <2>1, WakeFromThreadSInv, ThreadStepsSInv
  <1>3. CASE UNCHANGED allVars
    <2>1. UNCHANGED sched /\ woken' = woken /\ pc' = pc
      BY <1>3 DEF allVars, vars
    <2> QED BY <2>1, SchedulerRests
  <1> QED BY <1>1, <1>2, <1>3 DEF SchedNext

\* The mutex under the scheduler is the mutex: what is proved of Spec holds of
\* fibers on workers too.
THEOREM WorkersUseMutex == SchedSpec => Spec
  <1>1. SchedInit => Init /\ SInv
    BY SchedInitSInv DEF SchedInit
  <1>2. Init => Inv
    BY InitInv
  <1>3. SInv /\ [SchedNext]_allVars => [Next]_vars
    BY SchedStepIsMutexStep DEF SInv
  <1>4. Inv /\ [Next]_vars => Inv'
    BY NextInv
  <1>5. Inv /\ SInv /\ [SchedNext]_allVars => SInv'
    BY SchedNextSInv
  <1> QED BY <1>1, <1>2, <1>3, <1>4, <1>5, PTL DEF SchedSpec, Spec

\* Every fiber is where the invariant says in every reachable state.
THEOREM SchedInvariance == SchedSpec => [](Inv /\ SInv)
  <1>1. SchedInit => SInv
    BY SchedInitSInv
  <1>2. Inv /\ SInv /\ [SchedNext]_allVars => SInv'
    BY SchedNextSInv
  <1> QED BY <1>1, <1>2, WorkersUseMutex, Invariance, PTL DEF SchedSpec

-----------------------------------------------------------------------------
\* Counting the places.

LEMMA OneOrNone ==
  ASSUME NEW S, \A x, y \in S : x = y
  PROVE  Cardinality(S) = IF S = {} THEN 0 ELSE 1
  <1>1. CASE S = {}
    BY <1>1, FS_EmptySet
  <1>2. CASE S # {}
    <2>1. PICK x \in S : TRUE
      BY <1>2
    <2>2. S = {x}
      BY <2>1
    <2> QED BY <1>2, <2>2, FS_Singleton
  <1> QED BY <1>1, <1>2

LEMMA CountOfPlaces ==
  ASSUME SInv, NEW f \in Fibers
  PROVE  Places(f) = IF f \in finished THEN 0 ELSE 1
  <1> DEFINE C == {w \in Workers : current[w] = f}
             B == {w \in Workers : buffer[w] = f}
             Q == {i \in DOMAIN queue : queue[i] = f}
             H == {f} \intersect handles
  <1>0. f # nullptr /\ DOMAIN queue = 1 .. Len(queue)
    BY LenProperties DEF SInv, SchedTypeOK
  <1>1. Cardinality(C) = IF C = {} THEN 0 ELSE 1
    BY <1>0, OneOrNone DEF SInv, WorkersApart
  <1>2. Cardinality(B) = IF B = {} THEN 0 ELSE 1
    BY <1>0, OneOrNone DEF SInv, WorkersApart
  <1>3. Cardinality(Q) = IF Q = {} THEN 0 ELSE 1
    BY <1>0, OneOrNone DEF SInv, QueueIsSet
  <1>4. Cardinality(H) = IF H = {} THEN 0 ELSE 1
    BY OneOrNone
  <1>5. Places(f) = Cardinality(C) + Cardinality(B) + Cardinality(Q) + Cardinality(H)
    BY DEF Places
  <1>6. /\ C = {} <=> \A w \in Workers : current[w] # f
        /\ B = {} <=> \A w \in Workers : buffer[w] # f
        /\ Q = {} <=> ~ Queued(f)
        /\ H = {} <=> f \notin handles
    BY <1>0 DEF Queued
  <1> HIDE DEF C, B, Q, H
  <1>7. /\ f \in finished => C = {} /\ B = {} /\ Q = {} /\ H = {}
        /\ f \notin finished => C # {} \/ B # {} \/ Q # {} \/ H # {}
        /\ C # {} => B = {} /\ Q = {} /\ H = {}
        /\ B # {} => Q = {} /\ H = {}
        /\ Q # {} => H = {}
    BY <1>0, <1>6 DEF SInv, WorkersApart, PlacesApart, NoneIsLost
  <1> QED BY <1>1, <1>2, <1>3, <1>4, <1>5, <1>7

\* No fiber is lost, none is in two places, and a switch never overwrites the
\* buffer, for any workers, threads and fibers (Fiber/Core/Handle.cpp,
\* Synchronization/Awaiters/FiberAwaiter.cpp).
THEOREM FibersAreInOnePlace == SchedSpec => []FiberIsInOnePlace
  <1>1. SInv => FiberIsInOnePlace
    BY CountOfPlaces DEF SInv, FiberIsInOnePlace
  <1> QED BY <1>1, SchedInvariance, PTL

\* Whoever is about to wake a fiber finds its handle valid (Fiber/Core/Awaiter.hpp 14, 18).
THEOREM WakerFindsHandle == SchedSpec => []WakeFindsHandle
  <1>1. Inv /\ SInv => WakeFindsHandle
    BY DEF Inv, HandOverIsOnce, SInv, HandlesRight, WakeFindsHandle, HandsTo
  <1> QED BY <1>1, SchedInvariance, PTL

\* The fibers on workers have a fair mutex with no lost waiter and no dangling awaiter.
THEOREM MutexOfWorkersIsRight == SchedSpec => IsFifoLock /\ []NoLostWaiter /\ []AwaiterAlive
  BY WorkersUseMutex, FiberMutexImplementsFifoLock, WaitersAreNotLost, AwaitersAreAlive, PTL
=============================================================================
