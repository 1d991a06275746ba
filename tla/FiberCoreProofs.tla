-------------------------- MODULE FiberCoreProofs ---------------------------
(***************************************************************************)
(* Proofs about the life of fibers and about the pool of their stacks, for *)
(* any threads and any finite heap of stacks: no stack is shared, and      *)
(* every activity is in one place and comes back to the Run, and the       *)
(* thread, that waits for it.                                              *)
(*                                                                         *)
(* The invariant says, besides the pool's, who is saved where and why (the *)
(* caller of a Run in its local; a fiber that waits in its coro_context_), *)
(* who holds a fiber that waits (the scheduler, an awaiter, the switch     *)
(* buffer, the Run that it comes back to, the one that destroys it), and   *)
(* that the callers of the fibers that do not wait lead to their thread.   *)
(***************************************************************************)
EXTENDS FiberCore, FiniteSetTheorems, TLAPS

USE StackPoolAssumption DEF Labels

(***************************************************************************)
(* The pool of stacks by itself: whatever its callers lease, return and    *)
(* clear, the nodes in the memory of the free stacks spell one list of     *)
(* them.  The lemmas of its actions are used for the fibers' steps too.    *)
(***************************************************************************)
\* Who has a stack in hand is in the middle of a call that has put it there.
HandsMatchCalls ==
    /\ \A x \in Procs : hand[x] # nullptr <=> pc[x] \in {"got", "free", "link", "destroy"}
    /\ \A x \in Procs : pc[x] \in {"got", "free"} => memory[hand[x]] = "raw"
    /\ \A x \in Procs : pc[x] = "link" => memory[hand[x]] = "node"
    /\ \A x \in Procs : pc[x] = "destroy" => memory[hand[x]] = "fiber"

PoolIInv == StackHasOneUser /\ HandsMatchCalls

\* The free stacks can be counted.
LEMMA PooledIsFinite == IsFiniteSet(Pooled) /\ Cardinality(Pooled) \in Nat
  <1>1. Pooled \in SUBSET Stacks
    BY DEF Pooled
  <1>2. IsFiniteSet(Pooled)
    BY <1>1, FS_Subset
  <1> QED BY <1>2, FS_CardinalityType

\* A step that leaves the free stacks and their nodes alone leaves the list alone.
LEMMA ListIsKept ==
  ASSUME PoolIsList, Pooled' = Pooled, stack_of_stack_' = stack_of_stack_,
         \A s \in Pooled : next'[s] = next[s]
  PROVE  PoolIsList'
  <1> DEFINE n == Cardinality(Pooled)
  <1>1. PICK l \in [1 .. n -> Pooled] : Spells(l, n)
    BY DEF PoolIsList
  <1>2. Spells(l, n)'
    BY <1>1 DEF Spells
  <1> QED BY <1>1, <1>2 DEF PoolIsList

\* The head is a free stack.
LEMMA HeadIsPooled == ASSUME PoolIsList, stack_of_stack_ # nullptr PROVE stack_of_stack_ \in Pooled
  <1>1. PICK l \in [1 .. Cardinality(Pooled) -> Pooled] : Spells(l, Cardinality(Pooled))
    BY DEF PoolIsList
  <1>2. Cardinality(Pooled) # 0 /\ stack_of_stack_ = l[1]
    BY <1>1 DEF Spells
  <1> QED BY <1>1, <1>2, PooledIsFinite

\* The head leaves the list, as in AllocateStack and Clear.
LEMMA ListLosesHead ==
  ASSUME PoolIsList, stack_of_stack_ # nullptr,
         Pooled' = Pooled \ {stack_of_stack_}, stack_of_stack_' = next[stack_of_stack_],
         \A s \in Pooled' : next'[s] = next[s]
  PROVE  PoolIsList'
  <1>0. PICK n : n = Cardinality(Pooled)
    OBVIOUS
  <1>1. PICK l \in [1 .. n -> Pooled] : Spells(l, n)
    BY <1>0 DEF PoolIsList
  <1>2. n \in Nat /\ n # 0 /\ l[1] = stack_of_stack_ /\ l[1] \in Pooled
    BY <1>0, <1>1, PooledIsFinite DEF Spells
  <1>3. Cardinality(Pooled') = n - 1
    BY <1>0, <1>2, PooledIsFinite, FS_RemoveElement
  <1>m. PICK m : m = [i \in 1 .. n - 1 |-> l[i + 1]]
    OBVIOUS
  <1>4. m \in [1 .. n - 1 -> Pooled']
    <2>1. \A i \in 1 .. n - 1 : l[i + 1] \in Pooled /\ l[i + 1] # l[1]
      BY <1>1, <1>2 DEF Spells
    <2> QED BY <1>2, <1>m, <2>1
  <1>5. next[stack_of_stack_] = IF n = 1 THEN nullptr ELSE l[2]
    BY <1>1, <1>2 DEF Spells
  <1>6. \A i \in 1 .. n - 1 : next'[m[i]] = IF i = n - 1 THEN nullptr ELSE m[i + 1]
    <2>1. SUFFICES ASSUME NEW i \in 1 .. n - 1
                   PROVE  next'[m[i]] = IF i = n - 1 THEN nullptr ELSE m[i + 1]
      OBVIOUS
    <2>2. m[i] \in Pooled' /\ m[i] = l[i + 1] /\ i + 1 \in 1 .. n
      BY <1>2, <1>4, <1>m
    <2>3. next'[m[i]] = next[l[i + 1]]
      BY <2>2
    <2>4. next[l[i + 1]] = IF i + 1 = n THEN nullptr ELSE l[i + 2]
      BY <1>1, <1>2, <2>2 DEF Spells
    <2> QED BY <1>2, <1>m, <2>3, <2>4
  <1>7. \A i, j \in 1 .. n - 1 : m[i] = m[j] => i = j
    BY <1>1, <1>2, <1>m DEF Spells
  <1>8. stack_of_stack_' = IF n - 1 = 0 THEN nullptr ELSE m[1]
    BY <1>2, <1>5, <1>m
  <1>9. Spells(m, n - 1)'
    BY <1>6, <1>7, <1>8 DEF Spells
  <1> QED BY <1>3, <1>4, <1>9 DEF PoolIsList

\* A stack becomes the head of the list, as in FreeStack.
LEMMA ListGetsHead ==
  ASSUME PoolIsList, NEW s \in Stacks, s \notin Pooled, Pooled' = Pooled \union {s},
         stack_of_stack_' = s, next'[s] = stack_of_stack_, \A t \in Pooled : next'[t] = next[t]
  PROVE  PoolIsList'
  <1>0. PICK n : n = Cardinality(Pooled)
    OBVIOUS
  <1>1. PICK l \in [1 .. n -> Pooled] : Spells(l, n)
    BY <1>0 DEF PoolIsList
  <1>2. n \in Nat /\ Cardinality(Pooled') = n + 1
    BY <1>0, PooledIsFinite, FS_AddElement
  <1>m. PICK m : m = [i \in 1 .. n + 1 |-> IF i = 1 THEN s ELSE l[i - 1]]
    OBVIOUS
  <1>3. m \in [1 .. n + 1 -> Pooled']
    BY <1>2, <1>m
  <1>4. \A i \in 1 .. n + 1 : next'[m[i]] = IF i = n + 1 THEN nullptr ELSE m[i + 1]
    <2>1. SUFFICES ASSUME NEW i \in 1 .. n + 1
                   PROVE  next'[m[i]] = IF i = n + 1 THEN nullptr ELSE m[i + 1]
      OBVIOUS
    <2>2. CASE i = 1
      <3>1. m[i] = s /\ next'[m[i]] = stack_of_stack_
        BY <2>2, <1>2, <1>m
      <3>2. stack_of_stack_ = IF n = 0 THEN nullptr ELSE l[1]
        BY <1>1 DEF Spells
      <3> QED BY <1>2, <1>m, <2>2, <3>1, <3>2
    <2>3. CASE i # 1
      <3>1. i - 1 \in 1 .. n /\ m[i] = l[i - 1] /\ l[i - 1] \in Pooled
        BY <1>2, <1>m, <2>3
      <3>2. next[l[i - 1]] = IF i - 1 = n THEN nullptr ELSE l[i]
        BY <1>1, <1>2, <3>1 DEF Spells
      <3> QED BY <1>2, <1>m, <2>3, <3>1, <3>2
    <2> QED BY <2>2, <2>3
  <1>5. \A i, j \in 1 .. n + 1 : m[i] = m[j] => i = j
    <2>1. SUFFICES ASSUME NEW i \in 1 .. n + 1, NEW j \in 1 .. n + 1, m[i] = m[j] PROVE i = j
      OBVIOUS
    <2>2. \A k \in 2 .. n + 1 : m[k] = l[k - 1] /\ k - 1 \in 1 .. n /\ m[k] # s
      <3>1. SUFFICES ASSUME NEW k \in 2 .. n + 1
                     PROVE  m[k] = l[k - 1] /\ k - 1 \in 1 .. n /\ m[k] # s
        OBVIOUS
      <3>2. k \in 1 .. n + 1 /\ k # 1 /\ k - 1 \in 1 .. n
        BY <1>2
      <3>3. m[k] = l[k - 1]
        BY <1>m, <3>2
      <3>4. l[k - 1] \in Pooled
        BY <1>1, <3>2
      <3> QED BY <3>2, <3>3, <3>4
    <2>3. \A h, k \in 1 .. n : l[h] = l[k] => h = k
      BY <1>1 DEF Spells
    <2>4. m[1] = s
      BY <1>2, <1>m
    <2>5. CASE i = 1 \/ j = 1
      BY <1>2, <2>1, <2>2, <2>4, <2>5
    <2>6. CASE i # 1 /\ j # 1
      <3>1. i \in 2 .. n + 1 /\ j \in 2 .. n + 1
        BY <1>2, <2>6
      <3>2. i - 1 \in 1 .. n /\ j - 1 \in 1 .. n /\ l[i - 1] = l[j - 1]
        BY <2>1, <2>2, <3>1
      <3>3. i - 1 = j - 1
        BY <2>3, <3>2
      <3> QED BY <1>2, <3>1, <3>3
    <2> QED BY <2>5, <2>6
  <1>6. m[1] = s /\ n + 1 # 0
    BY <1>2, <1>m
  <1>7. Spells(m, n + 1)'
    BY <1>4, <1>5, <1>6 DEF Spells
  <1> QED BY <1>2, <1>3, <1>7 DEF PoolIsList

-----------------------------------------------------------------------------
\* The pool begins with one free stack or none.
LEMMA InitIInv == PoolInit => PoolIInv
  <1> SUFFICES ASSUME PoolInit PROVE PoolIInv
    OBVIOUS
  <1>1. Pooled = IF stack_of_stack_ = nullptr THEN {} ELSE {stack_of_stack_}
    BY DEF PoolInit, Pooled, InHand
  <1>2. PoolTypeOK /\ HandsAreFull /\ HandsMatchCalls
    BY DEF PoolInit, PoolTypeOK, HandsAreFull, HandsMatchCalls, InHand
  <1>3. PoolIsList
    <2>1. CASE stack_of_stack_ = nullptr
      <3>1. Pooled = {} /\ Cardinality(Pooled) = 0
        BY <1>1, <2>1, FS_EmptySet
      <3>2. PICK l : l = [i \in 1 .. 0 |-> nullptr]
        OBVIOUS
      <3>3. l \in [1 .. 0 -> Pooled] /\ Spells(l, 0)
        BY <2>1, <3>2 DEF Spells
      <3> QED BY <3>1, <3>3 DEF PoolIsList
    <2>2. CASE stack_of_stack_ # nullptr
      <3>1. Pooled = {stack_of_stack_} /\ Cardinality(Pooled) = 1
        BY <1>1, <2>2, FS_Singleton
      <3>2. PICK l : l = [i \in 1 .. 1 |-> stack_of_stack_]
        OBVIOUS
      <3>3. l \in [1 .. 1 -> Pooled]
        BY <3>1, <3>2
      <3>4. next[stack_of_stack_] = nullptr
        BY <2>2 DEF PoolInit
      <3>5. Spells(l, 1)
        BY <2>2, <3>2, <3>4 DEF Spells
      <3> QED BY <3>1, <3>3, <3>5 DEF PoolIsList
    <2> QED BY <2>1, <2>2
  <1> QED BY <1>2, <1>3 DEF PoolIInv, StackHasOneUser

\* Take gives the head of the list to the caller, or sends it to new.
LEMMA TakeIInv == ASSUME PoolIInv, NEW x \in Procs, Take(x) PROVE PoolIInv'
  <1> USE DEF PoolIInv, StackHasOneUser
  <1>1. PoolTypeOK' /\ HandsAreFull' /\ HandsMatchCalls'
    <2>1. CASE stack_of_stack_ = nullptr
      BY <2>1 DEF Take, Goto, PoolTypeOK, HandsAreFull, HandsMatchCalls, InHand
    <2>2. CASE stack_of_stack_ # nullptr
      <3>1. stack_of_stack_ \in Pooled
        BY <2>2, HeadIsPooled
      <3>2. PoolTypeOK'
        BY <2>2 DEF Take, TakeOff, Goto, PoolTypeOK
      <3>3. HandsAreFull' /\ HandsMatchCalls'
        BY <2>2, <3>1, <3>2 DEF Take, TakeOff, Goto, PoolTypeOK, HandsAreFull, HandsMatchCalls, InHand, Pooled
      <3> QED BY <3>2, <3>3
    <2> QED BY <2>1, <2>2
  <1>2. PoolIsList'
    <2>1. CASE stack_of_stack_ = nullptr
      <3>1. Pooled' = Pooled
        BY <2>1 DEF Take, Pooled, InHand
      <3> QED BY <2>1, <3>1, ListIsKept DEF Take
    <2>2. CASE stack_of_stack_ # nullptr
      <3>1. Pooled' = Pooled \ {stack_of_stack_}
        BY <2>2, HeadIsPooled DEF Take, TakeOff, Pooled, InHand, PoolTypeOK, HandsMatchCalls
      <3>2. stack_of_stack_' = next[stack_of_stack_] /\ \A s \in Pooled' : next'[s] = next[s]
        BY <2>2, <3>1 DEF Take, TakeOff, PoolTypeOK, Pooled
      <3> QED BY <2>2, <3>1, <3>2, ListLosesHead
    <2> QED BY <2>1, <2>2
  <1> QED BY <1>1, <1>2

\* New gives a stack that is not in the heap yet.
LEMMA NewIInv == ASSUME PoolIInv, NEW x \in Procs, New(x) PROVE PoolIInv'
  <1> USE DEF PoolIInv, StackHasOneUser
  <1>1. PoolTypeOK' /\ HandsAreFull' /\ HandsMatchCalls'
    BY DEF New, Goto, PoolTypeOK, HandsAreFull, HandsMatchCalls, InHand
  <1>2. Pooled' = Pooled
    BY DEF New, Pooled, InHand, PoolTypeOK, HandsAreFull, HandsMatchCalls
  <1>3. PoolIsList'
    BY <1>2, ListIsKept DEF New
  <1> QED BY <1>1, <1>3

\* The node is made while the stack is in its caller's hand.
LEMMA MakeNodeIInv == ASSUME PoolIInv, NEW x \in Procs, MakeNode(x) PROVE PoolIInv'
  <1> USE DEF PoolIInv, StackHasOneUser
  <1>1. PoolTypeOK' /\ HandsAreFull' /\ HandsMatchCalls'
    BY DEF MakeNode, Goto, PoolTypeOK, HandsAreFull, HandsMatchCalls, InHand
  <1>2. Pooled' = Pooled /\ hand[x] \notin Pooled
    BY DEF MakeNode, Pooled, InHand, PoolTypeOK, HandsAreFull, HandsMatchCalls
  <1>3. PoolIsList'
    BY <1>2, ListIsKept DEF MakeNode, PoolTypeOK, Pooled
  <1> QED BY <1>1, <1>3

\* Link moves the stack from the hand to the head of the list.
LEMMA LinkIInv == ASSUME PoolIInv, NEW x \in Procs, Link(x) PROVE PoolIInv'
  <1> USE DEF PoolIInv, StackHasOneUser
  <1>1. hand[x] \in Stacks /\ hand[x] \notin Pooled /\ memory[hand[x]] = "node"
    BY DEF Link, PoolTypeOK, HandsMatchCalls, Pooled, InHand
  <1>2. PoolTypeOK' /\ HandsAreFull' /\ HandsMatchCalls'
    BY <1>1 DEF Link, Goto, PoolTypeOK, HandsAreFull, HandsMatchCalls, InHand
  <1>3. Pooled' = Pooled \union {hand[x]}
    BY <1>1 DEF Link, Pooled, InHand, PoolTypeOK, HandsAreFull
  <1>4. stack_of_stack_' = hand[x] /\ next'[hand[x]] = stack_of_stack_
        /\ \A t \in Pooled : next'[t] = next[t]
    BY <1>1 DEF Link, PoolTypeOK, Pooled
  <1>5. PoolIsList'
    BY <1>1, <1>3, <1>4, ListGetsHead
  <1> QED BY <1>2, <1>5

\* The inline provider frees the stack that its caller has in hand.
LEMMA FreeInlineIInv == ASSUME PoolIInv, NEW x \in Procs, FreeInline(x) PROVE PoolIInv'
  <1> USE DEF PoolIInv, StackHasOneUser
  <1>1. PoolTypeOK' /\ HandsAreFull' /\ HandsMatchCalls'
    BY DEF FreeInline, Goto, PoolTypeOK, HandsAreFull, HandsMatchCalls, InHand
  <1>2. Pooled' = Pooled
    BY DEF FreeInline, Pooled, InHand, PoolTypeOK, HandsAreFull, HandsMatchCalls
  <1>3. PoolIsList'
    BY <1>2, ListIsKept DEF FreeInline
  <1> QED BY <1>1, <1>3

\* A turn of Clear frees the head of the list.
LEMMA ClearNextIInv == ASSUME PoolIInv, NEW x \in Procs, ClearNext(x) PROVE PoolIInv'
  <1> USE DEF PoolIInv, StackHasOneUser
  <1>1. stack_of_stack_ \in Pooled
    BY HeadIsPooled DEF ClearNext
  <1>2. PoolTypeOK' /\ HandsAreFull' /\ HandsMatchCalls'
    BY <1>1 DEF ClearNext, PoolTypeOK, HandsAreFull, HandsMatchCalls, InHand, Pooled
  <1>3. Pooled' = Pooled \ {stack_of_stack_}
    BY <1>1 DEF ClearNext, Pooled, InHand, PoolTypeOK
  <1>4. stack_of_stack_' = next[stack_of_stack_] /\ \A s \in Pooled' : next'[s] = next[s]
    BY <1>3 DEF ClearNext, PoolTypeOK, Pooled
  <1>5. PoolIsList'
    BY <1>3, <1>4, ListLosesHead DEF ClearNext
  <1> QED BY <1>2, <1>5

\* The other steps change the counters, the lock and where their caller is.
LEMMA OtherIInv ==
  ASSUME PoolIInv, NEW x \in Procs,
         Begin(x) \/ Return(x) \/ (pc[x] = "body" /\ Clear(x)) \/ Count(x) \/ Lease(x)
            \/ Unlease(x) \/ ClearLeased(x) \/ Cleared(x)
  PROVE  PoolIInv'
  <1> USE DEF PoolIInv, StackHasOneUser
  <1>1. UNCHANGED <<pooling, memory, next, stack_of_stack_, hand>>
    BY DEF Begin, Return, AllocateStack, Clear, Count, Lease, Unlease, ClearLeased, Cleared, poolState
  <1>2. PoolTypeOK' /\ HandsMatchCalls'
    BY <1>1 DEF Begin, Return, AllocateStack, Clear, Count, Lease, Unlease, ClearLeased, Cleared, Goto,
                PoolTypeOK, HandsMatchCalls, poolState
  <1>3. HandsAreFull' /\ Pooled' = Pooled
    BY <1>1 DEF HandsAreFull, InHand, Pooled
  <1>4. PoolIsList'
    BY <1>1, <1>3, ListIsKept
  <1> QED BY <1>2, <1>3, <1>4

\* In every reachable state each stack of the heap has one user: the list of the
\* pool, one caller or a fiber (StackPool.cpp 24-58).
THEOREM StacksAreNotShared == PoolSpec => []StackHasOneUser
  <1>1. PoolInit => PoolIInv
    BY InitIInv
  <1>2. PoolIInv /\ [PoolNext]_poolVars => PoolIInv'
    <2>1. SUFFICES ASSUME PoolIInv, [PoolNext]_poolVars PROVE PoolIInv'
      OBVIOUS
    <2>2. CASE UNCHANGED poolVars
      <3>1. UNCHANGED <<memory, next, stack_of_stack_, hand, pc, pooling, lock_>> /\ Pooled' = Pooled
        BY <2>2 DEF poolVars, poolState, Pooled, InHand
      <3>2. PoolIsList'
        BY <2>1, <3>1, ListIsKept DEF PoolIInv, StackHasOneUser
      <3> QED BY <2>1, <3>1, <3>2 DEF PoolIInv, StackHasOneUser, PoolTypeOK, HandsAreFull, HandsMatchCalls, InHand
    <2>3. CASE PoolNext
      BY <2>1, <2>3, TakeIInv, NewIInv, MakeNodeIInv, LinkIInv, FreeInlineIInv, ClearNextIInv, OtherIInv
         DEF PoolNext, PoolStep
    <2> QED BY <2>1, <2>2, <2>3
  <1>3. PoolIInv => StackHasOneUser
    BY DEF PoolIInv
  <1> QED BY <1>1, <1>2, <1>3, PTL DEF PoolSpec

-----------------------------------------------------------------------------
\* The life of fibers.

USE FiberCoreAssumption

Executes(x) == \E w \in Threads : running[w] = x
Waits(f)    == context[coro_context(f)] = f
Calls(x)    == context[caller_context(x)] = x

FiberTypeOK ==
    /\ TypeOK
    /\ running \in [Threads -> Activities]
    /\ gCurrentFiber \in [Threads -> Stacks \union {nullptr}]
    /\ gSwitchFiberBuffer \in [Threads -> Stacks \union {nullptr}]

\* Who is an activity executes, waits or is in the Run of another, one of these.
SavedRight ==
    /\ \A v, w \in Threads : running[v] = running[w] => v = w
    /\ \A s \in Stacks : context[coro_context(s)] \in {s, nullptr}
    /\ \A x \in Activities : context[caller_context(x)] \in {x, nullptr}
    /\ \A x \in Activities : Calls(x) => pc[x] = "run" /\ ~ Executes(x)
    /\ \A s \in Stacks : Waits(s) =>
          memory[s] = "fiber" /\ pc[s] \in {"body", "resumed", "yield", "await", "end"} /\ ~ Executes(s)
    /\ \A x \in Activities : x \in Threads \/ memory[x] = "fiber" =>
          Executes(x) \/ Calls(x) \/ (x \in Stacks /\ Waits(x))
    /\ \A s \in Stacks : memory[s] # "fiber" => pc[s] = "body" /\ ~ Executes(s) /\ ~ Calls(s)
    /\ \A s \in Stacks : s \in completed_ <=> pc[s] = "end"

\* A fiber that waits is held by one, who knows why it waits.
HeldRight ==
    /\ \A f \in scheduled : Waits(f) /\ pc[f] \in {"body", "resumed"} /\ f \notin awaiting
    /\ \A f \in awaiting : Waits(f) /\ pc[f] = "resumed"
    /\ \A w \in Threads : LET f == gSwitchFiberBuffer[w] IN f # nullptr =>
          /\ Waits(f) /\ pc[f] = "body" /\ f \notin scheduled
          /\ pc[running[w]] = "resumed"
          /\ \A v \in Threads : gSwitchFiberBuffer[v] = f => v = w
    /\ \A w \in Threads : LET f == gCurrentFiber[w] IN pc[running[w]] = "run" =>
          /\ f \in Stacks /\ Waits(f) /\ pc[f] \in {"yield", "await", "end"}
          /\ \A v \in Threads : pc[running[v]] = "run" /\ gCurrentFiber[v] = f => v = w
          /\ \A x \in Activities : hand[x] # f
    /\ \A x \in Activities : pc[x] = "destroy" => Waits(hand[x]) /\ pc[hand[x]] = "end"

\* The callers lead to the thread, and gCurrentFiber is kept beside them.
CallersRight ==
    /\ \A s \in Active : \E y \in Activities : caller_context_[s] = caller_context(y) /\ Calls(y)
    /\ \A s, t \in Active : caller_context_[s] = caller_context_[t] => s = t
    /\ \E home \in [Activities -> Threads] : IsHome(home)
    /\ \A w \in Threads : pc[running[w]] # "run" =>
          gCurrentFiber[w] = IF running[w] \in Stacks THEN running[w] ELSE nullptr
    /\ \A x \in Activities : pc[x] = "run" => initial[x] = IF x \in Stacks THEN x ELSE nullptr

IInv == PoolIInv /\ FiberTypeOK /\ SavedRight /\ HeldRight /\ CallersRight

PoolLabels == {"body", "allocate", "count", "lease", "new", "got", "free", "link", "unlease", "clear", "delete"}

-----------------------------------------------------------------------------
\* The contexts are different from each other and from nullptr.
LEMMA ContextNames ==
  /\ \A s \in Stacks : coro_context(s) \in Contexts /\ coro_context(s) # nullptr
  /\ \A x \in Activities : caller_context(x) \in Contexts /\ caller_context(x) # nullptr
  /\ \A s, t : coro_context(s) = coro_context(t) => s = t
  /\ \A x, y : caller_context(x) = caller_context(y) => x = y
  /\ \A s, x : coro_context(s) # caller_context(x)
  /\ \A k \in Contexts : \/ \E s \in Stacks : k = coro_context(s)
                         \/ \E x \in Activities : k = caller_context(x)
  /\ Threads \subseteq Activities /\ Stacks \subseteq Activities /\ Activities = Procs
  /\ nullptr \notin Activities
  <1>1. /\ \A s \in Stacks : coro_context(s) \in Contexts
        /\ \A x \in Activities : caller_context(x) \in Contexts
        /\ \A k \in Contexts : \/ \E s \in Stacks : k = coro_context(s)
                               \/ \E x \in Activities : k = caller_context(x)
    BY DEF Contexts
  <1>2. /\ \A s, t : coro_context(s) = coro_context(t) => s = t
        /\ \A x, y : caller_context(x) = caller_context(y) => x = y
        /\ \A s, x : coro_context(s) # caller_context(x)
    BY DEF coro_context, caller_context
  <1>3. nullptr \notin Contexts /\ nullptr \notin Activities /\ Activities = Procs
    BY ContextAssumption, FiberCoreAssumption, StackPoolAssumption DEF Activities
  <1>4. Threads \subseteq Activities /\ Stacks \subseteq Activities
    BY DEF Activities
  <1> QED BY <1>1, <1>2, <1>3, <1>4

LEMMA ActivitiesCall == Activities = Procs /\ Threads \subseteq Activities /\ Stacks \subseteq Activities
  BY DEF Activities

\* The caller of a coroutine whose caller_context_ is that of y is y.
LEMMA CallerIs ==
  ASSUME NEW s \in Stacks, NEW y \in Activities, caller_context_[s] = caller_context(y)
  PROVE  CallerOf(s) = y
  <1>1. s \notin Threads /\ caller_context(y) # nullptr
    BY ContextNames, FiberCoreAssumption
  <1> QED BY <1>1 DEF CallerOf, caller_context

\* A step that does not touch the nodes of the pool's list keeps the pool right.
LEMMA PoolIsKept ==
  ASSUME PoolIInv, PoolTypeOK', HandsAreFull', HandsMatchCalls',
         UNCHANGED <<next, stack_of_stack_>>,
         \A s \in Stacks : memory'[s] = "node" <=> memory[s] = "node",
         \A s \in Stacks : memory[s] = "node" => (InHand(s)' <=> InHand(s))
  PROVE  PoolIInv'
  <1>1. Pooled' = Pooled
    BY DEF Pooled
  <1>2. PoolIsList'
    BY <1>1, ListIsKept DEF PoolIInv, StackHasOneUser
  <1> QED BY <1>2 DEF PoolIInv, StackHasOneUser

\* Operations of the pool keep it right, in the hands of threads and fibers too.
LEMMA PoolStepPoolIInv ==
  ASSUME PoolIInv, NEW x \in Procs, Begin(x) \/ (pc[x] = "body" /\ Clear(x)) \/ PoolStep(x)
  PROVE  PoolIInv'
  BY TakeIInv, NewIInv, MakeNodeIInv, LinkIInv, FreeInlineIInv, ClearNextIInv, OtherIInv DEF PoolStep

\* What they leave alone: fibers, other callers, and what is not theirs in pc.
LEMMA PoolStepFacts ==
  ASSUME PoolIInv, NEW x \in Procs, Begin(x) \/ (pc[x] = "body" /\ Clear(x)) \/ PoolStep(x)
  PROVE  /\ pc[x] \in PoolLabels
         /\ pc[x] = "body" => ~ PoolStep(x)
         /\ \E l \in PoolLabels : pc' = [pc EXCEPT ![x] = l]
         /\ \A s \in Stacks : memory'[s] = "fiber" <=> memory[s] = "fiber"
         /\ \A y \in Procs : y # x => hand'[y] = hand[y]
         /\ \A s \in Stacks : memory'[s] = "fiber" => hand'[x] # s
  <1> USE DEF PoolLabels, Goto
  <1>t. PoolTypeOK /\ PoolIsList /\ HandsAreFull /\ HandsMatchCalls
    BY DEF PoolIInv, StackHasOneUser
  <1>1. PoolStep(x) => pc[x] \in PoolLabels \ {"body"}
    BY DEF PoolStep, Take, Count, Lease, New, MakeNode, Link, Unlease, FreeInline,
           ClearLeased, ClearNext, Cleared
  <1>2. pc[x] \in PoolLabels /\ (Begin(x) \/ Clear(x) => UNCHANGED <<memory, hand>>)
    BY <1>1 DEF Begin, Clear, AllocateStack, poolState
  <1>3. \E l \in PoolLabels : pc' = [pc EXCEPT ![x] = l]
    <2>1. CASE ClearNext(x)
      BY <2>1, <1>t DEF ClearNext, PoolTypeOK
    <2> QED BY <2>1 DEF Begin, AllocateStack, Clear, PoolStep, Take, Count, Lease, New, MakeNode, Link,
                        Unlease, FreeInline, ClearLeased, Cleared
  <1>4. \A s \in Stacks : memory[s] = "fiber" => hand[x] # s
    <2>1. pc[x] # "destroy"
      BY <1>2
    <2> QED BY <1>t, <2>1 DEF PoolTypeOK, HandsMatchCalls
  <1>5. /\ \A s \in Stacks : memory'[s] = "fiber" <=> memory[s] = "fiber"
        /\ \A y \in Procs : y # x => hand'[y] = hand[y]
        /\ \A s \in Stacks : memory'[s] = "fiber" => hand'[x] # s
    <2>1. CASE Take(x)
      <3>1. CASE stack_of_stack_ = nullptr
        <4>1. UNCHANGED <<memory, hand>>
          BY <2>1, <3>1 DEF Take
        <4> QED BY <1>4, <4>1
      <3>2. CASE stack_of_stack_ # nullptr
        <4>1. memory[stack_of_stack_] = "node" /\ stack_of_stack_ \in Stacks
          BY <1>t, <3>2, HeadIsPooled DEF Pooled
        <4> QED BY <1>t, <2>1, <3>2, <4>1 DEF Take, TakeOff, PoolTypeOK
      <3> QED BY <3>1, <3>2
    <2>2. CASE ClearNext(x)
      <3>1. memory[stack_of_stack_] = "node" /\ stack_of_stack_ \in Stacks
        BY <1>t, <2>2, HeadIsPooled DEF Pooled, ClearNext
      <3>2. memory' = [memory EXCEPT ![stack_of_stack_] = "none"] /\ hand' = hand
        BY <2>2 DEF ClearNext
      <3> QED BY <1>4, <1>t, <3>1, <3>2 DEF PoolTypeOK
    <2>3. CASE New(x)
      BY <1>t, <2>3 DEF New, PoolTypeOK
    <2>4. CASE MakeNode(x) \/ Link(x) \/ FreeInline(x)
      <3>1. memory[hand[x]] # "fiber" /\ hand[x] \in Stacks
        BY <1>t, <2>4 DEF MakeNode, Link, FreeInline, PoolTypeOK, HandsMatchCalls
      <3> QED BY <1>4, <1>t, <2>4, <3>1 DEF MakeNode, Link, FreeInline, PoolTypeOK
    <2>5. CASE Begin(x) \/ Clear(x) \/ Count(x) \/ Lease(x) \/ Unlease(x) \/ ClearLeased(x) \/ Cleared(x)
      <3>1. UNCHANGED <<memory, hand>>
        BY <1>2, <2>5 DEF Count, Lease, Unlease, ClearLeased, Cleared
      <3> QED BY <1>4, <3>1
    <2> QED BY <2>1, <2>2, <2>3, <2>4, <2>5 DEF PoolStep
  <1>6. pc[x] = "body" => ~ PoolStep(x)
    BY <1>1
  <1> QED BY <1>2, <1>3, <1>5, <1>6

\* A step of the pool by one who executes, or is in it already, keeps all right.
LEMMA PoolOperationIInv ==
  ASSUME IInv, NEW x \in Activities, pc[x] = "body" => Executes(x),
         Begin(x) \/ (pc[x] = "body" /\ Clear(x)) \/ PoolStep(x),
         UNCHANGED <<coroVars, fiberVars>>
  PROVE  IInv'
  <1> USE DEF IInv
  <1>1. PoolIInv'
    BY PoolStepPoolIInv, ContextNames
  <1>2. PICK l \in PoolLabels : pc' = [pc EXCEPT ![x] = l]
    BY PoolStepFacts, ContextNames
  <1>3. /\ pc[x] \in PoolLabels
        /\ \A s \in Stacks : memory'[s] = "fiber" <=> memory[s] = "fiber"
        /\ \A y \in Activities : y # x => hand'[y] = hand[y]
        /\ \A s \in Stacks : memory'[s] = "fiber" => hand'[x] # s
    BY PoolStepFacts, ContextNames
  <1>4. pc \in [Activities -> Labels] /\ PoolTypeOK'
    BY <1>1, ContextNames DEF PoolIInv, StackHasOneUser, PoolTypeOK
  <1>5. /\ UNCHANGED <<context, running, caller_context_, completed_, gCurrentFiber, initial,
                       gSwitchFiberBuffer, scheduled, awaiting>>
        /\ \A y : (Executes(y)' <=> Executes(y)) /\ (Waits(y)' <=> Waits(y)) /\ (Calls(y)' <=> Calls(y))
    BY DEF coroVars, fiberVars, Executes, Waits, Calls
  <1>6. \A f \in Stacks : Waits(f) => f # x /\ pc'[f] = pc[f]
    BY <1>2, <1>3, <1>4 DEF SavedRight, PoolLabels
  <1>7. \A y \in Activities : pc[y] \in {"run", "resumed", "end", "destroy"} <=> pc'[y] \in {"run", "resumed", "end", "destroy"}
    BY <1>2, <1>3, <1>4 DEF PoolLabels
  <1>8. \A y \in Activities : pc[y] \notin PoolLabels \/ pc'[y] \notin PoolLabels => pc'[y] = pc[y] /\ hand'[y] = hand[y]
    BY <1>2, <1>3, <1>4
  <1>9. FiberTypeOK'
    BY <1>4, <1>5 DEF FiberTypeOK, TypeOK
  <1>10. SavedRight'
    <2>1. \A y \in Activities : Calls(y) => pc'[y] = "run"
      BY <1>8 DEF SavedRight, PoolLabels
    <2>2. \A s \in Stacks : memory[s] # "fiber" => pc'[s] = "body"
      BY <1>2, <1>3, <1>4, ContextNames DEF SavedRight
    <2>3. \A s \in Stacks : s \in completed_ <=> pc'[s] = "end"
      BY <1>2, <1>3, <1>4, ContextNames DEF SavedRight, PoolLabels
    <2>4. \A s \in Stacks : Waits(s) =>
             memory'[s] = "fiber" /\ pc'[s] \in {"body", "resumed", "yield", "await", "end"} /\ ~ Executes(s)
      BY <1>3, <1>6 DEF SavedRight
    <2>5. \A y \in Activities : y \in Threads \/ memory'[y] = "fiber" =>
             Executes(y) \/ Calls(y) \/ (y \in Stacks /\ Waits(y))
      BY <1>3 DEF SavedRight, Activities
    <2>6. \A s \in Stacks : memory'[s] # "fiber" => pc'[s] = "body" /\ ~ Executes(s) /\ ~ Calls(s)
      BY <1>3, <2>2 DEF SavedRight
    <2> QED BY <1>5, <2>1, <2>3, <2>4, <2>5, <2>6 DEF SavedRight
  <1>11. HeldRight'
    <2>1. \A w \in Threads : /\ running[w] \in Activities
                             /\ pc[running[w]] = "resumed" => pc'[running[w]] = "resumed"
                             /\ pc[running[w]] = "run" <=> pc'[running[w]] = "run"
      BY <1>2, <1>3, <1>4 DEF FiberTypeOK, PoolLabels
    <2>2. \A f \in scheduled : Waits(f)' /\ pc'[f] \in {"body", "resumed"} /\ f \notin awaiting
      BY <1>5, <1>6 DEF HeldRight, FiberTypeOK, TypeOK
    <2>3. \A f \in awaiting : Waits(f)' /\ pc'[f] = "resumed"
      BY <1>5, <1>6 DEF HeldRight, FiberTypeOK, TypeOK
    <2>4. ASSUME NEW w \in Threads, gSwitchFiberBuffer[w] # nullptr
          PROVE  LET f == gSwitchFiberBuffer[w] IN
                 /\ Waits(f)' /\ pc'[f] = "body" /\ f \notin scheduled
                 /\ pc'[running[w]] = "resumed"
                 /\ \A v \in Threads : gSwitchFiberBuffer[v] = f => v = w
      BY <1>5, <1>6, <2>1, <2>4 DEF HeldRight, FiberTypeOK
    <2>5. ASSUME NEW w \in Threads, pc'[running[w]] = "run"
          PROVE  LET f == gCurrentFiber[w] IN
                 /\ f \in Stacks /\ Waits(f)' /\ pc'[f] \in {"yield", "await", "end"}
                 /\ \A v \in Threads : pc'[running[v]] = "run" /\ gCurrentFiber[v] = f => v = w
                 /\ \A y \in Activities : hand'[y] # f
      <3> DEFINE f == gCurrentFiber[w]
      <3>1. /\ f \in Stacks /\ Waits(f) /\ pc[f] \in {"yield", "await", "end"}
            /\ \A v \in Threads : pc[running[v]] = "run" /\ gCurrentFiber[v] = f => v = w
            /\ \A y \in Activities : hand[y] # f
        BY <2>1, <2>5 DEF HeldRight
      <3>2. memory[f] = "fiber"
        BY <3>1 DEF SavedRight
      <3> QED BY <1>3, <1>5, <1>6, <2>1, <3>1, <3>2
    <2>6. \A y \in Activities : pc'[y] = "destroy" => Waits(hand[y])' /\ pc'[hand'[y]] = "end"
      <3>1. SUFFICES ASSUME NEW y \in Activities, pc'[y] = "destroy" PROVE Waits(hand[y])' /\ pc'[hand'[y]] = "end"
        OBVIOUS
      <3>2. pc[y] = "destroy" /\ hand'[y] = hand[y]
        BY <3>1, <1>8 DEF PoolLabels
      <3>3. hand[y] \in Stacks
        BY <3>2, ActivitiesCall DEF PoolIInv, StackHasOneUser, HandsMatchCalls, PoolTypeOK
      <3>4. Waits(hand[y]) /\ pc[hand[y]] = "end"
        BY <3>2 DEF HeldRight
      <3> QED BY <1>5, <1>6, <3>2, <3>3, <3>4 DEF Waits
    <2> QED BY <1>5, <2>2, <2>3, <2>4, <2>5, <2>6 DEF HeldRight
  <1>12. CallersRight'
    <2>1. Active' = Active
      BY <1>3, <1>5 DEF Active
    <2>2. \A w \in Threads : pc'[running[w]] # "run" => pc[running[w]] # "run"
      BY <1>2, <1>3, <1>4 DEF FiberTypeOK, PoolLabels
    <2>3. \A y \in Activities : pc'[y] = "run" => pc[y] = "run"
      BY <1>2, <1>3, <1>4 DEF PoolLabels
    <2>4. \A home : IsHome(home)' <=> IsHome(home)
      BY <1>5, <2>1 DEF IsHome, CallerOf
    <2> QED BY <1>5, <2>1, <2>2, <2>3, <2>4 DEF CallersRight
  <1> QED BY <1>1, <1>9, <1>10, <1>11, <1>12

-----------------------------------------------------------------------------
\* The types of the pool that the steps of fibers need.
LEMMA PoolTypes ==
  ASSUME PoolIInv
  PROVE  /\ PoolTypeOK /\ HandsAreFull /\ HandsMatchCalls
         /\ pc \in [Activities -> Labels] /\ hand \in [Activities -> Stacks \union {nullptr}]
         /\ memory \in [Stacks -> {"none", "raw", "node", "fiber"}]
  BY ActivitiesCall DEF PoolIInv, StackHasOneUser, PoolTypeOK

\* A handle is taken from its awaiter and scheduled.
LEMMA WakeIInv ==
  ASSUME IInv, NEW x \in Activities, NEW w \in Threads, NEW f \in Stacks, Wake(x, w, f)
  PROVE  IInv'
  <1> USE DEF IInv
  <1>1. /\ f \in awaiting /\ awaiting' = awaiting \ {f} /\ scheduled' = scheduled \union {f}
        /\ UNCHANGED <<pooling, memory, next, stack_of_stack_, lock_, hand, pc>>
        /\ UNCHANGED <<context, running, caller_context_, completed_, gCurrentFiber, initial, gSwitchFiberBuffer>>
    BY DEF Wake, poolVars, poolState, coroVars
  <1>2. PoolIInv'
    <2>1. PoolTypeOK' /\ HandsAreFull' /\ HandsMatchCalls'
      BY <1>1, PoolTypes DEF PoolTypeOK, HandsAreFull, HandsMatchCalls, InHand
    <2> QED BY <1>1, <2>1, PoolIsKept DEF InHand
  <1>3. FiberTypeOK'
    BY <1>1, <1>2 DEF FiberTypeOK, TypeOK, PoolIInv, StackHasOneUser
  <1>4. SavedRight'
    BY <1>1 DEF SavedRight, Executes, Waits, Calls
  <1>5. HeldRight'
    <2>1. Waits(f) /\ pc[f] = "resumed"
      BY <1>1 DEF HeldRight
    <2> QED BY <1>1, <2>1 DEF HeldRight, Waits
  <1>6. CallersRight'
    <2>1. Active' = Active /\ (\A h : IsHome(h)' <=> IsHome(h)) /\ \A y : Calls(y)' <=> Calls(y)
      BY <1>1 DEF Active, IsHome, CallerOf, Calls
    <2> QED BY <1>1, <2>1 DEF CallersRight
  <1> QED BY <1>2, <1>3, <1>4, <1>5, <1>6

\* A fiber that is back schedules the one that it was switched from.
LEMMA AfterSuspendIInv ==
  ASSUME IInv, NEW x \in Activities, NEW w \in Threads, AfterSuspend(x, w)
  PROVE  IInv'
  <1> USE DEF IInv
  <1> DEFINE g == gSwitchFiberBuffer[w]
  <1>1. /\ running[w] = x /\ pc[x] = "resumed" /\ pc' = [pc EXCEPT ![x] = "body"]
        /\ scheduled' = scheduled \union ({g} \ {nullptr})
        /\ gSwitchFiberBuffer' = [gSwitchFiberBuffer EXCEPT ![w] = nullptr]
        /\ UNCHANGED <<pooling, memory, next, stack_of_stack_, lock_, hand>>
        /\ UNCHANGED <<context, running, caller_context_, completed_, gCurrentFiber, initial, awaiting>>
    BY DEF AfterSuspend, Goto, poolState, coroVars
  <1>t. pc \in [Activities -> Labels] /\ Executes(x)
    BY <1>1, PoolTypes DEF Executes
  <1>2. PoolIInv'
    <2>1. PoolTypeOK' /\ HandsAreFull' /\ HandsMatchCalls'
      BY <1>1, <1>t, ActivitiesCall, PoolTypes DEF PoolTypeOK, HandsAreFull, HandsMatchCalls, InHand
    <2> QED BY <1>1, <2>1, PoolIsKept DEF InHand
  <1>3. FiberTypeOK'
    BY <1>1, <1>2 DEF FiberTypeOK, TypeOK, PoolIInv, StackHasOneUser
  <1>4. \A s \in Stacks : Waits(s) => s # x /\ pc'[s] = pc[s]
    BY <1>1, <1>t DEF SavedRight
  <1>5. SavedRight'
    <2>1. \A y \in Activities : y # x => pc'[y] = pc[y]
      BY <1>1, <1>t
    <2>2. ~ Calls(x)
      BY <1>1 DEF SavedRight
    <2> QED BY <1>1, <1>t, <1>4, <2>1, <2>2, ActivitiesCall DEF SavedRight, Executes, Waits, Calls
  <1>6. HeldRight'
    <2>1. \A v \in Threads : running[v] \in Activities /\ (v # w => running[v] # x)
      BY <1>1 DEF FiberTypeOK, SavedRight
    <2>2. g # nullptr => g \in Stacks /\ Waits(g) /\ pc[g] = "body" /\ g \notin awaiting
                         /\ \A v \in Threads : gSwitchFiberBuffer[v] = g => v = w
      BY <1>1 DEF HeldRight, FiberTypeOK
    <2>3. \A f \in scheduled' : Waits(f)' /\ pc'[f] \in {"body", "resumed"} /\ f \notin awaiting'
      BY <1>1, <1>4, <2>2 DEF HeldRight, Waits, FiberTypeOK, TypeOK
    <2>4. \A f \in awaiting' : Waits(f)' /\ pc'[f] = "resumed"
      BY <1>1, <1>4 DEF HeldRight, Waits, FiberTypeOK, TypeOK
    <2>5. \A v \in Threads : LET f == gSwitchFiberBuffer'[v] IN f # nullptr =>
            /\ Waits(gSwitchFiberBuffer[v])' /\ pc'[f] = "body" /\ f \notin scheduled'
            /\ pc'[running'[v]] = "resumed"
            /\ \A u \in Threads : gSwitchFiberBuffer'[u] = f => u = v
      <3>1. SUFFICES ASSUME NEW v \in Threads, gSwitchFiberBuffer'[v] # nullptr
                     PROVE  LET f == gSwitchFiberBuffer'[v] IN
                            /\ Waits(gSwitchFiberBuffer[v])' /\ pc'[f] = "body" /\ f \notin scheduled'
                            /\ pc'[running'[v]] = "resumed"
                            /\ \A u \in Threads : gSwitchFiberBuffer'[u] = f => u = v
        OBVIOUS
      <3>2. v # w /\ gSwitchFiberBuffer'[v] = gSwitchFiberBuffer[v]
        BY <1>1, <3>1 DEF FiberTypeOK
      <3>3. /\ gSwitchFiberBuffer[v] \in Stacks
            /\ Waits(gSwitchFiberBuffer[v]) /\ pc[gSwitchFiberBuffer[v]] = "body" /\ gSwitchFiberBuffer[v] \notin scheduled
            /\ pc[running[v]] = "resumed"
            /\ \A u \in Threads : gSwitchFiberBuffer[u] = gSwitchFiberBuffer[v] => u = v
        BY <3>1, <3>2 DEF HeldRight, FiberTypeOK
      <3>4. pc'[running[v]] = "resumed" /\ pc'[gSwitchFiberBuffer[v]] = "body"
        BY <1>1, <1>t, <1>4, <2>1, <3>2, <3>3
      <3>5. gSwitchFiberBuffer[v] \notin scheduled'
        BY <1>1, <3>2, <3>3
      <3>6. Waits(gSwitchFiberBuffer[v])'
        BY <1>1, <3>2, <3>3 DEF Waits
      <3> QED BY <1>1, <3>1, <3>2, <3>3, <3>4, <3>5, <3>6 DEF FiberTypeOK
    <2>6. \A v \in Threads : LET f == gCurrentFiber[v] IN pc'[running[v]] = "run" =>
            /\ f \in Stacks /\ Waits(f) /\ pc'[f] \in {"yield", "await", "end"}
            /\ \A u \in Threads : pc'[running[u]] = "run" /\ gCurrentFiber[u] = f => u = v
            /\ \A y \in Activities : hand[y] # f
      BY <1>1, <1>t, <1>4, <2>1 DEF HeldRight
    <2>7. \A y \in Activities : pc'[y] = "destroy" => Waits(hand[y]) /\ pc'[hand[y]] = "end"
      <3>1. \A y \in Activities : pc'[y] = "destroy" => pc[y] = "destroy" /\ hand[y] \in Stacks
        BY <1>1, <1>t, ActivitiesCall, PoolTypes DEF HandsMatchCalls
      <3> QED BY <1>4, <3>1 DEF HeldRight
    <2> HIDE DEF g
    <2>8. \A y : Waits(y)' <=> Waits(y)
      BY <1>1 DEF Waits
    <2> QED BY <1>1, <2>3, <2>4, <2>5, <2>6, <2>7 DEF HeldRight, Waits
  <1>7. CallersRight'
    <2>1. Active' = Active /\ (\A h : IsHome(h)' <=> IsHome(h)) /\ \A y : Calls(y)' <=> Calls(y)
      BY <1>1 DEF Active, IsHome, CallerOf, Calls
    <2>2. \A y \in Activities : pc'[y] = "run" <=> pc[y] = "run"
      BY <1>1, <1>t
    <2> QED BY <1>1, <2>1, <2>2 DEF CallersRight, FiberTypeOK
  <1> QED BY <1>2, <1>3, <1>5, <1>6, <1>7

\* A fiber is made on the stack in hand, and scheduled.
LEMMA CreateIInv ==
  ASSUME IInv, NEW x \in Activities, Create(x)
  PROVE  IInv'
  <1> USE DEF IInv
  <1>0. PICK s : s = hand[x]
    OBVIOUS
  <1>1. /\ pc[x] = "got" /\ pc' = [pc EXCEPT ![x] = "body"]
        /\ memory' = [memory EXCEPT ![s] = "fiber"]
        /\ hand' = [hand EXCEPT ![x] = nullptr]
        /\ context' = [context EXCEPT ![coro_context(s)] = s]
        /\ scheduled' = scheduled \union {s}
        /\ UNCHANGED <<pooling, next, stack_of_stack_, lock_>>
        /\ UNCHANGED <<running, caller_context_, completed_, gCurrentFiber, initial, gSwitchFiberBuffer, awaiting>>
    BY <1>0 DEF Create, Goto
  <1>t. /\ pc \in [Activities -> Labels] /\ hand \in [Activities -> Stacks \union {nullptr}]
        /\ memory \in [Stacks -> {"none", "raw", "node", "fiber"}]
        /\ context \in [Contexts -> Activities \union {nullptr}]
    BY PoolTypes DEF FiberTypeOK, TypeOK
  <1>2. s \in Stacks /\ memory[s] = "raw" /\ \A y \in Activities : hand[y] = s => y = x
    BY <1>0, <1>1, <1>t, ActivitiesCall, PoolTypes DEF HandsMatchCalls, HandsAreFull
  <1>3. pc[s] = "body" /\ ~ Executes(s) /\ ~ Calls(s) /\ ~ Waits(s) /\ s # x /\ s \notin completed_
    BY <1>1, <1>2 DEF SavedRight
  <1>4. /\ \A t \in Stacks \ {s} : Waits(t)' <=> Waits(t)
        /\ Waits(s)'
        /\ \A y \in Activities : Calls(y)' <=> Calls(y)
        /\ \A y : Executes(y)' <=> Executes(y)
    <2>1. \A t \in Stacks \ {s} : context'[coro_context(t)] = context[coro_context(t)]
      BY <1>1, <1>t, ContextNames
    <2>2. \A y \in Activities : context'[caller_context(y)] = context[caller_context(y)]
      BY <1>1, <1>t, ContextNames
    <2>3. context'[coro_context(s)] = s
      BY <1>1, <1>t, <1>2, ContextNames
    <2> QED BY <1>1, <2>1, <2>2, <2>3 DEF Waits, Calls, Executes
  <1>5. \A f \in Stacks : Waits(f) => f # x /\ f # s /\ pc'[f] = pc[f]
    BY <1>1, <1>t, <1>3 DEF SavedRight
  <1>6. PoolIInv'
    <2>1. PoolTypeOK'
      BY <1>1, <1>2, ActivitiesCall, PoolTypes DEF PoolTypeOK
    <2>2. HandsMatchCalls'
      BY <1>0, <1>1, <1>2, <1>t, ActivitiesCall, PoolTypes DEF HandsMatchCalls
    <2>3. HandsAreFull'
      <3>1. \A y \in Activities : y # x => hand'[y] = hand[y]
        BY <1>1, <1>t
      <3>2. hand'[x] = nullptr
        BY <1>1, <1>t
      <3>3. \A t \in Stacks : t # s => memory'[t] = memory[t]
        BY <1>1, <1>t
      <3>4. \A t \in Stacks : t # s /\ InHand(t) => InHand(t)'
        BY <1>0, <3>1, ActivitiesCall DEF InHand
      <3>5. memory'[s] = "fiber"
        BY <1>1, <1>t, <1>2
      <3>6. \A t \in Stacks : memory'[t] = "raw" => InHand(t)'
        BY <3>3, <3>4, <3>5, PoolTypes DEF HandsAreFull
      <3>7. \A y \in Activities : hand'[y] # nullptr => memory'[hand'[y]] # "none"
        BY <1>t, <3>1, <3>2, <3>3, <3>5, PoolTypes, ActivitiesCall DEF HandsAreFull
      <3>8. \A y, z \in Activities : hand'[y] = hand'[z] /\ hand'[y] # nullptr => y = z
        BY <3>1, <3>2, PoolTypes, ActivitiesCall DEF HandsAreFull
      <3> QED BY <3>6, <3>7, <3>8, ActivitiesCall DEF HandsAreFull
    <2>4. \A t \in Stacks : memory'[t] = "node" <=> memory[t] = "node"
      BY <1>1, <1>t, <1>2
    <2>5. \A t \in Stacks : memory[t] = "node" => (InHand(t)' <=> InHand(t))
      BY <1>0, <1>1, <1>t, <1>2, ActivitiesCall DEF InHand
    <2> QED BY <1>1, <2>1, <2>2, <2>3, <2>4, <2>5, PoolIsKept
  <1>7. FiberTypeOK'
    <2>1. context' \in [Contexts -> Activities \union {nullptr}] /\ scheduled' \subseteq Stacks
      BY <1>1, <1>2, <1>t, ActivitiesCall DEF FiberTypeOK, TypeOK
    <2> QED BY <1>1, <1>6, <2>1 DEF FiberTypeOK, TypeOK, PoolIInv, StackHasOneUser
  <1>8. SavedRight'
    <2>1. \A t \in Stacks : context'[coro_context(t)] \in {t, nullptr}
      BY <1>1, <1>t, <1>2, ContextNames DEF SavedRight
    <2>2. \A y \in Activities : context'[caller_context(y)] \in {y, nullptr}
      BY <1>1, <1>t, <1>2, ContextNames DEF SavedRight
    <2>3. \A y \in Activities : Calls(y) => pc'[y] = "run"
      BY <1>1, <1>t DEF SavedRight
    <2>4. \A t \in Stacks : Waits(t)' =>
             memory'[t] = "fiber" /\ pc'[t] \in {"body", "resumed", "yield", "await", "end"} /\ ~ Executes(t)
      BY <1>1, <1>t, <1>2, <1>3, <1>4, <1>5, ActivitiesCall DEF SavedRight
    <2>5. \A y \in Activities : y \in Threads \/ memory'[y] = "fiber" =>
             Executes(y) \/ Calls(y) \/ (y \in Stacks /\ Waits(y)')
      BY <1>1, <1>t, <1>2, <1>4, FiberCoreAssumption DEF SavedRight, Activities
    <2>6. \A t \in Stacks : memory'[t] # "fiber" => pc'[t] = "body" /\ ~ Executes(t) /\ ~ Calls(t)
      BY <1>1, <1>t, <1>2, ActivitiesCall DEF SavedRight
    <2>7. \A t \in Stacks : t \in completed_ <=> pc'[t] = "end"
      BY <1>1, <1>t, ActivitiesCall DEF SavedRight
    <2>8. \A v, w \in Threads : running[v] = running[w] => v = w
      BY DEF SavedRight
    <2> QED BY <1>1, <1>4, <2>1, <2>2, <2>3, <2>4, <2>5, <2>6, <2>7, <2>8, ActivitiesCall DEF SavedRight
  <1>9. HeldRight'
    <2>1. \A y \in Activities : y # x => pc'[y] = pc[y]
      BY <1>1, <1>t
    <2>2. \A w \in Threads : running[w] \in Activities /\ (pc'[running[w]] \in {"run", "resumed"} =>
                                 pc'[running[w]] = pc[running[w]])
                             /\ (pc[running[w]] \in {"run", "resumed"} => pc'[running[w]] = pc[running[w]])
      BY <1>1, <1>t, <2>1 DEF FiberTypeOK
    <2>3. \A f \in scheduled' : Waits(f)' /\ pc'[f] \in {"body", "resumed"} /\ f \notin awaiting'
      BY <1>1, <1>2, <1>3, <1>4, <1>5, <2>1, ActivitiesCall DEF HeldRight, FiberTypeOK, TypeOK
    <2>4. \A f \in awaiting' : Waits(f)' /\ pc'[f] = "resumed"
      BY <1>1, <1>4, <1>5 DEF HeldRight, FiberTypeOK, TypeOK
    <2>5. \A w \in Threads : gSwitchFiberBuffer[w] # nullptr =>
             /\ Waits(gSwitchFiberBuffer[w])' /\ pc'[gSwitchFiberBuffer[w]] = "body" /\ gSwitchFiberBuffer[w] \notin scheduled'
             /\ pc'[running[w]] = "resumed"
             /\ \A v \in Threads : gSwitchFiberBuffer[v] = gSwitchFiberBuffer[w] => v = w
      BY <1>1, <1>4, <1>5, <2>2 DEF HeldRight, FiberTypeOK, TypeOK
    <2>6. \A w \in Threads : pc'[running[w]] = "run" =>
             LET f == gCurrentFiber[w] IN
             /\ f \in Stacks /\ Waits(gCurrentFiber[w])' /\ pc'[f] \in {"yield", "await", "end"}
             /\ \A v \in Threads : pc'[running[v]] = "run" /\ gCurrentFiber[v] = f => v = w
             /\ \A y \in Activities : hand'[y] # f
      BY <1>1, <1>t, <1>4, <1>5, <2>2 DEF HeldRight
    <2>7. \A y \in Activities : pc'[y] = "destroy" => Waits(hand[y])' /\ pc'[hand'[y]] = "end"
      <3>1. \A y \in Activities : pc'[y] = "destroy" => pc[y] = "destroy" /\ y # x /\ hand'[y] = hand[y]
        BY <1>1, <1>t
      <3>2. \A y \in Activities : pc[y] = "destroy" => hand[y] \in Stacks
        BY <1>t, ActivitiesCall, PoolTypes DEF HandsMatchCalls
      <3> QED BY <1>4, <1>5, <3>1, <3>2 DEF HeldRight
    <2>8. \A y \in Activities : pc'[y] = "destroy" => context'[coro_context(hand'[y])] = hand'[y]
      BY <1>1, <1>t, <2>7 DEF Waits
    <2> QED BY <1>1, <2>3, <2>4, <2>5, <2>6, <2>7, <2>8 DEF HeldRight, Waits
  <1>10. CallersRight'
    <2>1. Active' = Active
      BY <1>1, <1>t, <1>2, <1>4 DEF Active, Waits
    <2>2. \A y \in Activities : pc'[y] = "run" <=> pc[y] = "run"
      BY <1>1, <1>t
    <2>3. \A h : IsHome(h)' <=> IsHome(h)
      BY <1>1, <2>1 DEF IsHome, CallerOf
    <2> QED BY <1>1, <1>4, <2>1, <2>2, <2>3 DEF CallersRight, FiberTypeOK
  <1> QED BY <1>6, <1>7, <1>8, <1>9, <1>10

\* The fiber that has ended is taken apart on its stack, which is free now.
LEMMA DestroyIInv ==
  ASSUME IInv, NEW x \in Activities, Destroy(x)
  PROVE  IInv'
  <1> USE DEF IInv
  <1>0. PICK s : s = hand[x]
    OBVIOUS
  <1>1. /\ pc[x] = "destroy" /\ pc' = [pc EXCEPT ![x] = "free", ![s] = "body"]
        /\ memory' = [memory EXCEPT ![s] = "raw"]
        /\ context' = [context EXCEPT ![coro_context(s)] = nullptr]
        /\ caller_context_' = [caller_context_ EXCEPT ![s] = nullptr]
        /\ completed_' = completed_ \ {s}
        /\ UNCHANGED <<pooling, next, stack_of_stack_, lock_, hand>>
        /\ UNCHANGED <<running, gCurrentFiber, initial, gSwitchFiberBuffer, scheduled, awaiting>>
    BY <1>0 DEF Destroy, fiberVars
  <1>t. /\ pc \in [Activities -> Labels] /\ hand \in [Activities -> Stacks \union {nullptr}]
        /\ memory \in [Stacks -> {"none", "raw", "node", "fiber"}]
        /\ context \in [Contexts -> Activities \union {nullptr}]
        /\ caller_context_ \in [Stacks -> Contexts \union {nullptr}]
    BY PoolTypes DEF FiberTypeOK, TypeOK
  <1>2. s \in Stacks /\ memory[s] = "fiber" /\ \A y \in Activities : hand[y] = s => y = x
    BY <1>0, <1>1, <1>t, ActivitiesCall, PoolTypes DEF HandsMatchCalls, HandsAreFull
  <1>3. Waits(s) /\ pc[s] = "end" /\ ~ Executes(s) /\ ~ Calls(s) /\ s # x
    BY <1>0, <1>1, <1>2, ActivitiesCall DEF SavedRight, HeldRight
  <1>p. /\ pc'[x] = "free" /\ pc'[s] = "body" /\ \A y \in Activities : y # x /\ y # s => pc'[y] = pc[y]
        /\ memory'[s] = "raw" /\ \A t \in Stacks : t # s => memory'[t] = memory[t]
    BY <1>1, <1>t, <1>2, <1>3, ActivitiesCall
  <1>4. /\ \A t \in Stacks : t # s => (Waits(t)' <=> Waits(t))
        /\ ~ Waits(s)'
        /\ \A y \in Activities : Calls(y)' <=> Calls(y)
        /\ \A y : Executes(y)' <=> Executes(y)
    <2>1. \A t \in Stacks : t # s => context'[coro_context(t)] = context[coro_context(t)]
      BY <1>1, <1>t, ContextNames
    <2>2. \A y \in Activities : context'[caller_context(y)] = context[caller_context(y)]
      BY <1>1, <1>t, ContextNames
    <2>3. context'[coro_context(s)] = nullptr
      BY <1>1, <1>t, <1>2, ContextNames
    <2> QED BY <1>1, <1>2, <2>1, <2>2, <2>3 DEF Waits, Calls, Executes
  <1>f. /\ pc[x] = "destroy" /\ completed_' = completed_ \ {s}
        /\ UNCHANGED <<pooling, next, stack_of_stack_, lock_, hand>>
        /\ UNCHANGED <<running, gCurrentFiber, initial, gSwitchFiberBuffer, scheduled, awaiting>>
    BY <1>1
  <1>5. \A f \in Stacks : Waits(f) /\ f # s => f # x /\ pc'[f] = pc[f]
    BY <1>f, <1>p, ActivitiesCall DEF SavedRight
  <1>6. PoolIInv'
    <2>1. PoolTypeOK'
      BY <1>1, <1>2, ActivitiesCall, PoolTypes DEF PoolTypeOK
    <2>2. HandsMatchCalls'
      <3>1. hand[s] = nullptr
        BY <1>2, <1>3, ActivitiesCall, PoolTypes DEF HandsMatchCalls
      <3>2. \A y \in Activities : y # x => hand[y] # s
        BY <1>2
      <3>3. \A y \in Activities : y # x /\ hand[y] # nullptr => memory'[hand[y]] = memory[hand[y]]
        BY <1>t, <1>p, <3>2
      <3>4. hand[x] = s /\ hand[x] # nullptr
        BY <1>0, <1>2
      <3>5. \A y \in Activities : hand[y] # nullptr <=> pc'[y] \in {"got", "free", "link", "destroy"}
        BY <1>1, <1>p, <3>1, <3>4, ActivitiesCall, PoolTypes DEF HandsMatchCalls
      <3>6. \A y \in Activities : y # x /\ y # s =>
              /\ pc'[y] \in {"got", "free"} => memory'[hand[y]] = "raw"
              /\ pc'[y] = "link" => memory'[hand[y]] = "node"
              /\ pc'[y] = "destroy" => memory'[hand[y]] = "fiber"
        BY <1>p, <3>3, <3>5, ActivitiesCall, PoolTypes DEF HandsMatchCalls
      <3> QED BY <1>f, <1>p, <3>4, <3>5, <3>6, ActivitiesCall DEF HandsMatchCalls
    <2>3. HandsAreFull'
      <3>1. \A t \in Stacks : memory'[t] = "raw" => InHand(t)
        BY <1>0, <1>p, ActivitiesCall, PoolTypes DEF HandsAreFull, InHand
      <3>2. \A y \in Activities : hand[y] # nullptr => memory'[hand[y]] # "none"
        BY <1>t, <1>p, <1>2, PoolTypes, ActivitiesCall DEF HandsAreFull
      <3> QED BY <1>1, <3>1, <3>2, PoolTypes, ActivitiesCall DEF HandsAreFull, InHand
    <2>4. \A t \in Stacks : memory'[t] = "node" <=> memory[t] = "node"
      BY <1>p, <1>2
    <2> QED BY <1>1, <2>1, <2>2, <2>3, <2>4, PoolIsKept DEF InHand
  <1>7. FiberTypeOK'
    <2>1. /\ context' \in [Contexts -> Activities \union {nullptr}]
          /\ caller_context_' \in [Stacks -> Contexts \union {nullptr}]
          /\ completed_' \subseteq Stacks
      BY <1>1, <1>t DEF FiberTypeOK, TypeOK
    <2> QED BY <1>1, <1>6, <2>1 DEF FiberTypeOK, TypeOK, PoolIInv, StackHasOneUser
  <1>8. SavedRight'
    <2>1. \A t \in Stacks : context'[coro_context(t)] \in {t, nullptr}
      BY <1>1, <1>t, <1>2, ContextNames DEF SavedRight
    <2>2. \A y \in Activities : context'[caller_context(y)] \in {y, nullptr}
      BY <1>1, <1>t, <1>2, ContextNames DEF SavedRight
    <2>3. \A y \in Activities : Calls(y) => pc'[y] = "run"
      BY <1>f, <1>p, <1>3 DEF SavedRight
    <2>4. \A t \in Stacks : Waits(t)' =>
             memory'[t] = "fiber" /\ pc'[t] \in {"body", "resumed", "yield", "await", "end"} /\ ~ Executes(t)
      BY <1>p, <1>4, <1>5 DEF SavedRight
    <2>5. \A y \in Activities : y \in Threads \/ memory'[y] = "fiber" =>
             Executes(y) \/ Calls(y) \/ (y \in Stacks /\ Waits(y)')
      BY <1>p, <1>2, <1>4, FiberCoreAssumption DEF SavedRight, Activities
    <2>6. \A t \in Stacks : memory'[t] # "fiber" => pc'[t] = "body" /\ ~ Executes(t) /\ ~ Calls(t)
      <3>1. x \in Stacks => memory[x] = "fiber"
        BY <1>f DEF SavedRight
      <3> QED BY <1>p, <1>3, <3>1, ActivitiesCall DEF SavedRight
    <2>7. \A t \in Stacks : t \in completed_' <=> pc'[t] = "end"
      BY <1>f, <1>p, ActivitiesCall DEF SavedRight
    <2>8. \A v, w \in Threads : running[v] = running[w] => v = w
      BY DEF SavedRight
    <2> QED BY <1>f, <1>4, <2>1, <2>2, <2>3, <2>4, <2>5, <2>6, <2>7, <2>8, ActivitiesCall DEF SavedRight
  <1>9. HeldRight'
    <2>1. \A w \in Threads : running[w] \in Activities /\ running[w] # s
      BY <1>3 DEF FiberTypeOK, Executes
    <2>2. \A w \in Threads : /\ pc'[running[w]] = "run" <=> pc[running[w]] = "run"
                             /\ pc[running[w]] = "resumed" => pc'[running[w]] = "resumed"
      BY <1>f, <1>p, <2>1
    <2>3. \A f \in scheduled : Waits(f)' /\ pc'[f] \in {"body", "resumed"} /\ f \notin awaiting
      BY <1>3, <1>4, <1>5 DEF HeldRight, FiberTypeOK, TypeOK
    <2>4. \A f \in awaiting : Waits(f)' /\ pc'[f] = "resumed"
      BY <1>3, <1>4, <1>5 DEF HeldRight, FiberTypeOK, TypeOK
    <2>5. \A w \in Threads : gSwitchFiberBuffer[w] # nullptr =>
             /\ Waits(gSwitchFiberBuffer[w])' /\ pc'[gSwitchFiberBuffer[w]] = "body" /\ gSwitchFiberBuffer[w] \notin scheduled
             /\ pc'[running[w]] = "resumed"
             /\ \A v \in Threads : gSwitchFiberBuffer[v] = gSwitchFiberBuffer[w] => v = w
      BY <1>f, <1>3, <1>4, <1>5, <2>2 DEF HeldRight, FiberTypeOK, TypeOK
    <2>6. \A w \in Threads : pc'[running[w]] = "run" =>
             LET f == gCurrentFiber[w] IN
             /\ f \in Stacks /\ Waits(gCurrentFiber[w])' /\ pc'[f] \in {"yield", "await", "end"}
             /\ \A v \in Threads : pc'[running[v]] = "run" /\ gCurrentFiber[v] = f => v = w
             /\ \A y \in Activities : hand[y] # f
      <3>1. \A w \in Threads : pc'[running[w]] = "run" => gCurrentFiber[w] # s
        BY <1>0, <2>2 DEF HeldRight
      <3> QED BY <1>f, <1>4, <1>5, <2>2, <3>1 DEF HeldRight
    <2>7. \A y \in Activities : pc'[y] = "destroy" => Waits(hand[y])' /\ pc'[hand[y]] = "end"
      <3>1. \A y \in Activities : pc'[y] = "destroy" => pc[y] = "destroy" /\ y # x
        BY <1>p
      <3>2. \A y \in Activities : pc[y] = "destroy" => hand[y] \in Stacks /\ (y # x => hand[y] # s)
        BY <1>t, <1>2, ActivitiesCall, PoolTypes DEF HandsMatchCalls
      <3>3. \A y \in Activities : pc'[y] = "destroy" => Waits(hand[y]) /\ pc[hand[y]] = "end"
        BY <3>1 DEF HeldRight
      <3> QED BY <1>f, <1>4, <1>5, <3>1, <3>2, <3>3
    <2> QED BY <1>f, <2>3, <2>4, <2>5, <2>6, <2>7 DEF HeldRight, Waits
  <1>10. CallersRight'
    <2>1. Active' = Active /\ s \notin Active
      BY <1>p, <1>2, <1>3, <1>4 DEF Active, Waits
    <2>2. \A y \in Activities : pc'[y] = "run" <=> pc[y] = "run"
      BY <1>f, <1>p, <1>3
    <2>3. \A t \in Active : caller_context_'[t] = caller_context_[t] /\ CallerOf(t)' = CallerOf(t)
      BY <1>1, <1>t, <2>1 DEF CallerOf, Active
    <2>4. \A h : IsHome(h)' <=> IsHome(h)
      BY <1>1, <2>1, <2>3 DEF IsHome
    <2> QED BY <1>f, <1>4, <2>1, <2>2, <2>3, <2>4 DEF CallersRight, FiberTypeOK
  <1> QED BY <1>6, <1>7, <1>8, <1>9, <1>10

\* Run goes on: the fiber that has come back is in its hand, to be destroyed, or
\* is scheduled, or with its awaiter.
LEMMA ReturnedIInv ==
  ASSUME IInv, NEW x \in Activities, NEW w \in Threads, Returned(x, w)
  PROVE  IInv'
  <1> USE DEF IInv
  <1>0. PICK f : f = gCurrentFiber[w]
    OBVIOUS
  <1>t. /\ pc \in [Activities -> Labels] /\ hand \in [Activities -> Stacks \union {nullptr}]
        /\ gCurrentFiber \in [Threads -> Stacks \union {nullptr}]
        /\ initial \in [Activities -> Stacks \union {nullptr}]
        /\ running \in [Threads -> Activities]
    BY PoolTypes DEF FiberTypeOK, TypeOK
  <1>1. /\ running[w] = x /\ pc[x] = "run"
        /\ gCurrentFiber' = [gCurrentFiber EXCEPT ![w] = initial[x]]
        /\ initial' = [initial EXCEPT ![x] = nullptr]
        /\ UNCHANGED <<pooling, memory, next, stack_of_stack_, lock_>>
        /\ UNCHANGED <<context, running, caller_context_, completed_, gSwitchFiberBuffer>>
    BY DEF Returned, coroVars
  <1>2. /\ f \in Stacks /\ Waits(f) /\ pc[f] \in {"yield", "await", "end"} /\ memory[f] = "fiber"
        /\ \A v \in Threads : pc[running[v]] = "run" /\ gCurrentFiber[v] = f => v = w
        /\ \A y \in Activities : hand[y] # f
        /\ f # x /\ ~ Executes(f) /\ ~ Calls(f) /\ ~ Calls(x) /\ Executes(x)
    <2>1. /\ f \in Stacks /\ Waits(f) /\ pc[f] \in {"yield", "await", "end"}
          /\ \A v \in Threads : pc[running[v]] = "run" /\ gCurrentFiber[v] = f => v = w
          /\ \A y \in Activities : hand[y] # f
      BY <1>0, <1>1 DEF HeldRight
    <2>2. memory[f] = "fiber" /\ ~ Executes(f)
      BY <2>1 DEF SavedRight
    <2>3. Executes(x) /\ f # x
      BY <1>1, <2>2 DEF Executes
    <2>4. ~ Calls(f) /\ ~ Calls(x)
      BY <2>1, <2>3, ActivitiesCall DEF SavedRight
    <2> QED BY <2>1, <2>2, <2>3, <2>4
  <1>3. PICK lx, lf : /\ pc' = [pc EXCEPT ![x] = lx, ![f] = lf]
                      /\ lx \in {"body", "destroy"}
                      /\ lx = "destroy" <=> pc[f] = "end"
                      /\ lf = IF pc[f] = "yield" THEN "body" ELSE IF pc[f] = "await" THEN "resumed" ELSE "end"
                      /\ hand' = IF pc[f] = "end" THEN [hand EXCEPT ![x] = f] ELSE hand
                      /\ scheduled' = scheduled \union (IF pc[f] = "yield" THEN {f} ELSE {})
                      /\ awaiting' = awaiting \union (IF pc[f] = "await" THEN {f} ELSE {})
    <2>1. CASE pc[f] = "end"
      <3>1. f \in completed_
        BY <1>2, <2>1 DEF SavedRight
      <3> QED BY <1>0, <1>2, <1>t, <2>1, <3>1, ActivitiesCall DEF Returned
    <2>2. CASE pc[f] # "end"
      <3>1. f \notin completed_
        BY <1>2, <2>2 DEF SavedRight
      <3> QED BY <1>0, <1>2, <1>t, <2>2, <3>1, ActivitiesCall DEF Returned
    <2> QED BY <2>1, <2>2
  <1>p. /\ pc'[x] = lx /\ pc'[f] = lf /\ \A y \in Activities : y # x /\ y # f => pc'[y] = pc[y]
        /\ gCurrentFiber'[w] = initial[x] /\ \A v \in Threads : v # w => gCurrentFiber'[v] = gCurrentFiber[v]
        /\ initial'[x] = nullptr /\ \A y \in Activities : y # x => initial'[y] = initial[y]
        /\ hand'[x] = (IF lx = "destroy" THEN f ELSE hand[x])
        /\ \A y \in Activities : y # x => hand'[y] = hand[y]
    BY <1>1, <1>2, <1>3, <1>t, ActivitiesCall
  <1>f. /\ running[w] = x /\ pc[x] = "run"
        /\ lx \in {"body", "destroy"} /\ (lx = "destroy" <=> pc[f] = "end")
        /\ lf = IF pc[f] = "yield" THEN "body" ELSE IF pc[f] = "await" THEN "resumed" ELSE "end"
        /\ scheduled' = scheduled \union (IF pc[f] = "yield" THEN {f} ELSE {})
        /\ awaiting' = awaiting \union (IF pc[f] = "await" THEN {f} ELSE {})
        /\ UNCHANGED <<pooling, memory, next, stack_of_stack_, lock_>>
        /\ UNCHANGED <<context, running, caller_context_, completed_, gSwitchFiberBuffer>>
    BY <1>1, <1>3
  <1>4. \A y : (Waits(y)' <=> Waits(y)) /\ (Calls(y)' <=> Calls(y)) /\ (Executes(y)' <=> Executes(y))
    BY <1>1 DEF Waits, Calls, Executes
  <1>5. \A g \in Stacks : Waits(g) /\ g # f => g # x /\ pc'[g] = pc[g]
    BY <1>f, <1>p, ActivitiesCall DEF SavedRight
  <1>h. hand[x] = nullptr /\ hand[f] = nullptr
    BY <1>2, <1>f, ActivitiesCall, PoolTypes DEF HandsMatchCalls
  <1>6. PoolIInv'
    <2>1. PoolTypeOK'
      <3>1. pc' \in [Activities -> Labels]
        BY <1>t, <1>3
      <3>2. hand' \in [Activities -> Stacks \union {nullptr}]
        BY <1>t, <1>2, <1>3
      <3> QED BY <1>f, <3>1, <3>2, ActivitiesCall, PoolTypes DEF PoolTypeOK
    <2>2. HandsMatchCalls'
      <3>1. /\ pc'[x] \in {"body", "destroy"} /\ (hand'[x] # nullptr <=> pc'[x] = "destroy")
            /\ pc'[x] = "destroy" => memory[hand'[x]] = "fiber"
        BY <1>p, <1>f, <1>h, <1>2
      <3>2. pc'[f] \in {"body", "resumed", "end"} /\ hand'[f] = nullptr
        BY <1>p, <1>f, <1>h, <1>2, ActivitiesCall
      <3> QED BY <1>p, <1>f, <3>1, <3>2, ActivitiesCall, PoolTypes DEF HandsMatchCalls
    <2>3. \A s \in Stacks : s # f => (InHand(s)' <=> InHand(s))
      BY <1>p, <1>h, ActivitiesCall DEF InHand
    <2>4. HandsAreFull'
      <3>1. \A s \in Stacks : memory[s] = "raw" => InHand(s)'
        BY <1>2, <2>3, PoolTypes DEF HandsAreFull
      <3>2. \A y \in Activities : hand'[y] # nullptr => memory[hand'[y]] # "none"
        BY <1>p, <1>2, ActivitiesCall, PoolTypes DEF HandsAreFull
      <3>3. \A y, z \in Activities : hand'[y] = hand'[z] /\ hand'[y] # nullptr => y = z
        BY <1>p, <1>2, <1>h, ActivitiesCall, PoolTypes DEF HandsAreFull
      <3> QED BY <1>f, <3>1, <3>2, <3>3, ActivitiesCall DEF HandsAreFull
    <2>5. \A s \in Stacks : memory[s] = "node" => (InHand(s)' <=> InHand(s))
      BY <1>2, <2>3
    <2> QED BY <1>f, <2>1, <2>2, <2>4, <2>5, PoolIsKept
  <1>7. FiberTypeOK'
    <2>1. gCurrentFiber' \in [Threads -> Stacks \union {nullptr}] /\ initial' \in [Activities -> Stacks \union {nullptr}]
      BY <1>1, <1>t
    <2>2. scheduled' \subseteq Stacks /\ awaiting' \subseteq Stacks
      BY <1>2, <1>f DEF FiberTypeOK, TypeOK
    <2> QED BY <1>f, <1>6, <2>1, <2>2 DEF FiberTypeOK, TypeOK, PoolIInv, StackHasOneUser
  <1>8. SavedRight'
    <2>1. \A y \in Activities : Calls(y) => pc'[y] = "run"
      BY <1>2, <1>p DEF SavedRight
    <2>2. \A t \in Stacks : Waits(t) =>
             memory[t] = "fiber" /\ pc'[t] \in {"body", "resumed", "yield", "await", "end"} /\ ~ Executes(t)
      BY <1>2, <1>f, <1>p, <1>5 DEF SavedRight
    <2>3. \A t \in Stacks : memory[t] # "fiber" => pc'[t] = "body" /\ ~ Executes(t) /\ ~ Calls(t)
      BY <1>2, <1>f, <1>p, ActivitiesCall DEF SavedRight
    <2>4. \A t \in Stacks : t \in completed_ <=> pc'[t] = "end"
      BY <1>2, <1>f, <1>p, ActivitiesCall DEF SavedRight
    <2> QED BY <1>4, <1>f, <2>1, <2>2, <2>3, <2>4 DEF SavedRight
  <1>9. HeldRight'
    <2>1. \A v \in Threads : running[v] \in Activities /\ running[v] # f /\ (v # w => running[v] # x)
      BY <1>2, <1>f, <1>t DEF Executes, SavedRight
    <2>2. \A v \in Threads : /\ pc'[running[v]] = "run" => v # w /\ pc[running[v]] = "run"
                             /\ pc[running[v]] = "resumed" => pc'[running[v]] = "resumed"
      BY <1>f, <1>p, <2>1
    <2>3. \A g \in scheduled : g \in Stacks /\ Waits(g) /\ pc[g] \in {"body", "resumed"} /\ g \notin awaiting /\ g # f
      BY <1>2 DEF HeldRight, FiberTypeOK, TypeOK
    <2>4. \A g \in awaiting : g \in Stacks /\ Waits(g) /\ pc[g] = "resumed" /\ g # f
      BY <1>2 DEF HeldRight, FiberTypeOK, TypeOK
    <2>5. \A g \in scheduled' : Waits(g) /\ pc'[g] \in {"body", "resumed"} /\ g \notin awaiting'
      BY <1>2, <1>5, <1>f, <1>p, <2>3, <2>4
    <2>6. \A g \in awaiting' : Waits(g) /\ pc'[g] = "resumed"
      BY <1>2, <1>5, <1>f, <1>p, <2>4
    <2>7. \A v \in Threads : gSwitchFiberBuffer[v] # nullptr =>
             /\ Waits(gSwitchFiberBuffer[v]) /\ pc'[gSwitchFiberBuffer[v]] = "body" /\ gSwitchFiberBuffer[v] \notin scheduled'
             /\ pc'[running[v]] = "resumed"
             /\ \A u \in Threads : gSwitchFiberBuffer[u] = gSwitchFiberBuffer[v] => u = v
      <3>1. \A v \in Threads : gSwitchFiberBuffer[v] # nullptr =>
               /\ gSwitchFiberBuffer[v] \in Stacks /\ gSwitchFiberBuffer[v] # f
               /\ Waits(gSwitchFiberBuffer[v]) /\ pc[gSwitchFiberBuffer[v]] = "body" /\ gSwitchFiberBuffer[v] \notin scheduled
               /\ pc[running[v]] = "resumed"
               /\ \A u \in Threads : gSwitchFiberBuffer[u] = gSwitchFiberBuffer[v] => u = v
        BY <1>2 DEF HeldRight, FiberTypeOK
      <3> QED BY <1>5, <1>f, <2>2, <3>1
    <2>8. \A v \in Threads : pc'[running[v]] = "run" =>
             LET g == gCurrentFiber'[v] IN
             /\ g \in Stacks /\ Waits(gCurrentFiber[v])' /\ pc'[g] \in {"yield", "await", "end"}
             /\ \A u \in Threads : pc'[running[u]] = "run" /\ gCurrentFiber'[u] = g => u = v
             /\ \A y \in Activities : hand'[y] # g
      <3>1. SUFFICES ASSUME NEW v \in Threads, pc'[running[v]] = "run"
                     PROVE  LET g == gCurrentFiber'[v] IN
                            /\ g \in Stacks /\ Waits(gCurrentFiber[v])' /\ pc'[g] \in {"yield", "await", "end"}
                            /\ \A u \in Threads : pc'[running[u]] = "run" /\ gCurrentFiber'[u] = g => u = v
                            /\ \A y \in Activities : hand'[y] # g
        OBVIOUS
      <3>2. PICK g : g = gCurrentFiber[v] /\ g = gCurrentFiber'[v] /\ v # w /\ pc[running[v]] = "run"
        BY <1>p, <2>2, <3>1
      <3>3. /\ g \in Stacks /\ Waits(g) /\ pc[g] \in {"yield", "await", "end"} /\ g # f
            /\ \A u \in Threads : pc[running[u]] = "run" /\ gCurrentFiber[u] = g => u = v
            /\ \A y \in Activities : hand[y] # g
        <4>1. pc[running[v]] = "run" /\ v # w /\ g = gCurrentFiber[v]
          BY <3>2
        <4>2. /\ gCurrentFiber[v] \in Stacks /\ Waits(gCurrentFiber[v]) /\ pc[gCurrentFiber[v]] \in {"yield", "await", "end"}
              /\ \A u \in Threads : pc[running[u]] = "run" /\ gCurrentFiber[u] = gCurrentFiber[v] => u = v
              /\ \A y \in Activities : hand[y] # gCurrentFiber[v]
          BY <4>1 DEF HeldRight
        <4>3. g # f
          BY <1>2, <4>1
        <4> QED BY <4>1, <4>2, <4>3
      <3>4. \A u \in Threads : pc'[running[u]] = "run" /\ gCurrentFiber'[u] = g => u = v
        BY <1>p, <2>2, <3>3
      <3>5. \A y \in Activities : hand'[y] # g
        BY <1>p, <3>3
      <3>6. Waits(gCurrentFiber[v])'
        BY <1>f, <3>2, <3>3 DEF Waits
      <3> QED BY <1>5, <3>2, <3>3, <3>4, <3>5, <3>6
    <2>9. \A y \in Activities : pc'[y] = "destroy" => context[coro_context(hand'[y])] = hand'[y] /\ pc'[hand'[y]] = "end"
      <3>1. SUFFICES ASSUME NEW y \in Activities, pc'[y] = "destroy"
                     PROVE  context[coro_context(hand'[y])] = hand'[y] /\ pc'[hand'[y]] = "end"
        OBVIOUS
      <3>2. CASE y = x
        BY <1>2, <1>f, <1>p, <3>1, <3>2 DEF Waits
      <3>3. CASE y # x
        <4>1. pc[y] = "destroy" /\ hand'[y] = hand[y] /\ hand[y] \in Stacks /\ hand[y] # f
          BY <1>2, <1>f, <1>p, <1>t, <3>1, <3>3, ActivitiesCall, PoolTypes DEF HandsMatchCalls
        <4>2. Waits(hand[y]) /\ pc[hand[y]] = "end"
          BY <4>1 DEF HeldRight
        <4> QED BY <1>5, <4>1, <4>2 DEF Waits
      <3> QED BY <3>2, <3>3
    <2> QED BY <1>f, <1>4, <2>5, <2>6, <2>7, <2>8, <2>9 DEF HeldRight, Waits
  <1>10. CallersRight'
    <2>1. Active' = Active /\ (\A h : IsHome(h)' <=> IsHome(h))
      BY <1>f DEF Active, IsHome, CallerOf
    <2>2. \A y \in Activities : pc'[y] = "run" => y # x /\ pc[y] = "run"
      BY <1>f, <1>p, <1>2
    <2>3. initial[x] = IF x \in Stacks THEN x ELSE nullptr
      BY <1>f DEF CallersRight
    <2>4. \A v \in Threads : v # w => running[v] # x /\ running[v] # f /\ running[v] \in Activities
      BY <1>2, <1>f, <1>t DEF SavedRight, Executes
    <2>5. \A v \in Threads : pc'[running[v]] # "run" =>
             gCurrentFiber'[v] = IF running[v] \in Stacks THEN running[v] ELSE nullptr
      BY <1>f, <1>p, <2>3, <2>4 DEF CallersRight
    <2>6. \A y \in Activities : pc'[y] = "run" => initial'[y] = IF y \in Stacks THEN y ELSE nullptr
      BY <1>p, <2>2 DEF CallersRight
    <2> QED BY <1>f, <1>4, <2>1, <2>5, <2>6 DEF CallersRight
  <1> QED BY <1>6, <1>7, <1>8, <1>9, <1>10

-----------------------------------------------------------------------------
\* The callers of active fibers, by name; the second lemma is of the next state.
LEMMA CallersAre ==
  ASSUME IInv, NEW s \in Active
  PROVE  CallerOf(s) \in Activities /\ caller_context_[s] = caller_context(CallerOf(s)) /\ Calls(CallerOf(s))
  <1>1. PICK y \in Activities : caller_context_[s] = caller_context(y) /\ Calls(y)
    BY DEF IInv, CallersRight
  <1>2. CallerOf(s) = y
    BY <1>1, CallerIs DEF Active
  <1> QED BY <1>1, <1>2

LEMMA NextCallerIs ==
  ASSUME NEW s \in Stacks, NEW y \in Activities, caller_context_'[s] = caller_context(y)
  PROVE  CallerOf(s)' = y
  <1>1. s \notin Threads /\ caller_context(y) # nullptr
    BY ContextNames, FiberCoreAssumption
  <1> QED BY <1>1 DEF CallerOf, caller_context

\* Who executes code of its own is not saved anywhere, and has its own fiber current.
LEMMA InBodyFacts ==
  ASSUME IInv, NEW w \in Threads, NEW x \in Activities, InBody(x, w)
  PROVE  /\ running[w] = x /\ pc[x] = "body" /\ Executes(x) /\ ~ Calls(x)
         /\ \A v \in Threads : v # w => running[v] # x
         /\ \A f \in Stacks : Waits(f) => f # x
         /\ x \in Stacks => x \in Active /\ x \notin completed_
         /\ \A y \in Activities : hand[y] = x => x \notin Stacks
         /\ gCurrentFiber[w] = IF x \in Stacks THEN x ELSE nullptr
         /\ gSwitchFiberBuffer[w] = nullptr
         /\ context[caller_context(x)] = nullptr
  <1> USE DEF IInv
  <1>1. running[w] = x /\ pc[x] = "body" /\ Executes(x)
    BY DEF InBody, Executes
  <1>2. /\ ~ Calls(x) /\ (\A v \in Threads : v # w => running[v] # x) /\ (\A f \in Stacks : Waits(f) => f # x)
        /\ x \in Stacks => memory[x] = "fiber" /\ x \notin completed_
    BY <1>1 DEF SavedRight
  <1>3. x \in Stacks => x \in Active
    BY <1>2 DEF Active, Waits
  <1>4. \A y \in Activities : hand[y] = x => x \notin Stacks
    <2>1. SUFFICES ASSUME NEW y \in Activities, hand[y] = x, x \in Stacks PROVE FALSE
      OBVIOUS
    <2>2. memory[hand[y]] = "fiber" /\ hand[y] # nullptr
      BY <1>2, <2>1
    <2>3. pc[y] = "destroy"
      BY <2>2, ActivitiesCall, PoolTypes DEF HandsMatchCalls
    <2>4. Waits(x)
      BY <2>1, <2>3 DEF HeldRight
    <2> QED BY <1>2, <2>1, <2>4
  <1>5. gCurrentFiber[w] = IF x \in Stacks THEN x ELSE nullptr
    BY <1>1 DEF CallersRight
  <1>6. gSwitchFiberBuffer[w] = nullptr
    BY <1>1 DEF HeldRight
  <1>7. context[caller_context(x)] = nullptr
    BY <1>2 DEF SavedRight, Calls
  <1> QED BY <1>1, <1>2, <1>3, <1>4, <1>5, <1>6, <1>7

\* The steps that switch contexts do not touch the pool, but for labels of fibers.
LEMMA SwitchPoolIInv ==
  ASSUME PoolIInv, NEW x \in Activities, pc[x] = "body", NEW l \in {"body", "run", "yield", "await", "end"},
         pc' = [pc EXCEPT ![x] = l], UNCHANGED poolState
  PROVE  PoolIInv'
  <1>1. UNCHANGED <<pooling, memory, next, stack_of_stack_, lock_, hand>>
    BY DEF poolState
  <1>2. \A y \in Activities : pc'[y] = IF y = x THEN l ELSE pc[y]
    BY PoolTypes
  <1>3. PoolTypeOK'
    BY <1>1, ActivitiesCall, PoolTypes DEF PoolTypeOK
  <1>4. HandsAreFull'
    BY <1>1, PoolTypes DEF HandsAreFull, InHand
  <1>5. HandsMatchCalls'
    BY <1>1, <1>2, ActivitiesCall, PoolTypes DEF HandsMatchCalls
  <1> QED BY <1>1, <1>3, <1>4, <1>5, PoolIsKept DEF InHand

\* Run: its caller is saved in the local of Resume, the fiber executes.
LEMMA RunIInv ==
  ASSUME IInv, NEW x \in Activities, NEW w \in Threads, NEW f \in Stacks, Run(x, w, f)
  PROVE  IInv'
  <1> USE DEF IInv
  <1>t. /\ pc \in [Activities -> Labels] /\ running \in [Threads -> Activities]
        /\ context \in [Contexts -> Activities \union {nullptr}]
        /\ caller_context_ \in [Stacks -> Contexts \union {nullptr}]
        /\ gCurrentFiber \in [Threads -> Stacks \union {nullptr}]
        /\ initial \in [Activities -> Stacks \union {nullptr}]
        /\ gSwitchFiberBuffer \in [Threads -> Stacks \union {nullptr}]
        /\ scheduled \subseteq Stacks /\ awaiting \subseteq Stacks
    BY PoolTypes DEF FiberTypeOK, TypeOK
  <1>b. InBody(x, w) /\ running[w] = x /\ pc[x] = "body"
    BY DEF Run, InBody
  <1>1. f \in scheduled /\ Waits(f) /\ pc[f] \in {"body", "resumed"} /\ f \notin awaiting /\ f # x
    BY <1>b, InBodyFacts DEF Run, HeldRight
  <1>2. memory[f] = "fiber" /\ ~ Executes(f) /\ ~ Calls(f) /\ f \notin completed_ /\ f \notin Active
    BY <1>1, ActivitiesCall DEF SavedRight, Active, Waits
  <1>3. /\ context' = [context EXCEPT ![caller_context(x)] = x, ![coro_context(f)] = nullptr]
        /\ running' = [running EXCEPT ![w] = f]
    BY <1>b, <1>1 DEF Run, SwitchContext, Waits
  <1>4. /\ pc' = [pc EXCEPT ![x] = "run"]
        /\ initial' = [initial EXCEPT ![x] = gCurrentFiber[w]]
        /\ gCurrentFiber' = [gCurrentFiber EXCEPT ![w] = f]
        /\ caller_context_' = [caller_context_ EXCEPT ![f] = caller_context(x)]
        /\ scheduled' = scheduled \ {f}
        /\ UNCHANGED poolState
        /\ UNCHANGED <<completed_, gSwitchFiberBuffer, awaiting>>
    BY DEF Run, Goto
  <1>p. /\ pc'[x] = "run" /\ \A y \in Activities : y # x => pc'[y] = pc[y]
        /\ running'[w] = f /\ \A v \in Threads : v # w => running'[v] = running[v]
        /\ initial'[x] = gCurrentFiber[w] /\ \A y \in Activities : y # x => initial'[y] = initial[y]
        /\ gCurrentFiber'[w] = f /\ \A v \in Threads : v # w => gCurrentFiber'[v] = gCurrentFiber[v]
        /\ caller_context_'[f] = caller_context(x)
        /\ \A s \in Stacks : s # f => caller_context_'[s] = caller_context_[s]
    BY <1>3, <1>4, <1>t
  <1>f. /\ scheduled' = scheduled \ {f}
        /\ UNCHANGED <<memory, hand, completed_, gSwitchFiberBuffer, awaiting>>
    BY <1>4 DEF poolState
  <1>c. /\ context'[caller_context(x)] = x /\ context'[coro_context(f)] = nullptr
        /\ \A y \in Activities : y # x => context'[caller_context(y)] = context[caller_context(y)]
        /\ \A s \in Stacks : s # f => context'[coro_context(s)] = context[coro_context(s)]
    BY <1>3, <1>t, ContextNames
  <1>w. /\ \A s \in Stacks : Waits(s)' <=> Waits(s) /\ s # f
        /\ \A y \in Activities : Calls(y)' <=> Calls(y) \/ y = x
        /\ \A y \in Activities : Executes(y)' <=> (Executes(y) /\ y # x) \/ y = f
    <2>1. \A s \in Stacks : Waits(s)' <=> Waits(s) /\ s # f
      BY <1>c DEF Waits
    <2>2. \A y \in Activities : Calls(y)' <=> Calls(y) \/ y = x
      BY <1>c DEF Calls
    <2>3. \A y \in Activities : Executes(y)' <=> (Executes(y) /\ y # x) \/ y = f
      BY <1>p, <1>b, <1>1, InBodyFacts DEF Executes
    <2> QED BY <2>1, <2>2, <2>3
  <1>5. PoolIInv'
    BY <1>b, <1>4, SwitchPoolIInv
  <1>6. FiberTypeOK'
    <2>1. /\ context' \in [Contexts -> Activities \union {nullptr}]
          /\ caller_context_' \in [Stacks -> Contexts \union {nullptr}]
          /\ running' \in [Threads -> Activities]
          /\ gCurrentFiber' \in [Threads -> Stacks \union {nullptr}]
          /\ initial' \in [Activities -> Stacks \union {nullptr}]
      BY <1>3, <1>4, <1>t, ContextNames
    <2> QED BY <1>f, <1>5, <2>1 DEF FiberTypeOK, TypeOK, PoolIInv, StackHasOneUser
  <1>7. SavedRight'
    <2>1. \A v, u \in Threads : running'[v] = running'[u] => v = u
      BY <1>p, <1>2 DEF SavedRight, Executes
    <2>2. \A s \in Stacks : context'[coro_context(s)] \in {s, nullptr}
      BY <1>c DEF SavedRight
    <2>3. \A y \in Activities : context'[caller_context(y)] \in {y, nullptr}
      BY <1>c DEF SavedRight
    <2>4. \A y \in Activities : Calls(y)' => pc'[y] = "run" /\ ~ Executes(y)'
      BY <1>p, <1>w, <1>1, <1>2 DEF SavedRight
    <2>5. \A s \in Stacks : Waits(s)' =>
             memory[s] = "fiber" /\ pc'[s] \in {"body", "resumed", "yield", "await", "end"} /\ ~ Executes(s)'
      BY <1>p, <1>w, <1>b, InBodyFacts, ActivitiesCall DEF SavedRight
    <2>6. \A y \in Activities : y \in Threads \/ memory[y] = "fiber" =>
             Executes(y)' \/ Calls(y)' \/ (y \in Stacks /\ Waits(y)')
      BY <1>w, <1>1 DEF SavedRight
    <2>7. \A s \in Stacks : memory[s] # "fiber" => pc'[s] = "body" /\ ~ Executes(s)' /\ ~ Calls(s)'
      <3>1. x \in Stacks => memory[x] = "fiber"
        BY <1>b, InBodyFacts DEF Active
      <3> QED BY <1>p, <1>w, <1>2, <3>1, ActivitiesCall DEF SavedRight
    <2>8. \A s \in Stacks : s \in completed_ <=> pc'[s] = "end"
      BY <1>p, <1>b, ActivitiesCall DEF SavedRight
    <2> QED BY <1>f, <2>1, <2>2, <2>3, <2>4, <2>5, <2>6, <2>7, <2>8 DEF SavedRight
  <1>8. HeldRight'
    <2>1. \A g \in Stacks : Waits(g) => pc'[g] = pc[g]
      BY <1>p, <1>b, InBodyFacts, ActivitiesCall
    <2>2. \A v \in Threads : /\ pc'[running'[v]] \in {"run", "resumed"} /\ v # w => running'[v] = running[v] /\ pc[running[v]] = pc'[running'[v]]
                             /\ pc'[running'[w]] # "run"
                             /\ v # w => running'[v] = running[v] /\ pc'[running[v]] = pc[running[v]]
      BY <1>p, <1>1, <1>b, <1>t, InBodyFacts, ActivitiesCall
    <2>3. \A g \in scheduled' : Waits(g)' /\ pc'[g] \in {"body", "resumed"} /\ g \notin awaiting
      BY <1>f, <1>w, <1>t, <2>1 DEF HeldRight
    <2>4. \A g \in awaiting : Waits(g)' /\ pc'[g] = "resumed"
      BY <1>1, <1>w, <1>t, <2>1 DEF HeldRight
    <2>5. \A v \in Threads : gSwitchFiberBuffer[v] # nullptr =>
             /\ context'[coro_context(gSwitchFiberBuffer[v])] = gSwitchFiberBuffer[v]
             /\ pc'[gSwitchFiberBuffer[v]] = "body" /\ gSwitchFiberBuffer[v] \notin scheduled'
             /\ pc'[running'[v]] = "resumed"
             /\ \A u \in Threads : gSwitchFiberBuffer[u] = gSwitchFiberBuffer[v] => u = v
      <3>1. SUFFICES ASSUME NEW v \in Threads, gSwitchFiberBuffer[v] # nullptr
                     PROVE  /\ context'[coro_context(gSwitchFiberBuffer[v])] = gSwitchFiberBuffer[v]
                            /\ pc'[gSwitchFiberBuffer[v]] = "body" /\ gSwitchFiberBuffer[v] \notin scheduled'
                            /\ pc'[running'[v]] = "resumed"
                            /\ \A u \in Threads : gSwitchFiberBuffer[u] = gSwitchFiberBuffer[v] => u = v
        OBVIOUS
      <3>2. v # w
        BY <1>b, <3>1, InBodyFacts
      <3>3. /\ gSwitchFiberBuffer[v] \in Stacks
            /\ Waits(gSwitchFiberBuffer[v]) /\ pc[gSwitchFiberBuffer[v]] = "body" /\ gSwitchFiberBuffer[v] \notin scheduled
            /\ pc[running[v]] = "resumed"
            /\ \A u \in Threads : gSwitchFiberBuffer[u] = gSwitchFiberBuffer[v] => u = v
        BY <1>t, <3>1 DEF HeldRight
      <3>4. context'[coro_context(gSwitchFiberBuffer[v])] = gSwitchFiberBuffer[v]
        BY <1>1, <1>c, <3>3 DEF Waits
      <3> QED BY <1>f, <2>1, <2>2, <3>2, <3>3, <3>4
    <2>6. \A v \in Threads : pc'[running'[v]] = "run" =>
             LET g == gCurrentFiber'[v] IN
             /\ g \in Stacks /\ context'[coro_context(g)] = g /\ pc'[g] \in {"yield", "await", "end"}
             /\ \A u \in Threads : pc'[running'[u]] = "run" /\ gCurrentFiber'[u] = g => u = v
             /\ \A y \in Activities : hand[y] # g
      <3>1. SUFFICES ASSUME NEW v \in Threads, pc'[running'[v]] = "run"
                     PROVE  LET g == gCurrentFiber'[v] IN
                            /\ g \in Stacks /\ context'[coro_context(g)] = g /\ pc'[g] \in {"yield", "await", "end"}
                            /\ \A u \in Threads : pc'[running'[u]] = "run" /\ gCurrentFiber'[u] = g => u = v
                            /\ \A y \in Activities : hand[y] # g
        OBVIOUS
      <3>2. v # w /\ pc[running[v]] = "run" /\ gCurrentFiber'[v] = gCurrentFiber[v]
        BY <1>p, <2>2, <3>1
      <3>3. /\ gCurrentFiber[v] \in Stacks /\ Waits(gCurrentFiber[v]) /\ pc[gCurrentFiber[v]] \in {"yield", "await", "end"}
            /\ \A u \in Threads : pc[running[u]] = "run" /\ gCurrentFiber[u] = gCurrentFiber[v] => u = v
            /\ \A y \in Activities : hand[y] # gCurrentFiber[v]
        BY <3>2 DEF HeldRight
      <3>4. context'[coro_context(gCurrentFiber[v])] = gCurrentFiber[v] /\ pc'[gCurrentFiber[v]] = pc[gCurrentFiber[v]]
        BY <1>1, <1>c, <2>1, <3>3 DEF Waits
      <3>5. \A u \in Threads : pc'[running'[u]] = "run" /\ gCurrentFiber'[u] = gCurrentFiber[v] => u = v
        BY <1>p, <2>2, <3>3
      <3> QED BY <3>2, <3>3, <3>4, <3>5
    <2>7. \A y \in Activities : pc'[y] = "destroy" => context'[coro_context(hand[y])] = hand[y] /\ pc'[hand[y]] = "end"
      <3>1. \A y \in Activities : pc'[y] = "destroy" => pc[y] = "destroy"
        BY <1>p
      <3>2. \A y \in Activities : pc[y] = "destroy" => hand[y] \in Stacks /\ Waits(hand[y]) /\ pc[hand[y]] = "end"
        BY PoolTypes, ActivitiesCall DEF HandsMatchCalls, HeldRight
      <3> QED BY <1>1, <1>c, <2>1, <3>1, <3>2 DEF Waits
    <2> QED BY <1>f, <2>3, <2>4, <2>5, <2>6, <2>7 DEF HeldRight, Waits
  <1>9. CallersRight'
    <2>1. Active' = Active \union {f}
      BY <1>f, <1>c, <1>2 DEF Active
    <2>2. \A s \in Active : /\ s \in Stacks /\ s # f /\ caller_context_'[s] = caller_context_[s]
                            /\ CallerOf(s) \in Activities /\ caller_context_[s] = caller_context(CallerOf(s))
                            /\ Calls(CallerOf(s)) /\ CallerOf(s) # x /\ CallerOf(s) # f
      BY <1>p, <1>2, <1>b, CallersAre, InBodyFacts DEF Active
    <2>3. \A s \in Active' : \E y \in Activities : caller_context_'[s] = caller_context(y) /\ Calls(y)'
      BY <1>p, <1>w, <2>1, <2>2
    <2>4. \A s, t \in Active' : caller_context_'[s] = caller_context_'[t] => s = t
      <3>1. \A s \in Active : caller_context_'[s] # caller_context(x)
        BY <2>2, ContextNames
      <3> QED BY <1>p, <2>1, <2>2, <3>1 DEF CallersRight
    <2>5. \E home \in [Activities -> Threads] : IsHome(home)'
      <3>1. PICK home \in [Activities -> Threads] : IsHome(home)
        BY DEF CallersRight
      <3>2. PICK new : new = [home EXCEPT ![f] = w]
        OBVIOUS
      <3>3. new \in [Activities -> Threads] /\ new[f] = w /\ \A y \in Activities : y # f => new[y] = home[y]
        BY <3>1, <3>2, ActivitiesCall
      <3>4. \A v \in Threads : home[v] = v /\ home[running[v]] = v /\ v # f /\ running[v] # f
        BY <1>2, <3>1, FiberCoreAssumption DEF IsHome, Executes
      <3>5. \A v \in Threads : new[v] = v /\ new[running'[v]] = v
        BY <1>p, <1>t, <3>3, <3>4, ActivitiesCall
      <3>6. \A s \in Active : CallerOf(s)' = CallerOf(s) /\ new[s] = new[CallerOf(s)']
        <4>1. \A s \in Active : CallerOf(s)' = CallerOf(s)
          BY <2>2, NextCallerIs
        <4>2. \A s \in Active : home[s] = home[CallerOf(s)] /\ s \in Activities /\ s # f
          BY <2>2, <3>1, ActivitiesCall DEF IsHome
        <4>3. \A s \in Active : new[s] = new[CallerOf(s)]
          BY <2>2, <3>3, <4>2
        <4> QED BY <4>1, <4>3
      <3>7. CallerOf(f)' = x /\ new[x] = w
        BY <1>p, <1>1, <1>b, <3>1, <3>3, NextCallerIs DEF IsHome
      <3>8. IsHome(new)'
        BY <2>1, <3>3, <3>5, <3>6, <3>7 DEF IsHome
      <3> QED BY <3>3, <3>8
    <2>6. \A v \in Threads : pc'[running'[v]] # "run" =>
             gCurrentFiber'[v] = IF running'[v] \in Stacks THEN running'[v] ELSE nullptr
      BY <1>p, <1>t, <1>b, InBodyFacts DEF CallersRight
    <2>7. \A y \in Activities : pc'[y] = "run" => initial'[y] = IF y \in Stacks THEN y ELSE nullptr
      BY <1>p, <1>b, InBodyFacts DEF CallersRight
    <2> QED BY <2>3, <2>4, <2>5, <2>6, <2>7 DEF CallersRight
  <1> QED BY <1>5, <1>6, <1>7, <1>8, <1>9

\* A fiber goes back to the Run that its caller_context_ belongs to.
LEMMA LeaveIInv ==
  ASSUME IInv, NEW f \in Stacks, NEW w \in Threads,
         NEW label \in {"yield", "await", "end"}, Leave(f, w, label),
         completed_' = IF label = "end" THEN completed_ \union {f} ELSE completed_
  PROVE  IInv'
  <1> USE DEF IInv
  <1>t. /\ pc \in [Activities -> Labels] /\ running \in [Threads -> Activities]
        /\ context \in [Contexts -> Activities \union {nullptr}]
        /\ gCurrentFiber \in [Threads -> Stacks \union {nullptr}]
        /\ gSwitchFiberBuffer \in [Threads -> Stacks \union {nullptr}]
        /\ scheduled \subseteq Stacks /\ awaiting \subseteq Stacks
        /\ f \in Activities
    BY PoolTypes, ActivitiesCall DEF FiberTypeOK, TypeOK
  <1>b. InBody(f, w) /\ running[w] = f /\ pc[f] = "body"
    BY DEF Leave, InBody
  <1>1. /\ f \in Active /\ memory[f] = "fiber" /\ ~ Calls(f) /\ ~ Waits(f) /\ gCurrentFiber[w] = f
        /\ gSwitchFiberBuffer[w] = nullptr /\ (\A z \in Activities : hand[z] # f)
        /\ \A v \in Threads : v # w => running[v] # f
    BY <1>t, <1>b, InBodyFacts DEF Active
  <1>y. PICK y \in Activities : y = CallerOf(f) /\ caller_context_[f] = caller_context(y) /\ Calls(y)
    BY <1>1, CallersAre
  <1>2. y # f /\ pc[y] = "run" /\ ~ Executes(y)
    BY <1>y, <1>b DEF SavedRight
  <1>3. /\ context' = [context EXCEPT ![coro_context(f)] = f, ![caller_context(y)] = nullptr]
        /\ running' = [running EXCEPT ![w] = y]
    BY <1>b, <1>y DEF Leave, SwitchContext, Calls
  <1>4. /\ pc' = [pc EXCEPT ![f] = label]
        /\ UNCHANGED poolState
        /\ UNCHANGED <<caller_context_, gCurrentFiber, initial, gSwitchFiberBuffer, scheduled, awaiting>>
    BY DEF Leave, Goto, fiberVars
  <1>p. /\ pc'[f] = label /\ \A z \in Activities : z # f => pc'[z] = pc[z]
        /\ running'[w] = y /\ \A v \in Threads : v # w => running'[v] = running[v]
    BY <1>3, <1>4, <1>t
  <1>f. /\ completed_' = IF label = "end" THEN completed_ \union {f} ELSE completed_
        /\ UNCHANGED <<memory, hand, caller_context_, gCurrentFiber, initial, gSwitchFiberBuffer, scheduled, awaiting>>
    BY <1>4 DEF poolState
  <1>c. /\ context'[coro_context(f)] = f /\ context'[caller_context(y)] = nullptr
        /\ \A z \in Activities : z # y => context'[caller_context(z)] = context[caller_context(z)]
        /\ \A s \in Stacks : s # f => context'[coro_context(s)] = context[coro_context(s)]
    BY <1>3, <1>t, ContextNames
  <1>w. /\ \A s \in Stacks : Waits(s)' <=> Waits(s) \/ s = f
        /\ \A z \in Activities : Calls(z)' <=> Calls(z) /\ z # y
        /\ \A z \in Activities : Executes(z)' <=> (Executes(z) /\ z # f) \/ z = y
    <2>1. \A s \in Stacks : Waits(s)' <=> Waits(s) \/ s = f
      BY <1>c DEF Waits
    <2>2. \A z \in Activities : Calls(z)' <=> Calls(z) /\ z # y
      BY <1>c, ContextNames DEF Calls
    <2>3. \A z \in Activities : Executes(z)' <=> (Executes(z) /\ z # f) \/ z = y
      BY <1>p, <1>b, <1>1, <1>2 DEF Executes
    <2> QED BY <2>1, <2>2, <2>3
  <1>5. PoolIInv'
    BY <1>b, <1>t, <1>4, SwitchPoolIInv
  <1>6. FiberTypeOK'
    <2>1. /\ context' \in [Contexts -> Activities \union {nullptr}]
          /\ running' \in [Threads -> Activities]
      BY <1>3, <1>t, ContextNames
    <2>2. completed_' \subseteq Stacks
      BY <1>f DEF FiberTypeOK, TypeOK
    <2> QED BY <1>f, <1>5, <2>1, <2>2 DEF FiberTypeOK, TypeOK, PoolIInv, StackHasOneUser
  <1>7. SavedRight'
    <2>1. \A v, u \in Threads : running'[v] = running'[u] => v = u
      BY <1>p, <1>2 DEF SavedRight, Executes
    <2>2. \A s \in Stacks : context'[coro_context(s)] \in {s, nullptr}
      BY <1>c DEF SavedRight
    <2>3. \A z \in Activities : context'[caller_context(z)] \in {z, nullptr}
      BY <1>c DEF SavedRight
    <2>4. \A z \in Activities : Calls(z)' => pc'[z] = "run" /\ ~ Executes(z)'
      BY <1>p, <1>w, <1>1 DEF SavedRight
    <2>5. \A s \in Stacks : Waits(s)' =>
             memory[s] = "fiber" /\ pc'[s] \in {"body", "resumed", "yield", "await", "end"} /\ ~ Executes(s)'
      BY <1>p, <1>w, <1>1, <1>2, ActivitiesCall DEF SavedRight
    <2>6. \A z \in Activities : z \in Threads \/ memory[z] = "fiber" =>
             Executes(z)' \/ Calls(z)' \/ (z \in Stacks /\ Waits(z)')
      BY <1>w DEF SavedRight
    <2>7. \A s \in Stacks : memory[s] # "fiber" => pc'[s] = "body" /\ ~ Executes(s)' /\ ~ Calls(s)'
      BY <1>p, <1>w, <1>1, <1>2, ActivitiesCall DEF SavedRight
    <2>8. \A s \in Stacks : s \in completed_' <=> pc'[s] = "end"
      BY <1>p, <1>f, <1>b, ActivitiesCall DEF SavedRight
    <2> QED BY <1>f, <2>1, <2>2, <2>3, <2>4, <2>5, <2>6, <2>7, <2>8 DEF SavedRight
  <1>8. HeldRight'
    <2>1. \A g \in Stacks : Waits(g) => g # f /\ pc'[g] = pc[g]
      BY <1>p, <1>1, ActivitiesCall
    <2>2. \A v \in Threads : v # w => running'[v] = running[v] /\ pc'[running[v]] = pc[running[v]]
      BY <1>p, <1>1, <1>t
    <2>3. \A g \in scheduled : Waits(g)' /\ pc'[g] \in {"body", "resumed"} /\ g \notin awaiting
      BY <1>w, <1>t, <2>1 DEF HeldRight
    <2>4. \A g \in awaiting : Waits(g)' /\ pc'[g] = "resumed"
      BY <1>w, <1>t, <2>1 DEF HeldRight
    <2>5. \A v \in Threads : gSwitchFiberBuffer[v] # nullptr =>
             /\ context'[coro_context(gSwitchFiberBuffer[v])] = gSwitchFiberBuffer[v]
             /\ pc'[gSwitchFiberBuffer[v]] = "body" /\ gSwitchFiberBuffer[v] \notin scheduled
             /\ pc'[running'[v]] = "resumed"
             /\ \A u \in Threads : gSwitchFiberBuffer[u] = gSwitchFiberBuffer[v] => u = v
      <3>1. SUFFICES ASSUME NEW v \in Threads, gSwitchFiberBuffer[v] # nullptr
                     PROVE  /\ context'[coro_context(gSwitchFiberBuffer[v])] = gSwitchFiberBuffer[v]
                            /\ pc'[gSwitchFiberBuffer[v]] = "body" /\ gSwitchFiberBuffer[v] \notin scheduled
                            /\ pc'[running'[v]] = "resumed"
                            /\ \A u \in Threads : gSwitchFiberBuffer[u] = gSwitchFiberBuffer[v] => u = v
        OBVIOUS
      <3>2. v # w
        BY <1>1, <3>1
      <3>3. /\ gSwitchFiberBuffer[v] \in Stacks
            /\ Waits(gSwitchFiberBuffer[v]) /\ pc[gSwitchFiberBuffer[v]] = "body" /\ gSwitchFiberBuffer[v] \notin scheduled
            /\ pc[running[v]] = "resumed"
            /\ \A u \in Threads : gSwitchFiberBuffer[u] = gSwitchFiberBuffer[v] => u = v
        BY <1>t, <3>1 DEF HeldRight
      <3>4. context'[coro_context(gSwitchFiberBuffer[v])] = gSwitchFiberBuffer[v]
        BY <2>1, <1>c, <3>3 DEF Waits
      <3> QED BY <2>1, <2>2, <3>2, <3>3, <3>4
    <2>6. \A v \in Threads : pc'[running'[v]] = "run" =>
             LET g == gCurrentFiber[v] IN
             /\ g \in Stacks /\ context'[coro_context(g)] = g /\ pc'[g] \in {"yield", "await", "end"}
             /\ \A u \in Threads : pc'[running'[u]] = "run" /\ gCurrentFiber[u] = g => u = v
             /\ \A z \in Activities : hand[z] # g
      <3>1. ASSUME NEW v \in Threads, v # w, pc'[running'[v]] = "run"
            PROVE  /\ gCurrentFiber[v] \in Stacks /\ gCurrentFiber[v] # f
                   /\ context'[coro_context(gCurrentFiber[v])] = gCurrentFiber[v]
                   /\ pc'[gCurrentFiber[v]] \in {"yield", "await", "end"}
                   /\ \A u \in Threads : u # w /\ pc'[running'[u]] = "run" /\ gCurrentFiber[u] = gCurrentFiber[v] => u = v
                   /\ \A z \in Activities : hand[z] # gCurrentFiber[v]
        <4>1. pc[running[v]] = "run"
          BY <2>2, <3>1
        <4>2. /\ gCurrentFiber[v] \in Stacks /\ Waits(gCurrentFiber[v]) /\ pc[gCurrentFiber[v]] \in {"yield", "await", "end"}
              /\ \A u \in Threads : pc[running[u]] = "run" /\ gCurrentFiber[u] = gCurrentFiber[v] => u = v
              /\ \A z \in Activities : hand[z] # gCurrentFiber[v]
          BY <4>1 DEF HeldRight
        <4>3. /\ gCurrentFiber[v] # f /\ pc'[gCurrentFiber[v]] = pc[gCurrentFiber[v]]
              /\ context'[coro_context(gCurrentFiber[v])] = gCurrentFiber[v]
          BY <2>1, <1>c, <4>2 DEF Waits
        <4>4. \A u \in Threads : u # w /\ pc'[running'[u]] = "run" /\ gCurrentFiber[u] = gCurrentFiber[v] => u = v
          BY <2>2, <4>2
        <4> QED BY <4>2, <4>3, <4>4
      <3>2. /\ gCurrentFiber[w] = f /\ context'[coro_context(f)] = f /\ pc'[f] \in {"yield", "await", "end"}
            /\ \A z \in Activities : hand[z] # f
        BY <1>1, <1>c, <1>p
      <3> QED BY <3>1, <3>2
    <2>7. \A z \in Activities : pc'[z] = "destroy" => context'[coro_context(hand[z])] = hand[z] /\ pc'[hand[z]] = "end"
      <3>1. \A z \in Activities : pc'[z] = "destroy" => pc[z] = "destroy"
        BY <1>p
      <3>2. \A z \in Activities : pc[z] = "destroy" => hand[z] \in Stacks /\ Waits(hand[z]) /\ pc[hand[z]] = "end"
        BY PoolTypes, ActivitiesCall DEF HandsMatchCalls, HeldRight
      <3> QED BY <2>1, <1>c, <3>1, <3>2 DEF Waits
    <2> QED BY <1>f, <2>3, <2>4, <2>5, <2>6, <2>7 DEF HeldRight, Waits
  <1>9. CallersRight'
    <2>1. Active' = Active \ {f}
      BY <1>f, <1>c DEF Active
    <2>2. \A s \in Active' : /\ s \in Stacks /\ s \in Active /\ s # f
                             /\ CallerOf(s) \in Activities /\ caller_context_[s] = caller_context(CallerOf(s))
                             /\ Calls(CallerOf(s)) /\ CallerOf(s) # y /\ CallerOf(s)' = CallerOf(s)
      <3>1. \A s \in Active : s \in Stacks /\ (s # f => caller_context_[s] # caller_context(y))
        BY <1>1, <1>y DEF CallersRight, Active
      <3> QED BY <1>f, <2>1, <3>1, CallersAre, NextCallerIs
    <2>3. \A s \in Active' : \E z \in Activities : caller_context_[s] = caller_context(z) /\ Calls(z)'
      BY <1>w, <2>2
    <2>4. \A s, t \in Active' : caller_context_[s] = caller_context_[t] => s = t
      BY <2>1 DEF CallersRight
    <2>5. \E home \in [Activities -> Threads] : IsHome(home)'
      <3>1. PICK home \in [Activities -> Threads] : IsHome(home)
        BY DEF CallersRight
      <3>2. home[y] = w
        BY <1>1, <1>b, <1>y, <3>1 DEF IsHome
      <3>3. \A v \in Threads : home[running'[v]] = v
        BY <1>p, <3>1, <3>2 DEF IsHome
      <3>4. IsHome(home)'
        BY <2>2, <3>1, <3>3 DEF IsHome
      <3> QED BY <3>4
    <2>6. \A v \in Threads : pc'[running'[v]] # "run" =>
             gCurrentFiber[v] = IF running'[v] \in Stacks THEN running'[v] ELSE nullptr
      BY <1>p, <1>t, <1>1, <1>2 DEF CallersRight
    <2>7. \A z \in Activities : pc'[z] = "run" => initial[z] = IF z \in Stacks THEN z ELSE nullptr
      BY <1>p DEF CallersRight
    <2> QED BY <1>f, <2>3, <2>4, <2>5, <2>6, <2>7 DEF CallersRight
  <1> QED BY <1>5, <1>6, <1>7, <1>8, <1>9

\* A fiber switches to another, which takes its caller over.
LEMMA SwitchToIInv ==
  ASSUME IInv, NEW f \in Stacks, NEW g \in Stacks, NEW w \in Threads, SwitchTo(f, w, g)
  PROVE  IInv'
  <1> USE DEF IInv
  <1>t. /\ pc \in [Activities -> Labels] /\ running \in [Threads -> Activities]
        /\ context \in [Contexts -> Activities \union {nullptr}]
        /\ caller_context_ \in [Stacks -> Contexts \union {nullptr}]
        /\ gCurrentFiber \in [Threads -> Stacks \union {nullptr}]
        /\ gSwitchFiberBuffer \in [Threads -> Stacks \union {nullptr}]
        /\ scheduled \subseteq Stacks /\ awaiting \subseteq Stacks
        /\ f \in Activities /\ g \in Activities
    BY PoolTypes, ActivitiesCall DEF FiberTypeOK, TypeOK
  <1>b. InBody(f, w) /\ running[w] = f /\ pc[f] = "body"
    BY DEF SwitchTo, InBody
  <1>1. /\ f \in Active /\ memory[f] = "fiber" /\ ~ Calls(f) /\ ~ Waits(f)
        /\ gSwitchFiberBuffer[w] = nullptr
        /\ \A v \in Threads : v # w => running[v] # f
    BY <1>t, <1>b, InBodyFacts DEF Active
  <1>2. /\ g \in awaiting /\ Waits(g) /\ pc[g] = "resumed" /\ g # f
        /\ memory[g] = "fiber" /\ ~ Executes(g) /\ ~ Calls(g) /\ g \notin Active
    <2>1. g \in awaiting /\ Waits(g) /\ pc[g] = "resumed"
      BY DEF SwitchTo, HeldRight
    <2> QED BY <1>1, <2>1, <1>t DEF SavedRight, Active, Waits
  <1>y. PICK y \in Activities : y = CallerOf(f) /\ caller_context_[f] = caller_context(y) /\ Calls(y)
    BY <1>1, CallersAre
  <1>3. /\ context' = [context EXCEPT ![coro_context(f)] = f, ![coro_context(g)] = nullptr]
        /\ running' = [running EXCEPT ![w] = g]
    BY <1>b, <1>2 DEF SwitchTo, SwitchContext, Waits
  <1>4. /\ awaiting' = awaiting \ {g}
        /\ gSwitchFiberBuffer' = [gSwitchFiberBuffer EXCEPT ![w] = f]
        /\ gCurrentFiber' = [gCurrentFiber EXCEPT ![w] = g]
        /\ caller_context_' = [caller_context_ EXCEPT ![f] = caller_context_[g], ![g] = caller_context_[f]]
        /\ UNCHANGED <<poolState, pc>>
        /\ UNCHANGED <<completed_, initial, scheduled>>
    BY DEF SwitchTo, SwapCallers, poolVars
  <1>p. /\ running'[w] = g /\ \A v \in Threads : v # w => running'[v] = running[v]
        /\ gCurrentFiber'[w] = g /\ \A v \in Threads : v # w => gCurrentFiber'[v] = gCurrentFiber[v]
        /\ gSwitchFiberBuffer'[w] = f /\ \A v \in Threads : v # w => gSwitchFiberBuffer'[v] = gSwitchFiberBuffer[v]
        /\ caller_context_'[g] = caller_context(y)
        /\ \A s \in Stacks : s # f /\ s # g => caller_context_'[s] = caller_context_[s]
    BY <1>2, <1>3, <1>4, <1>t, <1>y
  <1>f. /\ awaiting' = awaiting \ {g}
        /\ UNCHANGED <<pc, memory, hand, completed_, initial, scheduled>>
    BY <1>4 DEF poolState
  <1>c. /\ context'[coro_context(f)] = f /\ context'[coro_context(g)] = nullptr
        /\ \A z \in Activities : context'[caller_context(z)] = context[caller_context(z)]
        /\ \A s \in Stacks : s # f /\ s # g => context'[coro_context(s)] = context[coro_context(s)]
    BY <1>2, <1>3, <1>t, ContextNames
  <1>w. /\ \A s \in Stacks : Waits(s)' <=> (Waits(s) /\ s # g) \/ s = f
        /\ \A z \in Activities : Calls(z)' <=> Calls(z)
        /\ \A z \in Activities : Executes(z)' <=> (Executes(z) /\ z # f) \/ z = g
    <2>1. \A s \in Stacks : Waits(s)' <=> (Waits(s) /\ s # g) \/ s = f
      BY <1>c, <1>2 DEF Waits
    <2>2. \A z \in Activities : Calls(z)' <=> Calls(z)
      BY <1>c DEF Calls
    <2>3. \A z \in Activities : Executes(z)' <=> (Executes(z) /\ z # f) \/ z = g
      BY <1>p, <1>b, <1>1, <1>2 DEF Executes
    <2> QED BY <2>1, <2>2, <2>3
  <1>5. PoolIInv'
    <2>1. pc' = [pc EXCEPT ![f] = "body"] /\ UNCHANGED poolState
      BY <1>b, <1>4, <1>t
    <2> QED BY <1>b, <1>t, <2>1, SwitchPoolIInv
  <1>6. FiberTypeOK'
    <2>1. /\ context' \in [Contexts -> Activities \union {nullptr}]
          /\ caller_context_' \in [Stacks -> Contexts \union {nullptr}]
          /\ running' \in [Threads -> Activities]
          /\ gCurrentFiber' \in [Threads -> Stacks \union {nullptr}]
          /\ gSwitchFiberBuffer' \in [Threads -> Stacks \union {nullptr}]
      BY <1>3, <1>4, <1>t, ContextNames
    <2> QED BY <1>f, <1>5, <2>1 DEF FiberTypeOK, TypeOK, PoolIInv, StackHasOneUser
  <1>7. SavedRight'
    <2>1. \A v, u \in Threads : running'[v] = running'[u] => v = u
      BY <1>p, <1>2 DEF SavedRight, Executes
    <2>2. \A s \in Stacks : context'[coro_context(s)] \in {s, nullptr}
      BY <1>c DEF SavedRight
    <2>3. \A z \in Activities : context'[caller_context(z)] \in {z, nullptr}
      BY <1>c DEF SavedRight
    <2>4. \A z \in Activities : Calls(z)' => pc[z] = "run" /\ ~ Executes(z)'
      BY <1>w, <1>2 DEF SavedRight
    <2>5. \A s \in Stacks : Waits(s)' =>
             memory[s] = "fiber" /\ pc[s] \in {"body", "resumed", "yield", "await", "end"} /\ ~ Executes(s)'
      BY <1>b, <1>w, <1>1, <1>2, ActivitiesCall DEF SavedRight
    <2>6. \A z \in Activities : z \in Threads \/ memory[z] = "fiber" =>
             Executes(z)' \/ Calls(z)' \/ (z \in Stacks /\ Waits(z)')
      BY <1>w DEF SavedRight
    <2>7. \A s \in Stacks : memory[s] # "fiber" => pc[s] = "body" /\ ~ Executes(s)' /\ ~ Calls(s)'
      BY <1>w, <1>2, ActivitiesCall DEF SavedRight
    <2> QED BY <1>f, <2>1, <2>2, <2>3, <2>4, <2>5, <2>6, <2>7 DEF SavedRight
  <1>8. HeldRight'
    <2>1. \A s \in Stacks : Waits(s) => s # f
      BY <1>1
    <2>3. \A s \in scheduled : Waits(s)' /\ pc[s] \in {"body", "resumed"} /\ s \notin awaiting' /\ s # f
      BY <1>w, <1>t, <1>2, <1>f, <2>1 DEF HeldRight
    <2>4. \A s \in awaiting' : Waits(s)' /\ pc[s] = "resumed"
      BY <1>w, <1>t, <1>f DEF HeldRight
    <2>5. \A v \in Threads : gSwitchFiberBuffer'[v] # nullptr =>
             /\ context'[coro_context(gSwitchFiberBuffer'[v])] = gSwitchFiberBuffer'[v]
             /\ pc[gSwitchFiberBuffer'[v]] = "body" /\ gSwitchFiberBuffer'[v] \notin scheduled
             /\ pc[running'[v]] = "resumed"
             /\ \A u \in Threads : gSwitchFiberBuffer'[u] = gSwitchFiberBuffer'[v] => u = v
      <3>1. ASSUME NEW v \in Threads, v # w, gSwitchFiberBuffer[v] # nullptr
            PROVE  /\ gSwitchFiberBuffer[v] # f
                   /\ context'[coro_context(gSwitchFiberBuffer[v])] = gSwitchFiberBuffer[v]
                   /\ pc[gSwitchFiberBuffer[v]] = "body" /\ gSwitchFiberBuffer[v] \notin scheduled
                   /\ pc[running[v]] = "resumed"
                   /\ \A u \in Threads : gSwitchFiberBuffer[u] = gSwitchFiberBuffer[v] => u = v
        <4>1. /\ gSwitchFiberBuffer[v] \in Stacks
              /\ Waits(gSwitchFiberBuffer[v]) /\ pc[gSwitchFiberBuffer[v]] = "body" /\ gSwitchFiberBuffer[v] \notin scheduled
              /\ pc[running[v]] = "resumed"
              /\ \A u \in Threads : gSwitchFiberBuffer[u] = gSwitchFiberBuffer[v] => u = v
          BY <1>t, <3>1 DEF HeldRight
        <4>2. gSwitchFiberBuffer[v] # f /\ gSwitchFiberBuffer[v] # g
          BY <1>2, <2>1, <4>1
        <4>3. context'[coro_context(gSwitchFiberBuffer[v])] = gSwitchFiberBuffer[v]
          BY <1>c, <4>1, <4>2 DEF Waits
        <4> QED BY <4>1, <4>2, <4>3
      <3>2. context'[coro_context(f)] = f /\ pc[f] = "body" /\ f \notin scheduled /\ pc[running'[w]] = "resumed"
        BY <1>b, <1>c, <1>p, <1>2, <2>3
      <3>3. ASSUME NEW v \in Threads, gSwitchFiberBuffer'[v] # nullptr, NEW u \in Threads,
                   gSwitchFiberBuffer'[u] = gSwitchFiberBuffer'[v]
            PROVE  u = v
        <4>1. CASE v = w
          BY <1>p, <1>t, <3>1, <3>3, <4>1
        <4>2. CASE v # w
          BY <1>p, <1>t, <3>1, <3>3, <4>2
        <4> QED BY <4>1, <4>2
      <3> QED BY <1>p, <3>1, <3>2, <3>3
    <2>6. \A v \in Threads : pc[running'[v]] = "run" =>
             LET s == gCurrentFiber'[v] IN
             /\ s \in Stacks /\ context'[coro_context(s)] = s /\ pc[s] \in {"yield", "await", "end"}
             /\ \A u \in Threads : pc[running'[u]] = "run" /\ gCurrentFiber'[u] = s => u = v
             /\ \A z \in Activities : hand[z] # s
      <3>1. SUFFICES ASSUME NEW v \in Threads, pc[running'[v]] = "run"
                     PROVE  LET s == gCurrentFiber'[v] IN
                            /\ s \in Stacks /\ context'[coro_context(s)] = s /\ pc[s] \in {"yield", "await", "end"}
                            /\ \A u \in Threads : pc[running'[u]] = "run" /\ gCurrentFiber'[u] = s => u = v
                            /\ \A z \in Activities : hand[z] # s
        OBVIOUS
      <3>2. v # w /\ pc[running[v]] = "run" /\ gCurrentFiber'[v] = gCurrentFiber[v]
        BY <1>p, <1>2, <3>1
      <3>3. /\ gCurrentFiber[v] \in Stacks /\ Waits(gCurrentFiber[v]) /\ pc[gCurrentFiber[v]] \in {"yield", "await", "end"}
            /\ \A u \in Threads : pc[running[u]] = "run" /\ gCurrentFiber[u] = gCurrentFiber[v] => u = v
            /\ \A z \in Activities : hand[z] # gCurrentFiber[v]
        BY <3>2 DEF HeldRight
      <3>4. context'[coro_context(gCurrentFiber[v])] = gCurrentFiber[v]
        BY <1>1, <1>2, <1>c, <3>3 DEF Waits
      <3>5. \A u \in Threads : pc[running'[u]] = "run" /\ gCurrentFiber'[u] = gCurrentFiber[v] => u = v
        BY <1>p, <1>2, <3>3
      <3> QED BY <3>2, <3>3, <3>4, <3>5
    <2>7. \A z \in Activities : pc[z] = "destroy" => context'[coro_context(hand[z])] = hand[z] /\ pc[hand[z]] = "end"
      <3>1. \A z \in Activities : pc[z] = "destroy" => hand[z] \in Stacks /\ Waits(hand[z]) /\ pc[hand[z]] = "end"
        BY PoolTypes, ActivitiesCall DEF HandsMatchCalls, HeldRight
      <3> QED BY <1>2, <1>c, <2>1, <3>1 DEF Waits
    <2> QED BY <1>f, <2>3, <2>4, <2>5, <2>6, <2>7 DEF HeldRight, Waits
  <1>9. CallersRight'
    <2>1. Active' = (Active \ {f}) \union {g}
      BY <1>f, <1>c, <1>2 DEF Active
    <2>2. \A s \in Active : s # f =>
             /\ s \in Stacks /\ s # g /\ caller_context_'[s] = caller_context_[s]
             /\ CallerOf(s) \in Activities /\ caller_context_[s] = caller_context(CallerOf(s))
             /\ Calls(CallerOf(s)) /\ caller_context_[s] # caller_context(y) /\ CallerOf(s) # g
      BY <1>1, <1>2, <1>p, <1>y, CallersAre DEF CallersRight, Active
    <2>3. \A s \in Active' : \E z \in Activities : caller_context_'[s] = caller_context(z) /\ Calls(z)'
      BY <1>p, <1>w, <1>y, <2>1, <2>2
    <2>4. \A s, t \in Active' : caller_context_'[s] = caller_context_'[t] => s = t
      BY <1>p, <2>1, <2>2 DEF CallersRight
    <2>5. \E home \in [Activities -> Threads] : IsHome(home)'
      <3>1. PICK home \in [Activities -> Threads] : IsHome(home)
        BY DEF CallersRight
      <3>2. PICK new : new = [home EXCEPT ![g] = w]
        OBVIOUS
      <3>3. new \in [Activities -> Threads] /\ new[g] = w /\ \A z \in Activities : z # g => new[z] = home[z]
        BY <3>1, <3>2, <1>t
      <3>4. \A v \in Threads : home[v] = v /\ home[running[v]] = v /\ v # g /\ running[v] # g
        BY <1>2, <3>1, FiberCoreAssumption DEF IsHome, Executes
      <3>5. \A v \in Threads : new[v] = v /\ new[running'[v]] = v
        BY <1>p, <1>t, <3>3, <3>4, ActivitiesCall
      <3>6. \A s \in Active : s # f => CallerOf(s)' = CallerOf(s) /\ new[s] = new[CallerOf(s)']
        <4>1. \A s \in Active : s # f => CallerOf(s)' = CallerOf(s)
          BY <2>2, NextCallerIs
        <4>2. \A s \in Active : s # f => home[s] = home[CallerOf(s)] /\ s \in Activities
          BY <2>2, <3>1, ActivitiesCall DEF IsHome
        <4>3. \A s \in Active : s # f => new[s] = new[CallerOf(s)]
          BY <2>2, <3>3, <4>2
        <4> QED BY <4>1, <4>3
      <3>7. CallerOf(g)' = y /\ new[y] = w
        <4>1. home[y] = w /\ y # g
          BY <1>1, <1>2, <1>b, <1>y, <3>1 DEF IsHome
        <4> QED BY <1>p, <3>3, <4>1, NextCallerIs
      <3>8. IsHome(new)'
        BY <2>1, <3>3, <3>5, <3>6, <3>7 DEF IsHome
      <3> QED BY <3>3, <3>8
    <2>6. \A v \in Threads : pc[running'[v]] # "run" =>
             gCurrentFiber'[v] = IF running'[v] \in Stacks THEN running'[v] ELSE nullptr
      BY <1>p, <1>t DEF CallersRight
    <2>7. \A z \in Activities : pc[z] = "run" => initial[z] = IF z \in Stacks THEN z ELSE nullptr
      BY DEF CallersRight
    <2> QED BY <1>f, <2>3, <2>4, <2>5, <2>6, <2>7 DEF CallersRight
  <1> QED BY <1>5, <1>6, <1>7, <1>8, <1>9

-----------------------------------------------------------------------------
\* The threads execute, and there are no fibers yet.
LEMMA FiberInit == Init => IInv
  <1> SUFFICES ASSUME Init PROVE IInv
    OBVIOUS
  <1>1. PoolIInv
    BY InitIInv DEF Init
  <1>2. /\ pc = [x \in Activities |-> "body"] /\ hand = [x \in Activities |-> nullptr]
        /\ running = [w \in Threads |-> w] /\ context = [k \in Contexts |-> nullptr]
        /\ gCurrentFiber = [w \in Threads |-> nullptr] /\ gSwitchFiberBuffer = [w \in Threads |-> nullptr]
        /\ caller_context_ = [s \in Stacks |-> nullptr] /\ initial = [x \in Activities |-> nullptr]
        /\ scheduled = {} /\ awaiting = {} /\ completed_ = {}
        /\ \A s \in Stacks : memory[s] # "fiber"
    BY ActivitiesCall DEF Init, PoolInit
  <1>3. FiberTypeOK
    BY <1>1, <1>2, ActivitiesCall DEF FiberTypeOK, TypeOK, PoolIInv, StackHasOneUser
  <1>4. /\ \A s \in Stacks : ~ Waits(s) /\ context[coro_context(s)] = nullptr /\ ~ Executes(s)
        /\ \A x \in Activities : ~ Calls(x) /\ context[caller_context(x)] = nullptr
        /\ \A w \in Threads : Executes(w)
    BY <1>2, ContextNames DEF Waits, Calls, Executes
  <1>5. SavedRight
    BY <1>2, <1>4, ActivitiesCall DEF SavedRight, Activities
  <1>6. HeldRight
    BY <1>2, ActivitiesCall DEF HeldRight
  <1>7. CallersRight
    <2>1. Active = {}
      BY <1>2 DEF Active
    <2>2. \E home \in [Activities -> Threads] : IsHome(home)
      <3>1. PICK v \in Threads : TRUE
        OBVIOUS
      <3>2. PICK home : home = [x \in Activities |-> IF x \in Threads THEN x ELSE v]
        OBVIOUS
      <3>3. home \in [Activities -> Threads] /\ \A w \in Threads : home[w] = w
        BY <3>1, <3>2, ActivitiesCall
      <3>4. IsHome(home)
        BY <1>2, <2>1, <3>3 DEF IsHome
      <3> QED BY <3>3, <3>4
    <2> QED BY <1>2, <2>1, <2>2, ActivitiesCall DEF CallersRight
  <1> QED BY <1>1, <1>3, <1>5, <1>6, <1>7 DEF IInv

\* A step that changes nothing keeps what is right.
LEMMA StutterIInv ==
  ASSUME IInv, UNCHANGED vars
  PROVE  IInv'
  <1>1. /\ UNCHANGED <<pooling, memory, next, stack_of_stack_, lock_, hand, pc, counters>>
        /\ UNCHANGED <<context, running, caller_context_, completed_>>
        /\ UNCHANGED <<gCurrentFiber, initial, gSwitchFiberBuffer, scheduled, awaiting>>
    BY DEF vars, poolVars, poolState, coroVars, fiberVars
  <1>2. PoolIInv'
    <2>1. PoolTypeOK' /\ HandsAreFull' /\ HandsMatchCalls'
      BY <1>1, PoolTypes DEF IInv, PoolTypeOK, HandsAreFull, HandsMatchCalls, InHand
    <2> QED BY <1>1, <2>1, PoolIsKept DEF IInv, InHand
  <1>3. FiberTypeOK'
    BY <1>1, <1>2 DEF IInv, FiberTypeOK, TypeOK, PoolIInv, StackHasOneUser
  <1>4. SavedRight' /\ HeldRight'
    BY <1>1 DEF IInv, SavedRight, HeldRight, Executes, Waits, Calls
  <1>5. CallersRight'
    <2>1. Active' = Active /\ (\A h : IsHome(h)' <=> IsHome(h)) /\ \A y : Calls(y)' <=> Calls(y)
      BY <1>1 DEF Active, IsHome, CallerOf, Calls
    <2> QED BY <1>1, <2>1 DEF IInv, CallersRight
  <1> QED BY <1>2, <1>3, <1>4, <1>5 DEF IInv

\* Every step keeps it.
LEMMA NextIInv ==
  ASSUME IInv, [Next]_vars
  PROVE  IInv'
  <1>1. CASE UNCHANGED vars
    BY <1>1, StutterIInv
  <1>2. ASSUME NEW w \in Threads, NEW x \in Activities, Go(x, w)
        PROVE  IInv'
    <2>1. Begin(x) /\ Executes(x) /\ UNCHANGED <<coroVars, fiberVars>>
      BY <1>2 DEF Go, InBody, Begin, Executes, poolState
    <2> QED BY <2>1, PoolOperationIInv
  <1>3. ASSUME NEW w \in Threads, ClearPool(w)
        PROVE  IInv'
    <2>1. pc[w] = "body" /\ Clear(w) /\ Executes(w) /\ UNCHANGED <<coroVars, fiberVars>>
      BY <1>3 DEF ClearPool, InBody, Executes
    <2> QED BY <2>1, PoolOperationIInv, ActivitiesCall
  <1>4. ASSUME NEW x \in Activities, PoolStep(x), UNCHANGED <<coroVars, fiberVars>>
        PROVE  IInv'
    <2>1. pc[x] # "body"
      BY <1>4, PoolStepFacts, ActivitiesCall DEF IInv
    <2> QED BY <1>4, <2>1, PoolOperationIInv
  <1>5. ASSUME NEW w \in Threads, NEW x \in Activities, Yield(x, w) \/ Suspend(x, w) \/ Finish(x, w)
        PROVE  IInv'
    <2>1. PICK label \in {"yield", "await", "end"} :
             /\ Leave(x, w, label)
             /\ completed_' = IF label = "end" THEN completed_ \union {x} ELSE completed_
      <3>1. CASE Yield(x, w)
        BY <3>1 DEF Yield
      <3>2. CASE Suspend(x, w)
        BY <3>2 DEF Suspend
      <3>3. CASE Finish(x, w)
        BY <3>3 DEF Finish
      <3> QED BY <1>5, <3>1, <3>2, <3>3
    <2>2. x \in Stacks
      BY <2>1 DEF Leave
    <2> QED BY <2>1, <2>2, LeaveIInv
  <1>6. ASSUME NEW w \in Threads, NEW x \in Activities, Returned(x, w) \/ AfterSuspend(x, w)
        PROVE  IInv'
    BY <1>6, ReturnedIInv, AfterSuspendIInv
  <1>7. ASSUME NEW w \in Threads, NEW x \in Activities, NEW f \in Stacks,
               Run(x, w, f) \/ Wake(x, w, f) \/ SwitchTo(x, w, f)
        PROVE  IInv'
    BY <1>7, RunIInv, WakeIInv, SwitchToIInv DEF SwitchTo
  <1>8. ASSUME NEW x \in Activities, Create(x) \/ Destroy(x)
        PROVE  IInv'
    BY <1>8, CreateIInv, DestroyIInv
  <1> QED BY <1>1, <1>2, <1>3, <1>4, <1>5, <1>6, <1>7, <1>8 DEF Next

LEMMA FiberInvariance == Spec => []IInv
  BY FiberInit, NextIInv, PTL DEF Spec

-----------------------------------------------------------------------------
\* For any threads and stacks: the stack that fibers run on is in use by one (in
\* the pool's list, in the hands of one call, or under one fiber), whatever the
\* fibers do between Fiber::Create and Destroy (StackPool.cpp 9-59, Fiber.cpp).
THEOREM FiberStacksAreNotShared == Spec => []StackHasOneUser
  <1>1. IInv => StackHasOneUser
    BY DEF IInv, PoolIInv
  <1> QED BY <1>1, FiberInvariance, PTL

\* An activity is in one place: it executes, waits, or is in the Run of another.
LEMMA OnePlace ==
  ASSUME IInv, NEW x \in Activities
  PROVE  Cardinality({w \in Threads : running[w] = x}) + Cardinality({k \in Contexts : context[k] = x})
            = IF x \in Threads \/ memory[x] = "fiber" THEN 1 ELSE 0
  <1> DEFINE W == {w \in Threads : running[w] = x}
             K == {k \in Contexts : context[k] = x}
  <1>0. SUFFICES Cardinality(W) + Cardinality(K) = IF x \in Threads \/ memory[x] = "fiber" THEN 1 ELSE 0
    OBVIOUS
  <1>1. \A k \in Contexts : context[k] = x =>
           (k = caller_context(x) /\ Calls(x)) \/ (x \in Stacks /\ k = coro_context(x) /\ Waits(x))
    <2>1. SUFFICES ASSUME NEW k \in Contexts, context[k] = x
                   PROVE  (k = caller_context(x) /\ Calls(x)) \/ (x \in Stacks /\ k = coro_context(x) /\ Waits(x))
      OBVIOUS
    <2>2. CASE \E s \in Stacks : k = coro_context(s)
      BY <2>1, <2>2, ContextNames DEF IInv, SavedRight, Waits
    <2>3. CASE \E y \in Activities : k = caller_context(y)
      <3>1. PICK y \in Activities : k = caller_context(y)
        BY <2>3
      <3>2. context[caller_context(y)] \in {y, nullptr} /\ x # nullptr
        BY ContextNames DEF IInv, SavedRight
      <3> QED BY <2>1, <3>1, <3>2 DEF Calls
    <2> QED BY <2>2, <2>3, ContextNames
  <1>c. Cardinality({}) = 0 /\ \A y : Cardinality({y}) = 1
    BY FS_Singleton, FS_EmptySet
  <1>2. CASE Executes(x)
    <2>1. PICK w \in Threads : W = {w}
      BY <1>2 DEF Executes, IInv, SavedRight
    <2>2. K = {}
      BY <1>1, <1>2 DEF IInv, SavedRight
    <2>3. x \in Threads \/ memory[x] = "fiber"
      BY <1>2 DEF IInv, SavedRight, Activities
    <2> HIDE DEF W, K
    <2>5. Cardinality(W) = 1
      BY <1>c, <2>1
    <2>6. Cardinality(K) = 0
      BY <1>c, <2>2
    <2> QED BY <2>3, <2>5, <2>6
  <1>3. CASE Calls(x)
    <2>1. W = {}
      BY <1>3 DEF Executes, IInv, SavedRight
    <2>2. ~ (x \in Stacks /\ Waits(x)) /\ caller_context(x) \in Contexts
      BY <1>3, ContextNames DEF IInv, SavedRight
    <2>3. K = {caller_context(x)}
      BY <1>1, <1>3, <2>2 DEF Calls
    <2>4. x \in Threads \/ memory[x] = "fiber"
      BY <1>3 DEF IInv, SavedRight, Activities
    <2> HIDE DEF W, K
    <2>5. Cardinality(W) = 0
      BY <1>c, <2>1
    <2>6. Cardinality(K) = 1
      BY <1>c, <2>3
    <2> QED BY <2>4, <2>5, <2>6
  <1>4. CASE x \in Stacks /\ Waits(x)
    <2>1. W = {} /\ memory[x] = "fiber"
      BY <1>4 DEF Executes, IInv, SavedRight
    <2>2. ~ Calls(x) /\ coro_context(x) \in Contexts
      BY <1>4, ContextNames DEF IInv, SavedRight
    <2>3. K = {coro_context(x)}
      BY <1>1, <1>4, <2>2 DEF Waits
    <2> HIDE DEF W, K
    <2>5. Cardinality(W) = 0
      BY <1>c, <2>1
    <2>6. Cardinality(K) = 1
      BY <1>c, <2>3
    <2> QED BY <2>1, <2>5, <2>6
  <1>5. CASE ~ Executes(x) /\ ~ Calls(x) /\ ~ (x \in Stacks /\ Waits(x))
    <2>1. W = {} /\ K = {}
      BY <1>1, <1>5 DEF Executes
    <2>2. ~ (x \in Threads \/ memory[x] = "fiber")
      BY <1>5 DEF IInv, SavedRight
    <2> HIDE DEF W, K
    <2> QED BY <1>c, <2>1, <2>2
  <1> QED BY <1>2, <1>3, <1>4, <1>5

\* For any threads and stacks: every activity executes on one thread or is saved
\* in one context; a fiber that is active comes back to a Run that waits for it
\* and for no other, so that the callers lead from what a thread executes to that
\* thread; and gCurrentFiber is the fiber that executes (Coroutine.cpp 13-39,
\* Fiber.cpp 44-67, Context.cpp 15-38).
THEOREM ContextsAreRight == Spec => []ContextIsRight
  <1>1. IInv => ContextIsRight
    <2> SUFFICES ASSUME IInv PROVE ContextIsRight
      OBVIOUS
    <2>1. \A f \in scheduled \union awaiting : context[coro_context(f)] = f /\ f \notin completed_
      BY DEF IInv, HeldRight, SavedRight, Waits, FiberTypeOK, TypeOK
    <2>2. \A s \in Active : LET y == CallerOf(s) IN context[caller_context(y)] = y /\ pc[y] = "run"
      BY CallersAre DEF IInv, SavedRight, Calls
    <2>3. \A s, t \in Active : CallerOf(s) = CallerOf(t) => s = t
      BY CallersAre DEF IInv, CallersRight
    <2>4. \A w \in Threads : LET x == running[w] IN
             /\ x \in Activities
             /\ pc[x] # "run" => gCurrentFiber[w] = IF x \in Stacks THEN x ELSE nullptr
      BY DEF IInv, CallersRight, FiberTypeOK
    <2>5. TypeOK /\ \E home \in [Activities -> Threads] : IsHome(home)
      BY DEF IInv, FiberTypeOK, CallersRight
    <2> QED BY <2>1, <2>2, <2>3, <2>4, <2>5, OnePlace DEF ContextIsRight
  <1> QED BY <1>1, FiberInvariance, PTL

=============================================================================
