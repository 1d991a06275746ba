----------------------------- MODULE StackPool ------------------------------
(***************************************************************************)
(* The stacks of fibers and their pool (Fiber/Stack): a stack that is not  *)
(* in use holds the node of the pool's list in its own memory, the fiber   *)
(* and the coroutine that use it are constructed in that memory too.       *)
(* What AllocateStack and FreeStack do under the spinlock is one step, as  *)
(* SpinlockWaitGroup has the spinlock in detail; Clear keeps the lock for  *)
(* several, since the counters are changed without it.                     *)
(*                                                                         *)
(* Procs call the operations; pc says where each is.  InlineStackPool, the *)
(* provider that keeps nothing, is the other choice for `pooling`.         *)
(***************************************************************************)
EXTENDS Naturals, FiniteSets

CONSTANTS
    Procs,
    Stacks,         \* what new may return: the addresses of stacks
    nullptr,
    Modulus         \* of the counters, which are unsigned integers

ASSUME StackPoolAssumption ==
    /\ nullptr \notin Procs \union Stacks
    /\ IsFiniteSet(Stacks)
    /\ Modulus \in Nat \ {0}

VARIABLES
    pooling,        \* the provider is a StackPool
    memory,         \* memory[s]: "none" outside the heap, or what is in it
    next,           \* next[s]: Next of the node in s
    stack_of_stack_, lock_,
    size_, leased_amount_,
    hand,           \* hand[x]: the stack that x has as a local
    pc

counters == <<size_, leased_amount_>>
poolState == <<pooling, memory, next, stack_of_stack_, lock_, counters, hand>>
poolVars  == <<poolState, pc>>

\* The constructor has preallocated a stack, or none: it was leased and returned.
PoolInit ==
    /\ pooling \in BOOLEAN
    /\ stack_of_stack_ \in {nullptr} \union (IF pooling THEN Stacks ELSE {})
    /\ memory = [s \in Stacks |-> IF s = stack_of_stack_ THEN "node" ELSE "none"]
    /\ next = [s \in Stacks |-> nullptr]
    /\ lock_ = nullptr
    /\ size_ = (IF stack_of_stack_ = nullptr THEN 0 ELSE 1) % Modulus
    /\ leased_amount_ = 0
    /\ hand = [x \in Procs |-> nullptr]
    /\ pc = [x \in Procs |-> "body"]

Goto(x, label) == pc' = [pc EXCEPT ![x] = label]

Unlocked == lock_ = nullptr

\* The memory that new can still get, but for what callers will ask for.
HeapIsLeft ==
    Cardinality({s \in Stacks : memory[s] = "none"})
        > Cardinality({x \in Procs : pc[x] \in {"allocate", "count", "lease", "new"}})

-----------------------------------------------------------------------------
\* AllocateStack; the caller has the stack at "got".
AllocateStack(x) == HeapIsLeft /\ Goto(x, IF pooling THEN "allocate" ELSE "new")

TakeOff(x) ==
    /\ hand' = [hand EXCEPT ![x] = stack_of_stack_]
    /\ memory' = [memory EXCEPT ![stack_of_stack_] = "raw"]
    /\ next' = [next EXCEPT ![stack_of_stack_] = nullptr]
    /\ stack_of_stack_' = next[stack_of_stack_]

\* Fault: the lock is released between the two reads of the head.
TakeApart(x) ==
    \/ /\ pc[x] = "allocate" /\ Unlocked
       /\ hand' = [hand EXCEPT ![x] = stack_of_stack_]
       /\ Goto(x, IF stack_of_stack_ = nullptr THEN "count" ELSE "unlink")
       /\ UNCHANGED <<pooling, memory, next, stack_of_stack_, lock_, counters>>
    \/ /\ pc[x] = "unlink" /\ Unlocked
       /\ memory' = [memory EXCEPT ![hand[x]] = "raw"]
       /\ stack_of_stack_' = next[hand[x]]
       /\ Goto(x, "got")
       /\ UNCHANGED <<pooling, next, lock_, counters, hand>>

Take(x) ==
    /\ pc[x] = "allocate" /\ Unlocked
    /\ IF stack_of_stack_ = nullptr
         THEN Goto(x, "count") /\ UNCHANGED <<memory, next, stack_of_stack_, hand>>
         ELSE Goto(x, "got") /\ TakeOff(x)
    /\ UNCHANGED <<pooling, lock_, counters>>

Count(x) ==
    /\ pc[x] = "count"
    /\ size_' = (size_ + 1) % Modulus
    /\ Goto(x, "lease")
    /\ UNCHANGED <<pooling, memory, next, stack_of_stack_, lock_, leased_amount_, hand>>

Lease(x) ==
    /\ pc[x] = "lease"
    /\ leased_amount_' = (leased_amount_ + 1) % Modulus
    /\ Goto(x, "new")
    /\ UNCHANGED <<pooling, memory, next, stack_of_stack_, lock_, size_, hand>>

New(x) ==
    /\ pc[x] = "new"
    /\ \E s \in Stacks :
          /\ memory[s] = "none"
          /\ memory' = [memory EXCEPT ![s] = "raw"]
          /\ hand' = [hand EXCEPT ![x] = s]
    /\ Goto(x, "got")
    /\ UNCHANGED <<pooling, next, stack_of_stack_, lock_, counters>>

-----------------------------------------------------------------------------
\* FreeStack, by the end of a LeasedStack: the caller starts at "free".
MakeNode(x) ==
    /\ pc[x] = "free" /\ pooling
    /\ memory' = [memory EXCEPT ![hand[x]] = "node"]
    /\ next' = [next EXCEPT ![hand[x]] = nullptr]
    /\ Goto(x, "link")
    /\ UNCHANGED <<pooling, stack_of_stack_, lock_, counters, hand>>

Link(x) ==
    /\ pc[x] = "link" /\ Unlocked
    /\ next' = [next EXCEPT ![hand[x]] = stack_of_stack_]
    /\ stack_of_stack_' = hand[x]
    /\ hand' = [hand EXCEPT ![x] = nullptr]
    /\ Goto(x, "unlease")
    /\ UNCHANGED <<pooling, memory, lock_, counters>>

Unlease(x) ==
    /\ pc[x] = "unlease"
    /\ leased_amount_' = (leased_amount_ + Modulus - 1) % Modulus
    /\ Goto(x, "body")
    /\ UNCHANGED <<pooling, memory, next, stack_of_stack_, lock_, size_, hand>>

\* FreeStack of InlineStackPool.
FreeInline(x) ==
    /\ pc[x] = "free" /\ ~ pooling
    /\ memory' = [memory EXCEPT ![hand[x]] = "none"]
    /\ hand' = [hand EXCEPT ![x] = nullptr]
    /\ Goto(x, "body")
    /\ UNCHANGED <<pooling, next, stack_of_stack_, lock_, counters>>

-----------------------------------------------------------------------------
Clear(x) ==
    /\ pooling /\ Unlocked
    /\ lock_' = x
    /\ size_' = 0
    /\ Goto(x, "clear")
    /\ UNCHANGED <<pooling, memory, next, stack_of_stack_, leased_amount_, hand>>

ClearLeased(x) ==
    /\ pc[x] = "clear"
    /\ leased_amount_' = 0
    /\ Goto(x, "delete")
    /\ UNCHANGED <<pooling, memory, next, stack_of_stack_, lock_, size_, hand>>

\* One turn of the loop: a NewStack frees the memory that it is in itself.
ClearNext(x) ==
    /\ pc[x] = "delete"
    /\ stack_of_stack_ # nullptr
    /\ memory' = [memory EXCEPT ![stack_of_stack_] = "none"]
    /\ next' = [next EXCEPT ![stack_of_stack_] = nullptr]
    /\ stack_of_stack_' = next[stack_of_stack_]
    /\ UNCHANGED <<pooling, lock_, counters, hand, pc>>

Cleared(x) ==
    /\ pc[x] = "delete"
    /\ stack_of_stack_ = nullptr
    /\ lock_' = nullptr
    /\ Goto(x, "body")
    /\ UNCHANGED <<pooling, memory, next, stack_of_stack_, counters, hand>>

PoolStep(x) == Take(x) \/ Count(x) \/ Lease(x) \/ New(x) \/ MakeNode(x) \/ Link(x)
               \/ Unlease(x) \/ FreeInline(x)
               \/ ClearLeased(x) \/ ClearNext(x) \/ Cleared(x)

-----------------------------------------------------------------------------
\* The pool by itself: who has leased a stack returns it.
Begin(x)  == pc[x] = "body" /\ AllocateStack(x) /\ UNCHANGED poolState
Return(x) == pc[x] = "got" /\ Goto(x, "free") /\ UNCHANGED poolState

PoolNext == \E x \in Procs : Begin(x) \/ Return(x) \/ (pc[x] = "body" /\ Clear(x)) \/ PoolStep(x)

PoolSpec == PoolInit /\ [][PoolNext]_poolVars

-----------------------------------------------------------------------------
Labels == {"body", "allocate", "count", "lease", "new", "got", "free", "link", "unlease", "clear", "delete",
           "run", "destroy", "yield", "await", "end", "resumed"}  \* these are of FiberCore

PoolTypeOK ==
    /\ pooling \in BOOLEAN
    /\ memory \in [Stacks -> {"none", "raw", "node", "fiber"}]
    /\ next \in [Stacks -> Stacks \union {nullptr}]
    /\ stack_of_stack_ \in Stacks \union {nullptr}
    /\ lock_ \in Procs \union {nullptr}
    /\ hand \in [Procs -> Stacks \union {nullptr}]
    /\ pc \in [Procs -> Labels]

InHand(s) == \E x \in Procs : hand[x] = s

\* The stacks that hold a node of the list: those with a node in nobody's hand.
Pooled == {s \in Stacks : memory[s] = "node" /\ ~ InHand(s)}

\* The list leads through l, and ends.
Spells(l, n) ==
    /\ stack_of_stack_ = IF n = 0 THEN nullptr ELSE l[1]
    /\ \A i \in 1 .. n : next[l[i]] = IF i = n THEN nullptr ELSE l[i + 1]
    /\ \A i, j \in 1 .. n : l[i] = l[j] => i = j

PoolIsList ==
    LET n == Cardinality(Pooled) IN \E l \in [1 .. n -> Pooled] : Spells(l, n)

HandsAreFull ==
    /\ \A x, y \in Procs : hand[x] = hand[y] /\ hand[x] # nullptr => x = y
    /\ \A x \in Procs : hand[x] # nullptr => memory[hand[x]] # "none"
    /\ \A s \in Stacks : memory[s] = "raw" => InHand(s)

\* Every stack of the heap is in the list, once, or in one pair of hands, or a
\* fiber's: none is lost, and none is handed to two, whose fibers would be written
\* over each other and over the nodes (StackPool.cpp 24-58).
StackHasOneUser == PoolTypeOK /\ PoolIsList /\ HandsAreFull
=============================================================================
