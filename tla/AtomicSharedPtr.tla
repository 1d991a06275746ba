--------------------------- MODULE AtomicSharedPtr --------------------------
(***************************************************************************)
(* AtomicSharedPtr with its split reference counts                         *)
(* (DataStructures/AtomicSharedPtr.hpp, Utils/StampedPtr.hpp).             *)
(*                                                                         *)
(* The register packs a pointer and a stamp into one word.  Load counts    *)
(* its new reference in the stamp; whoever takes the pointer out of the    *)
(* register charges the stamp to the counter `Basic` of the object, and    *)
(* `Strong` keeps the object alive until the charge is made.  A stamp      *)
(* beyond the half of its range is flushed by the Load that made it so.    *)
(*                                                                         *)
(* Every thread has two variables of type SharedPtr, `held` and `own`, and *)
(* the argument `arg` of its call.  Objects are addresses: a deleted one   *)
(* is used again.  An object has one member `next`, itself a SharedPtr.    *)
(***************************************************************************)
EXTENDS Integers, FiniteSets

CONSTANTS
    Threads,
    Objects,    \* the addresses of objects
    nullptr,
    kMaxStamp,  \* the largest stamp: 65535 in the code
    MaxCalls    \* bound: how many calls the threads make

ASSUME SharedPtrAssumption ==
    /\ nullptr \notin Objects
    /\ kMaxStamp \in Nat \ {0}
    /\ MaxCalls \in Nat
    /\ IsFiniteSet(Threads) /\ IsFiniteSet(Objects)

\* The stamp must hold one reference of every thread beyond its half.
ASSUME EnoughStamps == kMaxStamp - kMaxStamp \div 2 >= Cardinality(Threads)

Pointers == Objects \union {nullptr}
Stamped  == [raw : Pointers, stamp : 0 .. kMaxStamp]

VARIABLES
    ptr,        \* ptr_: the word of the register
    count,      \* state_ of the objects
    alive,      \* the objects that are not deleted
    held,       \* held[t]: the variable of t that Load assigns and Cas expects
    own,        \* own[t]: the variable of t that MakeShared assigns
    arg,        \* arg[t]: the argument of its call
    op,         \* op[t]: the call it is in
    pc,
    current,    \* the local `current`
    res,        \* the local `res` of Load
    won,        \* won[t]: what its last CompareExchangeWeak has returned
    next,       \* the member of every object
    dying,      \* dying[t]: the member of the object that t deletes
    calls,      \* how many calls were made
    overtaken   \* history: objects that got the stamp of another one

heap == <<count, alive, next, dying>>
vars == <<ptr, heap, held, own, arg, op, pc, current, res, won, calls, overtaken>>

Null == [raw |-> nullptr, stamp |-> 0]

Init ==
    /\ ptr = Null
    /\ count = [o \in Objects |-> [strong |-> 0, basic |-> 0]]
    /\ alive = {}
    /\ held = [t \in Threads |-> nullptr]
    /\ own = [t \in Threads |-> nullptr]
    /\ arg = [t \in Threads |-> nullptr]
    /\ op = [t \in Threads |-> "none"]
    /\ pc = [t \in Threads |-> "idle"]
    /\ current = [t \in Threads |-> Null]
    /\ res = [t \in Threads |-> nullptr]
    /\ won = [t \in Threads |-> FALSE]
    /\ next = [o \in Objects |-> nullptr]
    /\ dying = [t \in Threads |-> nullptr]
    /\ calls = 0
    /\ overtaken = {}

At(t, label)   == pc[t] = label /\ dying[t] = nullptr
Goto(t, label) == pc' = [pc EXCEPT ![t] = label]

-----------------------------------------------------------------------------
\* The counts of an object.

\* A DiffCounted is made, with the reference of its maker.
Construct(o) ==
    /\ count' = [count EXCEPT ![o] = [strong |-> 0, basic |-> 1]]
    /\ alive' = alive \union {o}
    /\ UNCHANGED <<next, dying>>

\* DiffCounted::ModifyState by t: the one who brings both counts to zero
\* deletes the object, whose member is then destroyed.
ModifyStateOf(t, o, strong, basic, members) ==
    /\ count' = [count EXCEPT ![o] = [strong |-> @.strong + strong, basic |-> @.basic + basic]]
    /\ IF count'[o] = [strong |-> 0, basic |-> 0]
         THEN /\ alive' = alive \ {o}
              /\ dying' = [dying EXCEPT ![t] = members[o]]
              /\ next' = [members EXCEPT ![o] = nullptr]
         ELSE /\ dying' = [dying EXCEPT ![t] = nullptr]
              /\ next' = members
              /\ UNCHANGED alive

\* The call that is left out for a null pointer.
ModifyState(t, p, strong, basic) ==
    IF p = nullptr THEN UNCHANGED heap ELSE ModifyStateOf(t, p, strong, basic, next)

\* The destructor of the member, which may delete the next object in turn.
Cascade(t) ==
    /\ dying[t] # nullptr
    /\ ModifyState(t, dying[t], 0, -1)
    /\ UNCHANGED <<ptr, held, own, arg, op, pc, current, res, won, calls, overtaken>>

-----------------------------------------------------------------------------
\* SharedPtr, in the hands of its thread.

Local == UNCHANGED <<ptr, arg, op, current, res, won, calls, overtaken>>

MakeShared(t) ==
    /\ At(t, "idle") /\ own[t] = nullptr
    /\ calls < MaxCalls
    /\ \E o \in Objects \ alive : Construct(o) /\ own' = [own EXCEPT ![t] = o]
    /\ UNCHANGED <<held, pc>> /\ Local

\* held = own: the old object is released before the new one is taken.
CopyAssign(t) ==
    /\ At(t, "idle") /\ held[t] # own[t]
    /\ ModifyState(t, held[t], 0, -1)
    /\ held' = [held EXCEPT ![t] = nullptr]
    /\ Goto(t, "acquire")
    /\ UNCHANGED own /\ Local

Acquire(t) ==
    /\ At(t, "acquire")
    /\ ModifyState(t, own[t], 0, 1)
    /\ held' = [held EXCEPT ![t] = own[t]]
    /\ Goto(t, "idle")
    /\ UNCHANGED own /\ Local

Reset(t) ==
    /\ At(t, "idle")
    /\ \/ held[t] # nullptr /\ ModifyState(t, held[t], 0, -1)
          /\ held' = [held EXCEPT ![t] = nullptr] /\ UNCHANGED own
       \/ own[t] # nullptr /\ ModifyState(t, own[t], 0, -1)
          /\ own' = [own EXCEPT ![t] = nullptr] /\ UNCHANGED held
    /\ UNCHANGED pc /\ Local

\* SharedPtr(const SharedPtr&), for the argument.
CopyConstruct(t, p) ==
    /\ ModifyState(t, p, 0, 1)
    /\ arg' = [arg EXCEPT ![t] = p]
    /\ UNCHANGED own

\* SharedPtr(SharedPtr&&), for the argument.
MoveConstruct(t) ==
    /\ own[t] # nullptr
    /\ arg' = [arg EXCEPT ![t] = own[t]]
    /\ own' = [own EXCEPT ![t] = nullptr]
    /\ UNCHANGED heap

\* The destructor of the argument ends every call.
Drop(t) ==
    /\ At(t, "drop")
    /\ ModifyState(t, arg[t], 0, -1)
    /\ arg' = [arg EXCEPT ![t] = nullptr]
    /\ op' = [op EXCEPT ![t] = "none"]
    /\ current' = [current EXCEPT ![t] = Null]
    /\ Goto(t, "idle")
    /\ UNCHANGED <<ptr, held, own, res, won, calls, overtaken>>

-----------------------------------------------------------------------------
\* AtomicSharedPtr: the three calls and the destructor.

Begin(t, name, label) ==
    /\ At(t, "idle")
    /\ op' = [op EXCEPT ![t] = name]
    /\ won' = [won EXCEPT ![t] = FALSE]
    /\ Goto(t, label)
    /\ UNCHANGED <<ptr, held, current, res, overtaken>>

Spend == calls < MaxCalls /\ calls' = calls + 1

Pass(t) == CopyConstruct(t, nullptr) \/ CopyConstruct(t, own[t]) \/ MoveConstruct(t)

CallLoad(t)  == Begin(t, "Load", "load") /\ Spend /\ UNCHANGED <<heap, own, arg>>
CallStore(t) == Begin(t, "Store", "strong") /\ Spend /\ Pass(t)
CallCas(t)   == Begin(t, "Cas", "peek") /\ Spend /\ Pass(t)

\* The new pointer is prepared before it is published.
Strong(t) ==
    /\ At(t, "strong")
    /\ ModifyState(t, arg[t], 1, 0)
    /\ Goto(t, IF op[t] = "Store" THEN "exchange" ELSE "compare")
    /\ UNCHANGED <<ptr, held, own, arg, op, current, res, won, calls, overtaken>>

Exchange(t) ==
    /\ At(t, "exchange")
    /\ current' = [current EXCEPT ![t] = ptr]
    /\ ptr' = [raw |-> arg[t], stamp |-> 0]
    /\ Goto(t, "charge")
    /\ UNCHANGED <<heap, held, own, arg, op, res, won, calls, overtaken>>

\* The pointer that was taken out gets the references that its stamp counted.
Charge(t) ==
    /\ At(t, "charge")
    /\ ModifyState(t, current[t].raw, -1, current[t].stamp)
    /\ Goto(t, "drop")
    /\ UNCHANGED <<ptr, held, own, arg, op, current, res, won, calls, overtaken>>

Peek(t) ==
    /\ At(t, "peek")
    /\ current' = [current EXCEPT ![t] = ptr]
    /\ Goto(t, "strong")
    /\ UNCHANGED <<ptr, heap, held, own, arg, op, res, won, calls, overtaken>>

\* Fault: the stamp is not part of the comparison.
CompareExchangeWeakPtr(t, new) ==
    IF ptr.raw = current[t].raw THEN ptr' = new /\ UNCHANGED current
    ELSE current' = [current EXCEPT ![t] = ptr] /\ UNCHANGED ptr

\* AtomicStampedPtr::CompareExchangeWeak: a failure reloads `current`.
CompareExchangeWeak(t, new) ==
    IF ptr = current[t] THEN ptr' = new /\ UNCHANGED current
    ELSE current' = [current EXCEPT ![t] = ptr] /\ UNCHANGED ptr

\* Fault: the result of the comparison is not looked at.
CompareBlindly(t) ==
    /\ At(t, "compare") /\ current[t].raw = held[t]
    /\ CompareExchangeWeak(t, [raw |-> arg[t], stamp |-> 0])
    /\ won' = [won EXCEPT ![t] = TRUE]
    /\ Goto(t, IF ptr = current[t] THEN "charge" ELSE "compare")
    /\ UNCHANGED <<heap, held, own, arg, op, res, calls, overtaken>>

Compare(t) ==
    /\ At(t, "compare") /\ current[t].raw = held[t]
    /\ CompareExchangeWeak(t, [raw |-> arg[t], stamp |-> 0])
    /\ won' = [won EXCEPT ![t] = (ptr = current[t])]
    /\ Goto(t, IF ptr = current[t] THEN "charge" ELSE "compare")
    /\ UNCHANGED <<heap, held, own, arg, op, res, calls, overtaken>>

\* Fault: `expected` is left as it was.
CompareFailsStale(t) ==
    /\ At(t, "compare") /\ current[t].raw # held[t]
    /\ Goto(t, "cancel")
    /\ UNCHANGED <<ptr, heap, held, own, arg, op, current, res, won, calls, overtaken>>

\* The other pointer is loaded into `expected`.
CompareFails(t) ==
    /\ At(t, "compare") /\ current[t].raw # held[t]
    /\ Goto(t, "load")
    /\ UNCHANGED <<ptr, heap, held, own, arg, op, current, res, won, calls, overtaken>>

Cancel(t) ==
    /\ At(t, "cancel")
    /\ ModifyState(t, arg[t], -1, 0)
    /\ Goto(t, "drop")
    /\ UNCHANGED <<ptr, held, own, arg, op, current, res, won, calls, overtaken>>

\* Load, on its own or at the end of a CompareExchangeWeak.
LoadRead(t) ==
    /\ At(t, "load")
    /\ current' = [current EXCEPT ![t] = ptr]
    /\ Goto(t, IF ptr.raw = nullptr THEN "assign" ELSE "bump")
    /\ UNCHANGED <<ptr, heap, held, own, arg, op, res, won, calls, overtaken>>

\* Fault: the flush is left to a later Load.
MustFlushLate(stamp) == stamp = kMaxStamp

MustFlush(stamp) == stamp > kMaxStamp \div 2

\* The stamp is incremented in its 16 bits.
Bump(t) ==
    /\ At(t, "bump")
    /\ LET stamp == (current[t].stamp + 1) % (kMaxStamp + 1) IN
       /\ CompareExchangeWeak(t, [raw |-> current[t].raw, stamp |-> stamp])
       /\ IF ptr = current[t]
            THEN /\ res' = [res EXCEPT ![t] = ptr.raw]
                 /\ Goto(t, IF MustFlush(stamp) THEN "raise" ELSE "assign")
            ELSE /\ Goto(t, IF ptr.raw = nullptr THEN "assign" ELSE "bump")
                 /\ UNCHANGED res
    /\ UNCHANGED <<heap, held, own, arg, op, won, calls, overtaken>>

Raise(t) ==
    /\ At(t, "raise")
    /\ ModifyState(t, res[t], 1, 0)
    /\ current' = [current EXCEPT ![t] = [raw |-> res[t], stamp |-> 1]]
    /\ Goto(t, "flush")
    /\ UNCHANGED <<ptr, held, own, arg, op, res, won, calls, overtaken>>

\* The loop ends as well when another pointer is found in the register.
Flush(t) ==
    /\ At(t, "flush")
    /\ CompareExchangeWeak(t, [raw |-> res[t], stamp |-> 0])
    /\ Goto(t, IF ptr = current[t] \/ ptr.raw # res[t] THEN "settle" ELSE "flush")
    /\ UNCHANGED <<heap, held, own, arg, op, res, won, calls, overtaken>>

\* `current` is charged to res, also when it is the stamp of another pointer.
Settle(t) ==
    /\ At(t, "settle")
    /\ ModifyState(t, res[t], -1, current[t].stamp)
    /\ overtaken' = IF current[t].raw # res[t] /\ current[t].stamp > 0
                      THEN overtaken \union {res[t]} ELSE overtaken
    /\ Goto(t, "assign")
    /\ UNCHANGED <<ptr, held, own, arg, op, current, res, won, calls>>

\* Fault: the strong count of the argument is kept when the call has lost.
MoveAssignKeep(t) ==
    /\ At(t, "assign")
    /\ ModifyState(t, held[t], 0, -1)
    /\ held' = [held EXCEPT ![t] = res[t]]
    /\ res' = [res EXCEPT ![t] = nullptr]
    /\ Goto(t, "drop")
    /\ UNCHANGED <<ptr, own, arg, op, current, won, calls, overtaken>>

\* SharedPtr& operator=(SharedPtr&&): held gets the result of Load.
MoveAssign(t) ==
    /\ At(t, "assign")
    /\ ModifyState(t, held[t], 0, -1)
    /\ held' = [held EXCEPT ![t] = res[t]]
    /\ res' = [res EXCEPT ![t] = nullptr]
    /\ Goto(t, IF op[t] = "Cas" THEN "cancel" ELSE "drop")
    /\ UNCHANGED <<ptr, own, arg, op, current, won, calls, overtaken>>

\* The destructor; a new register takes its place.
Destroy(t) ==
    /\ \A u \in Threads : At(u, "idle")
    /\ ptr.raw # nullptr
    /\ ModifyState(t, ptr.raw, -1, ptr.stamp)
    /\ ptr' = Null
    /\ UNCHANGED <<held, own, arg, op, pc, current, res, won, calls, overtaken>>

-----------------------------------------------------------------------------
SharedPtrStep(t) == MakeShared(t) \/ CopyAssign(t) \/ Acquire(t) \/ Reset(t)

RegisterStep(t) ==
    \/ Strong(t) \/ Exchange(t) \/ Charge(t)
    \/ Peek(t) \/ Compare(t) \/ CompareFails(t) \/ Cancel(t)
    \/ LoadRead(t) \/ Bump(t) \/ Raise(t) \/ Flush(t) \/ Settle(t) \/ MoveAssign(t)
    \/ Drop(t) \/ Cascade(t)

Call(t) == CallLoad(t) \/ CallStore(t) \/ CallCas(t) \/ Destroy(t)

Next == \E t \in Threads : SharedPtrStep(t) \/ RegisterStep(t) \/ Call(t)

Spec == Init /\ [][Next]_vars

-----------------------------------------------------------------------------
Labels == {"idle", "acquire", "drop", "strong", "exchange", "charge", "peek", "compare",
           "cancel", "load", "bump", "raise", "flush", "settle", "assign"}

TypeOK ==
    /\ ptr \in Stamped
    /\ count \in [Objects -> [strong : Int, basic : Int]]
    /\ alive \subseteq Objects
    /\ held \in [Threads -> Pointers]
    /\ own \in [Threads -> Pointers]
    /\ arg \in [Threads -> Pointers]
    /\ op \in [Threads -> {"none", "Load", "Store", "Cas"}]
    /\ pc \in [Threads -> Labels]
    /\ current \in [Threads -> Stamped]
    /\ res \in [Threads -> Pointers]
    /\ won \in [Threads -> BOOLEAN]
    /\ next \in [Objects -> Pointers]
    /\ dying \in [Threads -> Pointers]
    /\ calls \in 0 .. MaxCalls
    /\ overtaken \subseteq Objects

\* The objects that somebody refers to: the register, or a SharedPtr.
Referenced ==
    ({ptr.raw} \union {held[t] : t \in Threads} \union {own[t] : t \in Threads}
               \union {arg[t] : t \in Threads}                \union {res[t] : t \in Threads} \union {dying[t] : t \in Threads}
               \union {next[o] : o \in Objects}) \ {nullptr}

\* The objects whose counts somebody is still to correct.
Charged == {current[t].raw : t \in {u \in Threads : pc[u] = "charge"}} \ {nullptr}

\* No object is deleted while the register or a SharedPtr of some thread refers
\* to it, or while a thread that took it out of the register has yet to charge
\* the stamp: the split counts never both read zero too early
\* (AtomicSharedPtr.hpp 39, 166-176, 186-189).
ReferencedIsAlive == Referenced \union Charged \subseteq alive

\* An object that nobody refers to any more has been deleted, unless a flush
\* found another pointer in the register and charged its stamp to the object,
\* which then never reaches zero (AtomicSharedPtr.hpp 172-176).
UnreferencedIsDeleted == alive \subseteq Referenced \union Charged \union overtaken

\* The stamp goes beyond its half by one reference of every thread that has yet
\* to flush it at most, so it never runs out of its 16 bits, where it would
\* forget every reference it counts (AtomicSharedPtr.hpp 163, 167).
Flushing  == {t \in Threads : pc[t] \in {"raise", "flush"} /\ res[t] = ptr.raw}
StampFits == ptr.stamp <= kMaxStamp \div 2 + Cardinality(Flushing)

-----------------------------------------------------------------------------
\* What the calls in progress look like to their callers.

Phase(t) ==
    LET loading == pc[t] \in {"raise", "flush", "settle", "assign"} IN
    CASE op[t] = "Load" /\ pc[t] \in {"load", "bump"} -> "load"
      [] op[t] = "Load" /\ loading -> "loaded"
      [] op[t] = "Store" /\ pc[t] \in {"strong", "exchange"} -> "store"
      [] op[t] = "Store" /\ pc[t] = "charge" -> "stored"
      [] op[t] = "Cas" /\ pc[t] = "peek" -> "cas"
      [] op[t] = "Cas" /\ pc[t] \in {"strong", "compare"} ->
           IF current[t].raw = held[t] THEN "cas" ELSE "reload"
      [] op[t] = "Cas" /\ pc[t] \in {"load", "bump"} -> "reload"
      [] op[t] = "Cas" /\ (loading \/ pc[t] = "cancel") -> "lost"
      [] op[t] = "Cas" /\ pc[t] = "charge" -> "won"
      [] OTHER -> "idle"

Seen(t) ==
    CASE Phase(t) \in {"loaded", "lost"} -> IF pc[t] = "cancel" THEN held[t] ELSE res[t]
      [] Phase(t) \in {"cas", "reload", "won"} -> held[t]
      [] OTHER -> nullptr

Register == INSTANCE SharedRegister WITH
    Values <- Objects,
    Null   <- nullptr,
    value  <- ptr.raw,
    phase  <- [t \in Threads |-> Phase(t)],
    new    <- [t \in Threads |-> IF Phase(t) \in {"store", "cas"} THEN arg[t] ELSE nullptr],
    seen   <- [t \in Threads |-> Seen(t)]

\* AtomicSharedPtr is an atomic register: what Load returns was in the register
\* at a moment of the call, CompareExchangeWeak wins only if the expected
\* object was there, and loses only if it was not (AtomicSharedPtr.hpp 155-216).
IsRegister == Register!Spec
=============================================================================
