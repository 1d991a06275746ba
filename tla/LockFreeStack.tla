--------------------------- MODULE LockFreeStack ----------------------------
(***************************************************************************)
(* Treiber's stack (DataStructures/LockFreeStack.hpp) on AtomicSharedPtr:  *)
(* the register is top_, an object is a Node and its member is Next.       *)
(*                                                                         *)
(* In Push `own` is new_node, and `held` is its Next, which the calls of   *)
(* the register use as `expected`; in TryPop `held` is curr_top.  The      *)
(* client is chosen at the start: threads that call the register and their *)
(* SharedPtrs as they like, or the stack.                                  *)
(***************************************************************************)
EXTENDS AtomicSharedPtr, Sequences

VARIABLES
    client,     \* who uses the register: "any" or "stack"
    job         \* job[t]: where t is in Push or TryPop

stackVars == <<vars, client, job>>

StackInit ==
    /\ Init
    /\ client \in {"any", "stack"}
    /\ job = [t \in Threads |-> "none"]

Become(t, from, to) ==
    /\ At(t, "idle")
    /\ job[t] = from
    /\ job' = [job EXCEPT ![t] = to]
    /\ UNCHANGED client

\* Push: the node is made, and top_ loaded into its Next.
Push(t) ==
    /\ Become(t, "none", "push")
    /\ Spend
    /\ \E o \in Objects \ alive : Construct(o) /\ own' = [own EXCEPT ![t] = o]
    /\ Begin(t, "Load", "load")
    /\ UNCHANGED arg

\* A turn of the loop, with new_node->Next as it was loaded.
Swing(t) ==
    /\ Become(t, "push", "push")
    /\ ~won[t]
    /\ CopyConstruct(t, own[t])
    /\ Begin(t, "Cas", "peek")
    /\ UNCHANGED calls

\* Next of a node, also while its pusher still works on it.
NextOf(o) ==
    LET pushers == {t \in Threads : job[t] = "push" /\ own[t] = o} IN
    IF pushers = {} THEN next[o] ELSE held[CHOOSE t \in pushers : TRUE]

\* The variable new_node is destroyed.
Pushed(t) ==
    /\ Become(t, "push", "none")
    /\ won[t]
    /\ ModifyStateOf(t, own[t], 0, -1, [next EXCEPT ![own[t]] = held[t]])
    /\ own' = [own EXCEPT ![t] = nullptr]
    /\ held' = [held EXCEPT ![t] = nullptr]
    /\ won' = [won EXCEPT ![t] = FALSE]
    /\ UNCHANGED <<ptr, arg, op, pc, current, res, calls, overtaken>>

\* TryPop: a turn of the loop begins with a Load.
TryPop(t) ==
    /\ Become(t, "none", "pop")
    /\ Spend
    /\ Begin(t, "Load", "load")
    /\ UNCHANGED <<heap, own, arg>>

TakeTop(t) ==
    /\ Become(t, "pop", "take")
    /\ held[t] # nullptr
    /\ CopyConstruct(t, NextOf(held[t]))
    /\ Begin(t, "Cas", "peek")
    /\ UNCHANGED calls

FoundEmpty(t) ==
    /\ Become(t, "pop", "none")
    /\ held[t] = nullptr
    /\ UNCHANGED vars

\* The variable curr_top is destroyed, after the item was taken or for a new turn.
ReleaseTop(t) ==
    /\ Become(t, "take", IF won[t] THEN "none" ELSE "again")
    /\ ModifyState(t, held[t], 0, -1)
    /\ held' = [held EXCEPT ![t] = nullptr]
    /\ won' = [won EXCEPT ![t] = FALSE]
    /\ UNCHANGED <<ptr, own, arg, op, pc, current, res, calls, overtaken>>

TryAgain(t) ==
    /\ Become(t, "again", "pop")
    /\ Begin(t, "Load", "load")
    /\ UNCHANGED <<heap, own, arg, calls>>

StackStep(t) ==
    \/ Push(t) \/ Swing(t) \/ Pushed(t)
    \/ TryPop(t) \/ TakeTop(t) \/ FoundEmpty(t) \/ ReleaseTop(t) \/ TryAgain(t)

StackNext ==
    \E t \in Threads :
        \/ RegisterStep(t) /\ UNCHANGED <<client, job>>
        \/ client = "any" /\ (SharedPtrStep(t) \/ Call(t)) /\ UNCHANGED <<client, job>>
        \/ client = "stack" /\ StackStep(t)

StackSpec == StackInit /\ [][StackNext]_stackVars

-----------------------------------------------------------------------------
\* The nodes from the top on, and nullptr from the end on.
Visited ==
    LET visit[k \in 1 .. Cardinality(Objects) + 1] ==
          IF k = 1 THEN ptr.raw
          ELSE IF visit[k - 1] = nullptr THEN nullptr ELSE NextOf(visit[k - 1])
    IN  visit

Chain ==
    LET nodes == Visited
    IN  [k \in 1 .. Cardinality({k \in DOMAIN nodes : nodes[k] # nullptr}) |-> nodes[k]]

\* The Load of TryPop has found no node.
FindsEmpty(t) ==
    /\ job[t] = "pop"
    /\ \/ pc[t] = "assign" /\ res[t] = nullptr
       \/ pc[t] \in {"drop", "idle"} /\ held[t] = nullptr

StackPhase(t) ==
    CASE job[t] = "push" -> IF won[t] THEN "pushed" ELSE "push"
      [] job[t] = "take" /\ won[t] -> "popped"
      [] FindsEmpty(t) -> "empty"
      [] job[t] = "none" -> "idle"
      [] OTHER -> "pop"

Stack == INSTANCE LifoStack WITH
    Items <- Objects,
    Null  <- nullptr,
    items <- IF client = "stack" THEN Chain ELSE <<>>,
    phase <- [t \in Threads |-> StackPhase(t)],
    item  <- [t \in Threads |-> CASE job[t] = "push" -> own[t]
                                  [] StackPhase(t) = "popped" -> held[t]
                                  [] OTHER -> nullptr]

\* The stack is last in, first out, whatever the interleaving of the calls and
\* although addresses of nodes are used again: a CompareExchange that wins
\* finds the very node that was loaded, with the Next that was read from it
\* (LockFreeStack.hpp 24, 35).
IsStack == Stack!Spec
=============================================================================
