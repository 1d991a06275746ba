--------------------------- MODULE SharedRegister ---------------------------
(***************************************************************************)
(* What AtomicSharedPtr promises (DataStructures/AtomicSharedPtr.hpp): one *)
(* atomic register.  Every call of Load, Store and CompareExchangeWeak     *)
(* takes effect at one moment between its call and its return, except that *)
(* a CompareExchangeWeak that lost loads the new expected value later.     *)
(***************************************************************************)
CONSTANTS Threads, Values, Null

VARIABLES
    value,  \* what the register holds
    phase,  \* phase[t]: what the call of thread t has come to
    new,    \* new[t]: the value that the call of t wants to write
    seen    \* seen[t]: the value that the call of t expects, or has got

vars == <<value, phase, new, seen>>

Init ==
    /\ value = Null
    /\ phase = [t \in Threads |-> "idle"]
    /\ new = [t \in Threads |-> Null]
    /\ seen = [t \in Threads |-> Null]

Move(t, from, to) == phase[t] = from /\ phase' = [phase EXCEPT ![t] = to]

Call(t) ==
    /\ \E op \in {"load", "store", "cas"} : Move(t, "idle", op)
    /\ \E v, w \in Values \union {Null} :
          /\ new' = [new EXCEPT ![t] = v]
          /\ seen' = [seen EXCEPT ![t] = w]
    /\ UNCHANGED value

Load(t) ==
    /\ Move(t, "load", "loaded") \/ Move(t, "reload", "lost")
    /\ seen' = [seen EXCEPT ![t] = value]
    /\ UNCHANGED <<value, new>>

Write(t) ==
    /\ value' = new[t]
    /\ new' = [new EXCEPT ![t] = Null]
    /\ UNCHANGED seen

Store(t) == Move(t, "store", "stored") /\ Write(t)
Win(t)   == Move(t, "cas", "won") /\ value = seen[t] /\ Write(t)

Lose(t) ==
    /\ Move(t, "cas", "reload")
    /\ value # seen[t]
    /\ new' = [new EXCEPT ![t] = Null]
    /\ UNCHANGED <<value, seen>>

Return(t) ==
    /\ \E answer \in {"loaded", "stored", "won", "lost"} : Move(t, answer, "idle")
    /\ seen' = [seen EXCEPT ![t] = Null]
    /\ UNCHANGED <<value, new>>

\* The register is destroyed when nobody calls it, and made anew.
Renew ==
    /\ \A t \in Threads : phase[t] = "idle"
    /\ value' = Null
    /\ UNCHANGED <<phase, new, seen>>

Next ==
    \/ \E t \in Threads :
          Call(t) \/ Load(t) \/ Store(t) \/ Win(t) \/ Lose(t) \/ Return(t)
    \/ Renew

Spec == Init /\ [][Next]_vars
=============================================================================
