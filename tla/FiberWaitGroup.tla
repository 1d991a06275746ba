--------------------------- MODULE FiberWaitGroup ---------------------------
(***************************************************************************)
(* BadPointerWaitGroup of Synchronization/FiberAware/WaitGroup.cpp: one    *)
(* word holds the counter (the stamp) and the stack of the awaiters, and   *)
(* the Done that brings the counter to zero takes the whole stack with the *)
(* same CAS and wakes it.  The group may be used again at once.            *)
(*                                                                         *)
(* An awaiter lives on the stack of its waiter and is the waiter here; the *)
(* processes reach DoAwait as in FiberMutex.  No process-local state       *)
(* survives a call, so a thread or fiber that both works and waits is one  *)
(* of Workers during some of its calls and one of Waiters during others.   *)
(* Callers keep the contract that the code asserts: no Done without an     *)
(* Add, and no Add that would overflow the stamp.                          *)
(***************************************************************************)
EXTENDS Naturals, FiniteSets

CONSTANTS
    Workers,    \* the processes that call Add and Done
    Waiters,    \* the processes that call Wait
    nullptr,
    kMaxStamp   \* the largest value of a stamp: 65535 in the code

ASSUME WaitGroupAssumption ==
    /\ nullptr \notin Waiters
    /\ Workers \intersect Waiters = {}
    /\ IsFiniteSet(Workers)
    /\ kMaxStamp \in Nat \ {0}

Stamped == [ptr : Waiters \union {nullptr}, stamp : 0 .. kMaxStamp]

VARIABLES
    state,      \* state_, one atomic word
    next,       \* next[p]: Next of the awaiter of p
    pc,
    seen,       \* seen[p]: the local `state` (or `ptr`) of p
    amount,     \* amount[w]: the argument of the Add that w executes
    owed,       \* the calls of Done that nobody has started yet
    room,       \* what the callers may still add without overflowing the stamp
    cursor,     \* cursor[w]: the local `head` of Done
    follow,     \* follow[w]: the local `next` of Done
    woken       \* the parked waiters whose awaiter was woken

callers == <<amount, owed, room>>
vars == <<state, next, pc, seen, callers, cursor, follow, woken>>

Nothing == [ptr |-> nullptr, stamp |-> 0]

Init ==
    /\ state = Nothing
    /\ next = [p \in Waiters |-> nullptr]
    /\ pc = [p \in Workers \union Waiters |-> "idle"]
    /\ seen = [p \in Workers \union Waiters |-> Nothing]
    /\ amount = [w \in Workers |-> 0]
    /\ owed = 0
    /\ room = kMaxStamp
    /\ cursor = [w \in Workers |-> nullptr]
    /\ follow = [w \in Workers |-> nullptr]
    /\ woken = {}

Goto(p, label) == pc' = [pc EXCEPT ![p] = label]

\* The first load of state_, and the load that a failed CAS makes.
Load(p, label) ==
    /\ seen' = [seen EXCEPT ![p] = state]
    /\ Goto(p, label)

\* A CAS of p on state_ may succeed.
CasHits(p) == state = seen[p]

\* state_ is replaced and the local goes out of scope.
Replace(p, new) ==
    /\ CasHits(p)
    /\ state' = new
    /\ seen' = [seen EXCEPT ![p] = Nothing]

-----------------------------------------------------------------------------
AddLoad(w) ==
    /\ pc[w] = "idle"
    /\ \E n \in 1 .. room :
          /\ amount' = [amount EXCEPT ![w] = n]
          /\ room' = room - n
    /\ Load(w, "add")
    /\ UNCHANGED <<state, next, owed, cursor, follow, woken>>

AddCas(w) ==
    /\ pc[w] = "add"
    /\ Replace(w, [seen[w] EXCEPT !.stamp = @ + amount[w]])
    /\ owed' = owed + amount[w]
    /\ amount' = [amount EXCEPT ![w] = 0]
    /\ Goto(w, "idle")
    /\ UNCHANGED <<next, room, cursor, follow, woken>>

\* The weak CAS of Add or Done when state_ has changed or it fails spuriously.
Retry(p, label) ==
    /\ pc[p] = label
    /\ Load(p, label)
    /\ UNCHANGED <<state, next, callers, cursor, follow, woken>>

AddRetry(w) == Retry(w, "add")

DoneLoad(w) ==
    /\ pc[w] = "idle"
    /\ owed > 0
    /\ owed' = owed - 1
    /\ Load(w, "done")
    /\ UNCHANGED <<state, next, amount, room, cursor, follow, woken>>

\* Fault: the awaiters stay in the word when the counter reaches zero.
DoneStateKeeps(s) == [s EXCEPT !.stamp = @ - 1]

\* The word that Done installs.
DoneState(s) == IF s.stamp = 1 THEN Nothing ELSE [s EXCEPT !.stamp = @ - 1]

\* The last Done takes the awaiters with the CAS that zeroes the counter.
DoneCas(w) ==
    /\ pc[w] = "done"
    /\ Replace(w, DoneState(seen[w]))
    /\ room' = room + 1
    /\ IF seen[w].stamp = 1 /\ seen[w].ptr # nullptr
         THEN cursor' = [cursor EXCEPT ![w] = seen[w].ptr] /\ Goto(w, "walk")
         ELSE UNCHANGED cursor /\ Goto(w, "idle")
    /\ UNCHANGED <<next, amount, owed, follow, woken>>

DoneRetry(w) == Retry(w, "done")

\* Next is read before the awaiter is woken.
Follow(w) ==
    /\ pc[w] = "walk"
    /\ follow' = [follow EXCEPT ![w] = next[cursor[w]]]
    /\ Goto(w, "wake")
    /\ UNCHANGED <<state, next, seen, callers, cursor, woken>>

\* Fault: Next is read after the awaiter was woken.
WakeFirst(w) ==
    /\ pc[w] \in {"walk", "wake"}
    /\ IF pc[w] = "walk"
         THEN /\ woken' = woken \union {cursor[w]}
              /\ Goto(w, "wake")
              /\ UNCHANGED cursor
         ELSE /\ cursor' = [cursor EXCEPT ![w] = next[cursor[w]]]
              /\ Goto(w, IF cursor'[w] = nullptr THEN "idle" ELSE "walk")
              /\ UNCHANGED woken
    /\ UNCHANGED <<state, next, seen, callers, follow>>

\* Fault: only one waiter is woken, as a mutex or a semaphore would.
WakeOne(w) ==
    /\ pc[w] = "wake"
    /\ woken' = woken \union {cursor[w]}
    /\ cursor' = [cursor EXCEPT ![w] = nullptr]
    /\ follow' = [follow EXCEPT ![w] = nullptr]
    /\ Goto(w, "idle")
    /\ UNCHANGED <<state, next, seen, callers>>

\* The awaiter at the cursor is woken and the walk goes on.
Wake(w) ==
    /\ pc[w] = "wake"
    /\ woken' = woken \union {cursor[w]}
    /\ cursor' = [cursor EXCEPT ![w] = follow[w]]
    /\ follow' = [follow EXCEPT ![w] = nullptr]
    /\ Goto(w, IF follow[w] = nullptr THEN "idle" ELSE "walk")
    /\ UNCHANGED <<state, next, seen, callers>>

-----------------------------------------------------------------------------
Wait(p) ==
    /\ pc[p] = "idle"
    /\ Goto(p, "test")
    /\ UNCHANGED <<state, next, seen, callers, cursor, follow, woken>>

\* A counter of zero lets the call return without a context switch.
WaitTest(p) ==
    /\ pc[p] = "test"
    /\ Goto(p, IF state.stamp = 0 THEN "return" ELSE "load")
    /\ UNCHANGED <<state, next, seen, callers, cursor, follow, woken>>

AwaitLoad(p) ==
    /\ pc[p] = "load"
    /\ Load(p, "link")
    /\ UNCHANGED <<state, next, callers, cursor, follow, woken>>

\* Fault: the counter is not looked at again.
AwaitLinkBlindly(p) ==
    /\ pc[p] = "link"
    /\ next' = [next EXCEPT ![p] = seen[p].ptr]
    /\ Goto(p, "cas")
    /\ UNCHANGED <<state, seen, callers, cursor, follow, woken>>

\* The body of the lambda's loop: give up at zero, else link the awaiter.
AwaitLink(p) ==
    /\ pc[p] = "link"
    /\ IF seen[p].stamp = 0
         THEN /\ Goto(p, "return")
              /\ seen' = [seen EXCEPT ![p] = Nothing]
              /\ next' = [next EXCEPT ![p] = nullptr]
         ELSE /\ Goto(p, "cas")
              /\ next' = [next EXCEPT ![p] = seen[p].ptr]
              /\ UNCHANGED seen
    /\ UNCHANGED <<state, callers, cursor, follow, woken>>

AwaitCas(p) ==
    /\ pc[p] = "cas"
    /\ Replace(p, [seen[p] EXCEPT !.ptr = p])
    /\ Goto(p, "parked")
    /\ UNCHANGED <<next, callers, cursor, follow, woken>>

AwaitRetry(p) ==
    /\ pc[p] = "cas"
    /\ Load(p, "link")
    /\ UNCHANGED <<state, next, callers, cursor, follow, woken>>

Resume(p) ==
    /\ pc[p] = "parked"
    /\ p \in woken
    /\ woken' = woken \ {p}
    /\ next' = [next EXCEPT ![p] = nullptr]
    /\ Goto(p, "return")
    /\ UNCHANGED <<state, seen, callers, cursor, follow>>

Return(p) ==
    /\ pc[p] = "return"
    /\ Goto(p, "idle")
    /\ UNCHANGED <<state, next, seen, callers, cursor, follow, woken>>

AddStep(w)  == AddLoad(w) \/ AddCas(w) \/ AddRetry(w)
DoneStep(w) == DoneLoad(w) \/ DoneCas(w) \/ DoneRetry(w) \/ Follow(w) \/ Wake(w)
WaitStep(p) == WaitTest(p) \/ AwaitLoad(p) \/ AwaitLink(p) \/ AwaitCas(p) \/ AwaitRetry(p)
               \/ Resume(p) \/ Return(p)

Next ==
    \/ \E w \in Workers : AddStep(w) \/ DoneStep(w)
    \/ \E p \in Waiters : Wait(p) \/ WaitStep(p)

Spec == Init /\ [][Next]_vars

\* Every process goes on; a worker calls the Done that it owes.
FairSpec ==
    /\ Spec
    /\ \A w \in Workers : WF_vars(DoneStep(w))
    /\ \A p \in Waiters : WF_vars(WaitStep(p))

-----------------------------------------------------------------------------
TypeOK ==
    /\ state \in Stamped
    /\ next \in [Waiters -> Waiters \union {nullptr}]
    /\ pc \in [Workers \union Waiters -> {"idle", "add", "done", "walk", "wake", "test",
                                          "load", "link", "cas", "parked", "return"}]
    /\ seen \in [Workers \union Waiters -> Stamped]
    /\ amount \in [Workers -> 0 .. kMaxStamp]
    /\ owed \in 0 .. kMaxStamp
    /\ room \in 0 .. kMaxStamp
    /\ cursor \in [Workers -> Waiters \union {nullptr}]
    /\ follow \in [Workers -> Waiters \union {nullptr}]
    /\ woken \subseteq Waiters

Live(p) == pc[p] = "parked" /\ p \notin woken

\* Done follows no pointer to an awaiter that may be gone: neither the rest of
\* the list it walks, nor what a Done or Wait finds in the word
\* (WaitGroup.cpp 63-68).
AwaiterAlive ==
    LET held == {state.ptr} \union {cursor[w] : w \in Workers}
                            \union {follow[w] : w \in Workers}
                            \union {next[p] : p \in {q \in Waiters : Live(q)}}
    IN  \A p \in held \intersect Waiters : Live(p)

\* The counter is the number of the Done calls that have not taken effect, and
\* a counter of zero comes with an empty list: nobody joins a group that the
\* last Done has left, whatever happens between the loads and the CAS of Add,
\* Done and Wait (WaitGroup.cpp 47, 61, 86).
CounterIsExact ==
    /\ TypeOK
    /\ state.stamp = owed + Cardinality({w \in Workers : pc[w] = "done"})
    /\ state.stamp = 0 => state.ptr = nullptr

\* The waiters on the list that starts at p: the fewest that next does not lead out of.
Closed(S) == \A q \in S : next[q] \in Waiters => next[q] \in S
Chain(p)  == {q \in Waiters : \A S \in SUBSET Waiters : {p} \intersect Waiters \subseteq S /\ Closed(S) => q \in S}

\* How far the call of Wait by p has come: it has joined while it is on the list
\* of state_, and is released once the last Done has taken it off or once it
\* has seen a counter of zero.
Phase(p) ==
    CASE pc[p] = "idle" -> "out"
      [] pc[p] \in {"test", "load", "cas"} -> "called"
      [] pc[p] = "link" -> IF seen[p].stamp = 0 THEN "released" ELSE "called"
      [] pc[p] = "parked" -> IF p \in Chain(state.ptr) THEN "joined" ELSE "released"
      [] pc[p] = "return" -> "released"

Promise == INSTANCE WaitGroupSpec
             WITH count <- state.stamp, phase <- [p \in Waiters |-> Phase(p)],
                  MaxCount <- kMaxStamp

\* The group keeps the promise of WaitGroupSpec: Wait returns only if the
\* counter was zero during the call, and the Done that makes it zero releases
\* exactly the waiters that had joined, none of them by or for another round
\* of Add and Done (WaitGroup.cpp 40-89).
IsWaitGroup == Promise!Spec

\* The last Done wakes every waiter that it took off the list, so a waiter that
\* is parked when the counter is zero returns, although the group may already
\* be in use again (WaitGroup.cpp 62-69).
ReleasedWaiterReturns ==
    \A p \in Waiters : (pc[p] = "parked" /\ state.stamp = 0) ~> (pc[p] = "return")
=============================================================================
