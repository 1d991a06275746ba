-------------------------- MODULE MCLockFreeStack ---------------------------
(* The stack for TLC: threads and addresses are interchangeable. *)
EXTENDS LockFreeStack, TLC

Symmetry == Permutations(Threads) \union Permutations(Objects)
=============================================================================
