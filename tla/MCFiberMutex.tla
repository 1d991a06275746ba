---------------------------- MODULE MCFiberMutex ----------------------------
(* The mutex for TLC: the processes are interchangeable model values. *)
EXTENDS FiberMutex, TLC

Symmetry == Permutations(Procs)
=============================================================================
