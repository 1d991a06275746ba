-------------------------- MODULE MCMutexOnWorkers --------------------------
(* The fibers and threads for TLC.  One of CallerSets uses the mutex; the    *)
(* other fibers only yield and finish, the other threads do nothing.         *)
EXTENDS MutexOnWorkers

CONSTANT CallerSets

VARIABLE callers

MCInit == SchedInit /\ callers \in CallerSets

MCNext ==
    /\ SchedNext
    /\ \A p \in Procs \ callers : pc'[p] = "idle"
    /\ UNCHANGED callers

MCSpec == MCInit /\ [][MCNext]_<<allVars, callers>> /\ SchedFairness
=============================================================================
