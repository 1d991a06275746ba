------------------------- MODULE MCThreadWaitGroup --------------------------
(***************************************************************************)
(* The wait group of threads under names of its own, for TLC and for       *)
(* WaitGroupProofs, where it stands beside the wait group of fibers.       *)
(***************************************************************************)
EXTENDS Naturals, FiniteSets

CONSTANTS WorkThreads, WaitThreads, MaxCount

VARIABLES job_cnt, thread_pc, latest, thread_owed, asleep

T == INSTANCE ThreadWaitGroup
       WITH Workers <- WorkThreads, Waiters <- WaitThreads, pc <- thread_pc, owed <- thread_owed

ASSUME ThreadWaitGroupAssumption == T!Callers

ThreadSpec     == T!Spec
FairThreadSpec == T!FairSpec

\* The properties of ThreadWaitGroup.
ThreadInv          == T!Inv
StorageIsFree      == T!StorageIsFree
SleeperIsAnnounced == T!SleeperIsAnnounced
IsThreadWaitGroup  == T!IsWaitGroup
WaitReturns        == T!WaitReturns
=============================================================================
