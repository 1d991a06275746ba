SPECIFICATION FairSpec
CONSTANTS
    Workers = {w1, w2}
    Tasks = {t1, t2}
    Fibers = {f1, f2, f3, f4}
    nullptr = nullptr
    MaxSteps = 2
INVARIANTS
    EverythingIsInOnePlace
    NobodySleepsBesideWork
    NestingIsShallow
PROPERTIES
    TaskRuns
    StopReturns
CHECK_DEADLOCK FALSE
