SPECIFICATION MCSpec
CONSTANTS
    Procs = {f1, f2, f3, t}
    Fibers = {f1, f2, f3}
    Workers = {w1, w2}
    CallerSets = {{f1, f2, f3}, {f1, t}}
    kUnlocked = kUnlocked
    kLocked = kLocked
    nullptr = nullptr
INVARIANTS
    FiberIsInOnePlace
    WakeFindsHandle
PROPERTIES
    WaiterIsServed
    ReadyFiberRuns
CHECK_DEADLOCK FALSE
