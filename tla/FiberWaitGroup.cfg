SPECIFICATION FairSpec
CONSTANTS
    Workers = {d1, d2}
    Waiters = {w1, w2}
    nullptr = nullptr
    kMaxStamp = 3
INVARIANTS
    AwaiterAlive
    CounterIsExact
PROPERTIES
    IsWaitGroup
    ReleasedWaiterReturns
