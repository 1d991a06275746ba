SPECIFICATION MCSpec
CONSTANTS
    Workers = {w1, w2}
    Threads = {t1, t2}
    Fibers = {f1}
    Lists = {w1, w2, "wait_queue_"}
    Nodes = {t1, t2, f1}
    nullptr = nullptr
    MaxCount = 2
    Events = {e1, e2}
    kFired = kFired
    kNotFired = kNotFired
    EventCallers = {{t1, t2}, {t1, f1}}
    GroupCallers = {{t1, f1}}
INVARIANT
    WaitersAreRight
PROPERTIES
    FiredWaiterReturns
    KeepsPromise
    IsLists
CHECK_DEADLOCK FALSE
