SPECIFICATION FairThreadSpec
CONSTANTS
    WorkThreads = {d1, d2}
    WaitThreads = {w1, w2, w3}
    MaxCount = 3
INVARIANTS
    ThreadInv
    StorageIsFree
PROPERTIES
    IsThreadWaitGroup
    WaitReturns
