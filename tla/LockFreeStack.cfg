SPECIFICATION StackSpec
CONSTANTS
    Threads = {t1, t2}
    Objects = {o1, o2}
    nullptr = nullptr
    kMaxStamp = 3
    MaxCalls = 5
SYMMETRY Symmetry
INVARIANTS
    ReferencedIsAlive
    UnreferencedIsDeleted
    StampFits
PROPERTIES
    IsRegister
    IsStack
CHECK_DEADLOCK FALSE
