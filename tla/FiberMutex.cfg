SPECIFICATION Spec
CONSTANTS
    Procs = {p1, p2, p3, p4}
    kUnlocked = kUnlocked
    kLocked = kLocked
SYMMETRY Symmetry
INVARIANTS
    Inv
    AwaiterAlive
PROPERTIES
    IsFifoLock
