SPECIFICATION Spec
CONSTANTS
    Threads = {w1}
    Stacks = {s1, s2}
    Procs = {w1, s1, s2}
    nullptr = nullptr
    Modulus = 4
INVARIANTS
    NothingIsLeased
