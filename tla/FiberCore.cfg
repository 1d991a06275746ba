SPECIFICATION Spec
CONSTANTS
    Threads = {w1, w2}
    Stacks = {s1, s2, s3}
    Procs = {w1, w2, s1, s2, s3}
    nullptr = nullptr
    Modulus = 1
INVARIANTS
    StackHasOneUser
    ContextIsRight
