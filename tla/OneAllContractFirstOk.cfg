SPECIFICATION Spec
CONSTANTS
    Producers = {a, b}
    Kinds = {"TryFirst"}
CHECK_DEADLOCK FALSE
INVARIANT FirstSuccess
