SPECIFICATION FairSpec
CONSTANTS
    Producers = {a, b}
    Kinds = {"Both", "First", "TryBoth", "TryFirst"}
CHECK_DEADLOCK FALSE
INVARIANTS
    RunsOnce
    DeletedLast
    CallbackGetsItsDue
PROPERTIES
    CallbackRuns
    ContractIsReclaimed
