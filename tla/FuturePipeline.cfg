SPECIFICATION FairSpec
CONSTANTS
    Workers = {w1}
    MaxPipes = 2
    Programs <- MCPrograms
INVARIANTS
    ContractRunsOnce
    RunsWhereTold
    GetIsResult
PROPERTIES
    PipelineFinishes
CHECK_DEADLOCK FALSE
