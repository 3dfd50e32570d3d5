\* A workflow with a step of each kind, one cancellation or mishap.
SPECIFICATION FairSpec
CONSTANTS
    Jobs = {2}
    StepCount = 4
    Kind <- MCMixedKind
    DependsOn <- MCMixedDeps
    Condition <- MCMixedCondition
    ActionOf <- MCActionOf
    MaxConcurrency = 1
    RequestBound = 2
    BatchBound = 2
    TroubleBound = 1
CHECK_DEADLOCK FALSE
INVARIANTS
    LimitKept
    EndIsQuiet
    JobFoundAgain
PROPERTIES
    BeginsInOrder
    WatchedRunEnds
