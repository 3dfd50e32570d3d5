\* Two agents in a row, nothing goes wrong.
SPECIFICATION FairSpec
CONSTANTS
    Jobs = {1, 2}
    StepCount = 2
    Kind <- MCChainKind
    DependsOn <- MCChainDeps
    Condition <- MCChainCondition
    ActionOf <- MCActionOf
    MaxConcurrency = 1
    RequestBound = 0
    BatchBound = 0
    TroubleBound = 0
CHECK_DEADLOCK FALSE
PROPERTIES
    StepFollowsJob
