\* A test, two workers, an edit; one crash, failed submission or turn of the job.
SPECIFICATION ScheduleFairSpec
CONSTANTS
    Workers = {w1, w2}
    Jobs = {1}
    SlotCount = 0
    Trigger <- MCTestOnly
    MaxConcurrency = 1
    EditBound = 1
    TroubleBound = 1
INVARIANTS
    GrantIsEarned
PROPERTIES
    DispatchGoesOn
    ResultArrives
CHECK_DEADLOCK FALSE
