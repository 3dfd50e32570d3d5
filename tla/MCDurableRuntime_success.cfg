SPECIFICATION Spec
CONSTANTS
    Jobs = {1}
    Workers = {w1, w2}
    AttemptBound = 2
    SafeJobs = {}
    Interactive = {}
    CrashBound = 1
    LeaseSlips = FALSE
    MaxAttempts <- MCTwice
CHECK_DEADLOCK FALSE
PROPERTIES
    SuccessIsKept
