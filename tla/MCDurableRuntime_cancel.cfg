SPECIFICATION FairSpec
CONSTANTS
    Jobs = {1}
    Workers = {w1}
    AttemptBound = 2
    SafeJobs = {1}
    Interactive = {}
    CrashBound = 0
    LeaseSlips = FALSE
    MaxAttempts <- MCTwice
CHECK_DEADLOCK FALSE
PROPERTIES
    CanceledJobEnds
