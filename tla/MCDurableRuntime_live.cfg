\* Liveness: one worker, which may crash twice and come back, and whose leases
\* may lapse while it lives.
SPECIFICATION FairSpec
CONSTANTS
    Jobs = {1}
    Workers = {w1}
    AttemptBound = 2
    SafeJobs = {1}
    Interactive = {}
    CrashBound = 2
    LeaseSlips = TRUE
    MaxAttempts <- MCTwice
CHECK_DEADLOCK FALSE
PROPERTIES
    QueuedJobEnds
    CanceledRunEnds
    RunRecordFollows
