\* One retry-safe job, two workers, a crash: races of execution, recovery,
\* reconciliation, cancellation and operator retry.
SPECIFICATION Spec
CONSTANTS
    Jobs = {1}
    Workers = {w1, w2}
    AttemptBound = 2
    SafeJobs = {1}
    Interactive = {}
    CrashBound = 1
    LeaseSlips = FALSE
    MaxAttempts <- MCTwice
SYMMETRY MCSymmetry
CHECK_DEADLOCK FALSE
INVARIANTS
    TypeOK
    RunSynced
PROPERTIES
    AttemptIsFinal
    ImplementsLedger
    ImplementsChildren
