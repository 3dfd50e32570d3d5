\* Two interactive turns of a session, neither retry-safe, two workers and one
\* crash; only the earlier turn is canceled.
SPECIFICATION Spec
CONSTANTS
    Jobs = {1, 2}
    Workers = {w1, w2}
    AttemptBound = 2
    SafeJobs = {}
    Interactive = {1, 2}
    CrashBound = 1
    LeaseSlips = FALSE
    MaxAttempts <- MCOnce
CONSTRAINT MCFirstCanceled
SYMMETRY MCSymmetry
CHECK_DEADLOCK FALSE
INVARIANTS
    TurnsStartInOrder
    UnsafeRunsOnce
    RuntimeInv
