\* Two attempts of one job, one of another with the same token, two
\* reconcilers, two crashes or failures.
SPECIFICATION Spec
CONSTANTS
    a1 = a1
    a2 = a2
    a3 = a3
    j1 = j1
    j2 = j2
    t1 = t1
    Jobs = {j1, j2}
    Attempts = {a1, a2, a3}
    Tokens = {t1}
    JobOf <- MCJobOf
    TokenOf <- MCTokenOf
    Operations = {"other"}
    Evidence = {"seen"}
    Reconcilers = {r1, r2}
    Nobody = Nobody
    MishapBound = 2
CHECK_DEADLOCK FALSE
INVARIANTS
    EffectTypeOK
    RunsWithEvidence
    EventNotLost
    CopiesBounded
PROPERTIES
    AmbiguousStays
    ImplementsRegister
    EventArrives
