\* Three requests, two admissions, two callers.
SPECIFICATION Spec
CONSTANTS
    j1 = j1
    j2 = j2
    start1 = start1
    start2 = start2
    patch1 = patch1
    patch2 = patch2
    relay = relay
    Absent = Absent
    Operations <- MCOperations
    Jobs <- MCJobs
    SpawnOf <- MCSpawnOf
    ActionOf <- MCActionOf
    ScopeOf <- MCScopeOf
    BindingOf <- MCBindingOf
    Unset = Absent
    Polled = {relay}
    Callers = {c1, c2}
    RequestBound = 3
    AdmissionBound = 2
CHECK_DEADLOCK FALSE
SYMMETRY CallersAlike
INVARIANTS
    ApprovalTypeOK
    OnceIsOnce
    AdmittedWasApproved
    AllowedWasApproved
    SpawnAnswered
PROPERTIES
    DecisionIsFinal
