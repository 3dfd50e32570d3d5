\* Two instants, two workers; one crash, failed submission or turn of a job.
SPECIFICATION Spec
CONSTANTS
    Workers = {w1, w2}
    Jobs = {1, 2}
    SlotCount = 2
    Trigger <- MCTwoInstants
    MaxConcurrency = 1
    EditBound = 0
    TroubleBound = 1
SYMMETRY MCSymmetry
INVARIANTS
    NoCopies
    InstantsAreRecorded
CHECK_DEADLOCK FALSE
