\* A process that writes two chunks of which one is kept; one database error.
SPECIFICATION NativeFairSpec
CONSTANTS
    ChunkBound = 2
    MaxOutputChunks = 1
    FaultBound = 1
INVARIANTS
    EndMeansGone
    TailIsDelivered
    HolesAreTold
PROPERTIES
    EndIsWrittenOnce
    ReasonEndsRow
    FencedProcessEnds
CHECK_DEADLOCK FALSE
