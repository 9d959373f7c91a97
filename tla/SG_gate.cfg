SPECIFICATION Spec
CONSTANTS
    MaxChunks = 2
    Cap = 1
    MaxOps = 4
    MaxGates = 3
    Reaps <- Either
INVARIANTS
    TypeOK
    StreamIsWhole
    FlushersRelease
PROPERTY
    PauseHolds
CHECK_DEADLOCK FALSE
