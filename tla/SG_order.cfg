SPECIFICATION Spec
CONSTANTS
    MaxChunks = 3
    Cap = 2
    MaxOps = 2
    MaxGates = 4
    Reaps <- Either
INVARIANT
    InOrder
CHECK_DEADLOCK FALSE
