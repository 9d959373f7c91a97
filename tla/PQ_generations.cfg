SPECIFICATION Spec
CONSTANTS
    r1 = r1
    r2 = r2
    r3 = r3
    s1 = s1
    s2 = s2
    NoRequest = NoRequest
    Requests <- ThreeRequests
    StreamRequests <- Nobody
    Cancellable <- Nobody
    Slots <- OneSlot
    MaxGen = 3
    BufferSize <- Three
    DropExcess = {TRUE}
    CreateFails = {FALSE}
    AdminOps = {"update", "shutdown"}
    StartStates = {"served"}
INVARIANTS
    LookupFindsWorkers
    ShutdownStopsWorkers
    ShutdownWaitsForTold
SYMMETRY Interchangeable
CONSTRAINT ThirdOfOne
CHECK_DEADLOCK FALSE
