SPECIFICATION Spec
CONSTANTS
    r1 = r1
    r2 = r2
    r3 = r3
    s1 = s1
    s2 = s2
    NoRequest = NoRequest
    Requests <- TwoRequests
    StreamRequests <- JustR2
    Cancellable <- JustR1
    Slots <- TwoSlots
    MaxGen = 2
    BufferSize <- Shrinking
    DropExcess = {TRUE, FALSE}
    CreateFails = {TRUE, FALSE}
    AdminOps = {"update", "remove", "shutdown"}
    StartStates = {"served", "unserved", "absent"}
INVARIANTS
    TypeOK
    AtMostOnce
    MessagesAccounted
PROPERTY
    RemoveLeavesNoWorker
    ImplementsService
SYMMETRY EqualWorkers
CONSTRAINT Apart
CHECK_DEADLOCK FALSE
