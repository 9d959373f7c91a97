SPECIFICATION FairSpec
CONSTANTS
    r1 = r1
    r2 = r2
    r3 = r3
    s1 = s1
    s2 = s2
    NoRequest = NoRequest
    Requests <- TwoRequests
    StreamRequests <- Nobody
    Cancellable <- JustR1
    Slots <- OneSlot
    MaxGen = 2
    BufferSize <- Shrinking
    DropExcess = {FALSE}
    CreateFails = {TRUE, FALSE}
    AdminOps = {"update", "remove"}
    StartStates = {"served"}
PROPERTY
    CallersReturn
    AdminReturns
CONSTRAINT TwoOfThree
CHECK_DEADLOCK FALSE
