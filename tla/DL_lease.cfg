SPECIFICATION FairSpec
CONSTANTS
    h1 = h1
    h2 = h2
    NoHolder = NoHolder
    Holders <- TwoHolders
    TTL = 3
    MaxSkew = 1
    MaxRetries = 1
    MaxTime = 5
INVARIANTS
    TypeOK
    LeaseIsExclusive
PROPERTY
    RowsEndOnce
    LockReturns
CHECK_DEADLOCK FALSE
