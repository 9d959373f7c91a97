SPECIFICATION FairSpec
CONSTANTS
    k1 = k1
    k2 = k2
    k3 = k3
    k4 = k4
    NoKey = NoKey
    Keys <- AllKeys
    Chain <- RotateAndFallBack
    MaxRetries = 3
    Pins <- SomePins
    Sticky = {TRUE, FALSE}
    Filters = TRUE
    Streams = {TRUE, FALSE}
    HooksRewrite = TRUE
INVARIANTS
    TypeOK
    DeadKeys
    BalancedRotation
    TruthfulTrail
    Attribution
    FreshStart
PROPERTY
    EndsOnce
CHECK_DEADLOCK FALSE
