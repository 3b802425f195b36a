CONSTANTS
    c1 = c1
    c2 = c2
    NoCall = NoCall
    Calls <- OneCall
    PingCalls <- NoPings
    MaxFlood = 1
    QueueSize = 1
    MaxRotations = 2
    MaxExtra = 1
    MaxBatch = 2

SPECIFICATION FairSpec

INVARIANTS
    TypeOK
    AtMostOnce
    EntriesAreLiveOrDead
    SaltLimitNeedsTwoRotations

PROPERTIES
    EveryCallReturns

CHECK_DEADLOCK FALSE
