CONSTANTS
    c1 = c1
    c2 = c2
    NoCall = NoCall
    Calls <- OneCall
    PingCalls <- NoPings
    MaxFlood = 0
    QueueSize = 0
    MaxRotations = 0
    MaxExtra = 0
    MaxBatch = 1

SPECIFICATION Spec

INVARIANTS
    TimeoutRetriesOnce

CHECK_DEADLOCK FALSE
