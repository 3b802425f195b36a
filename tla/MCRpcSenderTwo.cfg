CONSTANTS
    c1 = c1
    c2 = c2
    NoCall = NoCall
    Calls <- TwoCalls
    PingCalls <- OnePing
    MaxFlood = 0
    QueueSize = 0
    MaxRotations = 1
    MaxExtra = 0
    MaxBatch = 2

SPECIFICATION Spec

INVARIANTS
    ResultsAreEarned
    WaitingIsRegistered

PROPERTIES
    WireOrder
    SettledOnce
    RespectsContract

CHECK_DEADLOCK FALSE
