CONSTANTS
    i1 = i1
    i2 = i2
    o1 = o1
    Incoming <- Rung
    Outgoing <- Placed
    AutoAccept <- ByHandler
    SelfIdKnown = TRUE
    QueueSize = 2
    MaxCalls = 1
    MaxRepeats = 2
    MaxStops = 1

SPECIFICATION FairSpec

INVARIANTS
    AnnouncedOnce
    EndsAreExplained
    EndsTakeEffect

PROPERTIES
    NeverGoesBack
    ReasonsStand
    QueuedEndsArrive
    AcceptedInHandlerConnects

CHECK_DEADLOCK FALSE
