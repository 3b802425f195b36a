CONSTANTS
    Base = 4
    Align = 2
    ShortLimit = 2
    PrefixBytes = 1
    VectorId = 15
    Cid <- MCCid
    Params <- MCParams
    None = None
    Marker = 3
    MarkerBytes = 2
    HeaderBytes = 3
    HeaderSign = 32
    Framings = {"abridged", "intermediate"}
    Objects <- SentObjects
    Packets <- SentPackets
    ChunkSize = 4
    MaxSends = 1
    MaxServed = 2
    MaxConns = 2

SPECIFICATION Spec

INVARIANTS
    ObjectsArriveInOrder
    NothingHeldBack
    DecodeNeverRaises

PROPERTIES
    RespectsPipe

CHECK_DEADLOCK FALSE
