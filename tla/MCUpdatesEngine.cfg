CONSTANTS
    Channels = {ch1}
    MaxPts = 2
    MaxQts = 2
    MaxChannel = 2
    QueueSize = 1
    MaxRare = 1

SPECIFICATION FairSpec

INVARIANTS
    NothingSkipped
    SavedIsHanded
    ChannelsCounted

PROPERTIES
    ShortMessagesArrive

CHECK_DEADLOCK FALSE
