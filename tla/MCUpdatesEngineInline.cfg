CONSTANTS
    Channels = {ch1}
    MaxPts = 2
    MaxQts = 2
    MaxChannel = 3
    QueueSize = 2
    MaxRare = 0

SPECIFICATION Spec

PROPERTIES
    InlinesChannelResults

CHECK_DEADLOCK FALSE
