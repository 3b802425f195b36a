CONSTANTS
    Clocks <- MCClocks
    RemoteIds <- MCRemoteIds
    MaxId = 28

SPECIFICATION Spec

INVARIANTS
    TypeOK
    SeqNosFollowIds

PROPERTIES
    FreshIds

CHECK_DEADLOCK FALSE
