CONSTANTS
    UserIds = {1}
    ChannelIds = {1}
    Names = {n1}
    Phones = {p1}
    Tasks = {t1}
    Nobody = Nobody
    NoFile = NoFile
    MaxMoves = 1
    MaxUpdates = 1

SPECIFICATION Spec

INVARIANTS
    EntriesWereTrue

PROPERTIES
    ForcedIsCurrent
    OnlyUnsavedIsLost
