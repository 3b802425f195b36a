CONSTANTS
    Tasks = {t1, t2}
    MaxConns = 2
    MaxLoops = 2
    MaxMisuses = 1
    MaxCancels = 1
    MaxCrashes = 1

SPECIFICATION Spec

SYMMETRY Interchangeable

INVARIANTS
    NoSocketLeftBehind
    LoopReadsTheConnection
    CallsListen
    OnlyLaterConnectionsAreBare
    SignInsSurvive

PROPERTIES
    CloseRunsThrough

CHECK_DEADLOCK FALSE
