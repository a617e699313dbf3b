SPECIFICATION FairSpec
CONSTANTS
    Servers = {old, new}
    Stopped = {old}
    WithTCP = {old}
    Callers = {c1}
    None = none
    Inodes = {1, 2}
    BindFails = TRUE
    PathRace = FALSE
CHECK_DEADLOCK FALSE
INVARIANTS
    CloseMeansClosed
    SocketKept
PROPERTIES
    NoAddDuringWait
    CloseReturns
