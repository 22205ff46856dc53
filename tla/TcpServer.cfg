\* Two connections, any number of lives of the server.
SPECIFICATION FairSpec
CONSTANTS
    a = a
    b = b
    Connections = {a, b}
    Announcers = {TRUE, FALSE}
    Addresses = {{a, b}, {b}}
    MaxPending = 1
INVARIANTS
    DownIsClean
    SendReaches
PROPERTY StopReturns
CHECK_DEADLOCK FALSE
