\* Two transports that are started, stopped, added and removed.
SPECIFICATION Spec
CONSTANTS
    a = a
    b = b
    Children = {a, b}
    None = None
    MaxPieces <- MCMaxPieces
    MaxQueue = 2
    MaxCalls = 2
INVARIANTS
    NothingLeft
    AllOpened
    WholeFrames
PROPERTY StartStopEnd
CHECK_DEADLOCK FALSE
