\* Two careful clients, two starts.
SPECIFICATION FairSpec
CONSTANTS
    c1 = c1
    c2 = c2
    r1 = r1
    r2 = r2
    r3 = r3
    Clients = {c1, c2}
    Stoppers = {c1, c2}
    Receivers = {r1, r2}
    StartModes = {TRUE, FALSE}
    StopModes = {TRUE}
    SelfStops = {}
    Careful = TRUE
    None = None
INVARIANTS
    OneLoop
PROPERTIES
    StopWaitsForRun
    StopReturns
CHECK_DEADLOCK FALSE
