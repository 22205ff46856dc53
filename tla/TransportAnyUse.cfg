\* Two clients that start and stop as they like, on any thread, in any mode.
SPECIFICATION Spec
CONSTANTS
    c1 = c1
    c2 = c2
    r1 = r1
    r2 = r2
    r3 = r3
    Clients = {c1, c2}
    Stoppers = {c1, c2}
    Receivers = {r1, r2}
    StartModes = {TRUE, FALSE}
    StopModes = {TRUE, FALSE}
    SelfStops = {"callback", "handler"}
    Careful = FALSE
    None = None
INVARIANTS
    RunningIsTrue
    OpenAlone
CHECK_DEADLOCK FALSE
