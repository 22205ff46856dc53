\* A wrapped transport that is started any number of times.
SPECIFICATION FairSpec
CONSTANTS
    k = k
    r1 = r1
    r2 = r2
    Keeper = k
    Receivers = {r1, r2}
    CheckInterval = 2
    None = None
INVARIANTS
    OneChild
PROPERTIES
    Restarts
    Ends
CHECK_DEADLOCK FALSE
