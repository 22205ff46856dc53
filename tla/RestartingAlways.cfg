\* As Restarting.cfg, with starts that end with a TimeoutError.
SPECIFICATION FairSpec
CONSTANTS
    k = k
    r1 = r1
    r2 = r2
    Keeper = k
    Receivers = {r1, r2}
    CheckInterval = 2
    None = None
PROPERTY
    RestartsAlways
CHECK_DEADLOCK FALSE
