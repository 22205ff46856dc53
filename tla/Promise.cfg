\* One issuer, the setter thread, which asks for the result itself and waits
\* for ever; a waiter with a timeout; two calls of then().
SPECIFICATION FairSpec
CONSTANTS
    s = s
    w1 = w1
    h1 = h1
    h2 = h2
    Issuers = {s}
    Waiters = {s, w1}
    Chainers = {h1, h2}
    SetterThread = s
    Patient = {s}
    MaxSets = 2
    None = None
INVARIANTS
    WaiterSeesOutcome
    HandlerNotLost
PROPERTIES
    WriteOnceSpec
    ResultEnds
CHECK_DEADLOCK FALSE
