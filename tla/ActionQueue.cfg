\* Two outside callers and three items, one of which raises and one of which
\* need not end; any item may put further ones.
SPECIFICATION FairQueueSpec
CONSTANTS
    p1 = p1
    p2 = p2
    t1 = t1
    t2 = t2
    t3 = t3
    a1 = a1
    a2 = a2
    a3 = a3
    Putters = {p1, p2}
    Workers = {t1, t2, t3}
    Actions = {a1, a2, a3}
    Raising = {a1}
    Endless = {a2}
    Nobody = Nobody
INVARIANTS
    AttendedUntilCrash
PROPERTIES
    SerialExecutorSpec
    PutReturns
    EveryItemRuns
    TornDown
CHECK_DEADLOCK FALSE
