\* Two peers whose handlers send and stop, one of which raises as well, one
\* application thread, queues of length one, three starts in all.
SPECIFICATION FairSpec
CONSTANTS
    x = x
    y = y
    c = c
    m1 = m1
    m2 = m2
    Peers = {x, y}
    Clients = {c}
    Messages = {m1, m2}
    Addresses = {{}, {x, y}}
    Repliers = {x, y}
    Raisers = {x}
    Uses = {"stop", "stop_within", "kill"}
    QueueSize = 1
    MaxStarts = 3
    StopSignal = StopSignal
    None = None
INVARIANT TypeOK
PROPERTIES
    BroadcastSpec
    CallsReturn
CHECK_DEADLOCK FALSE
