\* One side with an action queue and one without, callers on both, handlers
\* that call back and wait; either nothing goes wrong, or there are calls that
\* time out, sends that fail and undecodable bytes.
SPECIFICATION FairSpec
CONSTANTS
    A = A
    B = B
    a1 = a1
    a2 = a2
    b1 = b1
    Peers = {A, B}
    Callers = {a1, b1}
    Home <- MCHome
    Async = {B}
    Methods <- MCMethods
    HasReply = {"get", "relay", "nonsense"}
    Unknown = {"nonsense"}
    Nested <- MCNested
    Impatient = {a1, B}
    Faults = {"send", "junk", "time"}
    MaxCalls = 1
    None = None
INVARIANTS
    TypeOK
    StillRegistered
PROPERTIES
    RemoteCallSpec
    AwaitEnds
CHECK_DEADLOCK FALSE
