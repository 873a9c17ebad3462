CONSTANTS
    a = a
    s = s
    w1 = w1
    w2 = w2
    None = None
    ClientIds = {a}
    ScheduledIds = {s}
    OrderlyIds = {s}
    PoolWorkers = {w1}
    TickCallers = {w2}
    Kinds = {"reply"}
    MaxAttempts = {1, 2}
    BaseDelay = 1
    JitterSeconds = 1
    MaxLag = 0
    U64Max = 3
    MaxNow = 1
    Faults = {}
    MaxFaults = 0
    MaxRequests = 3
SPECIFICATION FairSpec
INVARIANTS
    NothingLost
    NoOrphan
PROPERTIES
    ImplementsLifecycleFairly
    Settles
