CONSTANTS
    a = a
    s = s
    w1 = w1
    w2 = w2
    None = None
    ClientIds = {a}
    ScheduledIds = {}
    OrderlyIds = {a}
    PoolWorkers = {w1, w2}
    TickCallers = {}
    Kinds = {"reply"}
    MaxAttempts = {1, 2}
    BaseDelay = 1
    JitterSeconds = 1
    MaxLag = 0
    U64Max = 7
    MaxNow = 3
    Faults = {"crash"}
    MaxFaults = 1
    MaxRequests = 1
SPECIFICATION FairSpec
PROPERTY Settles
