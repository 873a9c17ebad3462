CONSTANTS
    a = a
    s = s
    w1 = w1
    w2 = w2
    None = None
    ClientIds = {a}
    ScheduledIds = {s}
    OrderlyIds = {a, s}
    PoolWorkers = {w1, w2}
    TickCallers = {}
    Kinds = {"reply"}
    MaxAttempts = {1, 2}
    BaseDelay = 1
    JitterSeconds = 1
    MaxLag = 1
    U64Max = 7
    MaxNow = 3
    Faults = {"crash", "error"}
    MaxFaults = 2
    MaxRequests = 3
SPECIFICATION Spec
SYMMETRY PoolSymmetry
INVARIANTS
    TypeOK
    Exclusive
    OnePlace
    AttemptsEnforced
    FaultsCost
