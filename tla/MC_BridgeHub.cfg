\* A minute of two seconds: two of them, and a turn in between.
CONSTANTS
    h1 = h1
    h2 = h2
    w1 = w1
    w2 = w2
    r1 = r1
    None = None
    Webhooks = {h1, h2}
    Workers = {w1, w2}
    Replies = {r1}
    MaxAttempts = {2}
    Messages <- MCMessages
    Configured = {"telegram"}
    Limit = 1
    MaxRetries = 2
    Minute = 2
    U32Max = 2
    DegradedAt = 2
    MaxNow = 2
    MaxCalls = 3
    MaxErrors = 1
SPECIFICATION Spec
SYMMETRY Symmetry
CHECK_DEADLOCK FALSE
INVARIANTS
    TypeOK
    RateBounded
    EventsKept
    HealthIsTrue
    SendsBounded
    DeliveredAtLeastOnce
PROPERTY OnlyExcessRefused
