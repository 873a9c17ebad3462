CONSTANTS
    Threads = {t1, t2, t3}
    None = None
    Requests <- SoundRequests
SPECIFICATION FairSpec
INVARIANTS
    LockOrder
    NoCircularWait
PROPERTY Answered
