CONSTANTS
    Threads = {t1, t2}
    None = None
    Requests <- RepliesAndStatus
SPECIFICATION FairSpec
PROPERTY Answered
CHECK_DEADLOCK FALSE
