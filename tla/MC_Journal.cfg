\* With PerSecond = 1 the page orders requests as they were made.
CONSTANTS
    t1 = t1
    t2 = t2
    o1 = o1
    delete = delete
    send = send
    read = read
    task1 = task1
    task2 = task2
    None = None
    Threads = {t1, t2}
    Operators = {o1}
    Actions = {delete, send, read}
    Sensitive = {delete, send}
    Tasks = {task1, task2}
    Capacity = 2
    PageSize = 1
    PerSecond = 1
    MaxMillis = 1
    MaxRequests = 3
    MaxFaults = 1
SPECIFICATION Spec
SYMMETRY Symmetry
INVARIANTS
    TypeOK
    EntriesKept
    BufferIsAudited
    DecidedAsShown
PROPERTIES
    NeverReopened
