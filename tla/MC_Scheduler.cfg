\* FallbackDelay is far below 60 so that a job without an instant runs again
\* within the bound of the clock.
CONSTANTS
    j1 = j1
    j2 = j2
    w1 = w1
    c1 = c1
    None = None
    Jobs = {j1, j2}
    Triggers <- MCTriggers
    PoolTickers = {w1}
    OtherTickers = {c1}
    FallbackDelay = 2
    U64Max = 255
    MaxNow = 4
    MaxLag = 1
    MaxRegistrations = 2
    Faults = {"crash", "error"}
    MaxFaults = 1
SPECIFICATION FairSpec
INVARIANT TypeOK
PROPERTIES
    Spaced
    FreshTaskIds
    AtLeastOnce
    DueJobsRun
