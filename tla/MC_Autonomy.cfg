\* U64Max is far above every delay but the largest ones, so that both the
\* exact and the saturated results occur; two minutes and a bit of clock.
CONSTANTS
    U64Max = 65535
    MaxNow = 150
    Periods <- MCPeriods
    Bases = {1, 2, 5}
    MaxJitter = 4
SPECIFICATION Spec
INVARIANTS
    NextRunIsFirstNamedInstant
    BackoffGrows
CHECK_DEADLOCK FALSE
