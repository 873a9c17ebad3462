CONSTANTS
    a1 = a1
    a2 = a2
    a3 = a3
    None = None
    Agents = {a1, a2, a3}
    Costs = {1, 3}
    Limit = 4
    Threshold = 2
    MaxTotal = 6
    Unannounced = {0, 1, 5}
    Faults = {"crash", "error"}
    MaxFaults = 2
SPECIFICATION Spec
SYMMETRY AgentSymmetry
INVARIANTS
    RevokedExactlyOverLimit
    OvershootBounded
    SavedIsCurrent
