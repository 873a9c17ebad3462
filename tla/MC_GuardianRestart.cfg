CONSTANTS
    a1 = a1
    a2 = a2
    a3 = a3
    None = None
    Agents = {a1, a2}
    Costs = {1, 3}
    Limit = 4
    Threshold = 2
    MaxTotal = 6
    Unannounced = {5}
    Faults = {"crash"}
    MaxFaults = 1
SPECIFICATION Spec
SYMMETRY AgentSymmetry
INVARIANT RevokedUntilReset
