\* Size 0 is raised to MinSize, the smallest.
CONSTANTS
    c1 = c1
    c2 = c2
    note = note
    short = short
    long = long
    m1 = m1
    m2 = m2
    None = None
    Clients = {c1, c2}
    Names = {note}
    Texts = {short, long}
    Length <- MCLength
    CharOf <- MCCharOf
    Models = {m1, m2}
    Sizes = {0, 4}
    MinSize = 2
    Ttls = {0, 1}
    MaxNow = 1
    MaxIngests = 3
    MaxFaults = 1
SPECIFICATION Spec
SYMMETRY Symmetry
INVARIANTS
    TypeOK
    CitationsCurrent
    AnsweredWhole
    BeginningsOnly
