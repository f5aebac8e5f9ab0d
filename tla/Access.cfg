CONSTANTS
    p1 = p1
    p2 = p2
    g1 = g1
    g2 = g2
    None = None
    Publishers = {p1, p2}
    Generations = {g1, g2}
    MaxEpochs = 2
    MaxStarts = 2
    MaxUpgrades = 0
    MaxSessions = 2
SPECIFICATION Spec
INVARIANTS
    TypeOK
    PointerWhole
    VerdictHeld
SYMMETRY Symmetry
CHECK_DEADLOCK FALSE
