SPECIFICATION Spec
CONSTANTS
    k1 = k1
    k2 = k2
    c1 = c1
    c2 = c2
    Keys <- MCKeys
    Callers <- MCCallers
    TTL = 2
    MaxTime = 5
    MaxClears = 2
    MaxBroken = 1
SYMMETRY Symmetry
INVARIANTS
    ClearForgets
PROPERTIES
    StaleOnlyIfAsked
