SPECIFICATION Spec
CONSTANTS
    Keys = {k1, k2}
    Values = {x, y}
    MISSING = MISSING
    RebaseFactor = 1
    RebaseSlack = 2
    MaxMaps = 6
SYMMETRY Symmetry
INVARIANTS
    StoreInv
    EntriesBounded
PROPERTIES
    ReadsNeverChange
    Immutable
CHECK_DEADLOCK FALSE
