SPECIFICATION Spec
CONSTANTS
    OrderIds = {o1, o2}
    Assets = {a1, a2}
    OrderTypes = {"market", "stop_limit"}
    MaxQuantity = 2
    MaxHistory = 5
SYMMETRY Symmetry
INVARIANTS
    TypeOK
    BookInv
    RestoreIsExact
    HistoryExplainsBook
PROPERTY
    TerminalIsFinal
