SPECIFICATION FairSpec
CONSTANTS
    MaxOrders = 1
    OrderQuantity = 2
    Commitment = 2
    Notionals = {1, 2}
    MaxChildren = 1
    MaxFills = 2
    MaxRestarts = 1
    Delivery = {"pushed"}
    SavesEveryCall = FALSE
    LosesResponses = TRUE
INVARIANTS
    RefusedOnlyIfClosedFirst
    LedgersAgree
    ReservedIsUnspent
    HandlesAgree
PROPERTIES
    FillsAreSettled
CONSTRAINT ChildrenIdle
