SPECIFICATION Spec
CONSTANTS
    MaxOrders = 1
    OrderQuantity = 2
    Commitment = 2
    Notionals = {1}
    MaxChildren = 2
    MaxFills = 2
    MaxRestarts = 0
    Delivery = {"pushed"}
    SavesEveryCall = TRUE
    LosesResponses = FALSE
INVARIANTS
    ParentNotOvertraded
