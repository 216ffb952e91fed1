SPECIFICATION Spec
CONSTANTS
    MaxOrders = 2
    OrderQuantity = 2
    Commitment = 2
    Notionals = {1}
    MaxChildren = 1
    MaxFills = 3
    MaxRestarts = 1
    Delivery = {"pushed", "polled"}
    SavesEveryCall = TRUE
    LosesResponses = FALSE
INVARIANTS
    SessionInv
    LedgersAgree
    HeldNeverSentWhole
    SettledIsAccounted
