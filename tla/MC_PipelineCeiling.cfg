SPECIFICATION Spec
CONSTANTS
    Strategies <- OneStrategy
    Unit = 1
    Budget = 20
    Ceiling <- TwoUnits
    AllowShorting = TRUE
    Prices <- OnePrice
    Intents <- Limits
    Amends <- UpAndDown
    SameEvent = FALSE
    MaxOrders = 3
INVARIANT
    NeverOvercommitted
