SPECIFICATION Spec
CONSTANTS
    Strategies <- TwoStrategies
    Unit = 1
    Budget = 4
    Ceiling <- LooseAndTight
    AllowShorting = TRUE
    Prices <- TwoPrices
    Intents <- Mixed
    Amends = {2}
    SameEvent = TRUE
    MaxOrders = 2
INVARIANTS
    PipelineInv
    StrategiesExplainPosition
PROPERTY
    AmendAllOrNothing
