SPECIFICATION FairSpec
CONSTANTS
    Orders = {o1}
    AccountKeys = {"position", "account"}
    MaxQuantity = 2
    MaxAttempts = 2
    MaxRevisions = 2
    MaxClock = 4
    MaxSessions = 2
    Redelivered <- AllButCancelRefusals
    Unnumbered = TRUE
    LosesRequests = TRUE
INVARIANTS
    MirrorInv
    FillsCountedOnce
    Converges
    CancelRemembered
PROPERTIES
    TerminalAbsorbs
    CancelResolves
CONSTRAINT OneSubject
CHECK_DEADLOCK FALSE
