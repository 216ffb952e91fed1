SPECIFICATION SnapshotSpec
CONSTANTS
    Orders = {o1}
    AccountKeys = {"position"}
    MaxQuantity = 2
    MaxAttempts = 1
    MaxRevisions = 1
    MaxClock = 4
    MaxSessions = 2
    Redelivered <- NothingAgain
    Unnumbered = FALSE
    LosesRequests = FALSE
    MaxAge = 2
INVARIANTS FillDivergenceIsMissedFill ReconciledIsTrue
CONSTRAINT OneSubject
CHECK_DEADLOCK FALSE
