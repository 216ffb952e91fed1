SPECIFICATION Spec
CONSTANTS
  Environments = {"paper", "live"}
  Actors = {"lead", "desk"}
  Permitted <- Grants
  Gated = {"live"}
  Evidence = {"first", "second", "failed"}
  About <- Subject
  Passes <- Accepted
  MaxModels = 2
  MaxStrategies = 2
  MaxLine = 3
  MaxRecords = 3
  MaxApprovals = 2
INVARIANTS
  RegistryInv
  LiveIsProduction
  GatedIsApproved
  RunningIsEvidenced
CONSTRAINT Representative
CHECK_DEADLOCK FALSE
