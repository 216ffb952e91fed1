CONSTANTS
  w1 = w1
  w2 = w2
  Writers = {w1, w2}
  Bound = 1
  MaxSequence = 0
  Batches <- SomeBatches
  MaxRecords = 3
  MaxFaults = 2
SPECIFICATION Spec
SYMMETRY Symmetry
INVARIANTS PutSurvives
CHECK_DEADLOCK FALSE
