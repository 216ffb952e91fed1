CONSTANTS
  Jobs = {"tagged", "late", "low"}
  Workers = {1, 2}
  Priority <- PriorityOf
  Created <- CreatedAt
  Requires <- Needs
  Offers <- Has
  Capacity <- Room2
  Clocks = {2}
  Rates = {0, 2}
  MaxPops = 1
SPECIFICATION FairSpec
INVARIANTS ClusterInv WorkersAgree OrderedUnlessAged
PROPERTY MatchedIsServed
