SPECIFICATION FairSpec
CONSTANTS
  Node = {1, 2}
  MaxLink = 3
  MaxBatch = 2
  Torn = {1}
  Limit <- FarewellLimit

CHECK_DEADLOCK FALSE
PROPERTIES FarewellHeard
