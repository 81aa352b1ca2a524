SPECIFICATION FairSpec
CONSTANTS
  Node = {1, 2}
  Address = {1, 2, 3}
  Rosters <- ThreeRosters
  Packets <- SomePackets
  Timeout = 1
  Stale = 2
  MaxPending = 1
  MaxSequence = 3
  MaxLink = 2
  Measuring = {1}
  Cost <- TrafficCost
  MaxSpent = 6
  Limit <- TrafficLimit
INVARIANTS TypeOK OwnTraffic NumbersTrue NothingRejected
PROPERTIES RttReturns
