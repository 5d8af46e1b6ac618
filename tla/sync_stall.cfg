SPECIFICATION Spec
CONSTANTS
  p1 = p1  p2 = p2  Peers = {p1, p2}
  Blocks <- ForkBlocks  Genesis = "g"  Parent <- ForkParent  Weight <- ForkWeight
  LocalStart = "g"  PeerStarts <- ForkStarts
  IdsCount = 5  BatchSizes <- ForkBatches  RecentIds = 1
  MaxTrouble = 1
INVARIANTS FinalCondition
CHECK_DEADLOCK FALSE
