SPECIFICATION FairSpec
CONSTANTS
  p1 = p1  p2 = p2  Peers = {p1, p2}
  Blocks <- MCBlocks  Genesis = "g"  Parent <- MCParent  Weight <- MCWeight
  LocalStart = "x"  PeerStarts <- MCStarts
  IdsCount = 5  BatchSizes <- MCBatches  RecentIds = 1
  MaxTrouble = 1
INVARIANTS OneConversation ExpectationsExact NoHonestDrop
CHECK_DEADLOCK FALSE
PROPERTIES CaughtUp
