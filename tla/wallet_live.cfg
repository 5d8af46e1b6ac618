SPECIFICATION FairSpec
CONSTANTS
  Blocks <- LongBlocks  Genesis = "g"  Parent <- LongParent  Weight <- LongWeight
  Txs <- LongTxs  TxsOf <- LongTxsOf  Coinbase = {}  Own = {}  Ins <- MCIns  Outs <- MCOuts
  SpendableAge = 1  RecentIds = 2  HistoryIds = 1  Step = 2  BatchSizes <- LongBatches
  ConciseDepth = 3  MaxTrouble = 1
PROPERTIES CatchesUp
