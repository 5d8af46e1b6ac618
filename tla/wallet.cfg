SPECIFICATION Spec
CONSTANTS
  Blocks <- MCBlocks  Genesis = "g"  Parent <- MCParent  Weight <- MCWeight
  Txs <- MCTxs  TxsOf <- MCTxsOf  Coinbase = {"k"}  Own = {"s"}  Ins <- MCIns  Outs <- MCOuts
  SpendableAge = 1  RecentIds = 2  HistoryIds = 1  Step = 2  BatchSizes <- MCBatches
  ConciseDepth = 2  MaxTrouble = 1
INVARIANTS ChainExact TransfersExact MarkExplained Reserved SelectionValid
