SPECIFICATION Spec
CONSTANTS
  a1 = a1  a2 = a2  a3 = a3  b1 = b1  b2 = b2  b3 = b3  c2 = c2  c3 = c3  d2 = d2  e1 = e1  g = g
  t1 = t1  t2 = t2  t3 = t3  t4 = t4  t5 = t5  k1 = k1  k2 = k2  k3 = k3  k4 = k4
  Block <- AllBlocks  Genesis <- g  Parent <- MCParent  Branch <- MCBranch
  Tx <- Txs  Ki <- Kis  TxsOf <- MCTxsOf  KiTx <- MCKiTx  Stake <- MCStake
  CumDiff <- HeavyB1  Proof <- MCProof  Timestamp <- MCStamp
  BadCoinbase <- NoBlock  BadWork <- NoBlock  BadReward <- NoBlock  BadSize <- NoBlock  BadProof <- NoBlock  BadInputs <- OnlyT5
  CpHeight = 3  CpBlock <- a3
  MaxAlt = 10  AltLifetime = 10
  Onboard = {"bare"}
  Clock = {2, 5}  Faults = {}  TruncateTo = {}
INVARIANT PoolDisjointMain
PROPERTY CheckpointFinal
