SPECIFICATION FairSpec
CONSTANTS
  a1 = a1  a2 = a2  a3 = a3  b1 = b1  b2 = b2  b3 = b3  c2 = c2  c3 = c3  d2 = d2  e1 = e1  g = g
  t1 = t1  t2 = t2  t3 = t3  t4 = t4  t5 = t5  k1 = k1  k2 = k2  k3 = k3  k4 = k4
  Block <- AllBlocks  Genesis <- g  Parent <- MCParent  Branch <- MCBranch
  Tx <- Txs  Ki <- Kis  TxsOf <- MCTxsOf  KiTx <- MCKiTx  Stake <- MCStake
  CumDiff <- MCDiff  Proof <- MCProof  Timestamp <- MCStamp
  BadCoinbase <- NoBlock  BadWork <- OnlyD2  BadReward <- OnlyB3  BadSize <- OnlyA3  BadProof <- OnlyT4  BadInputs <- OnlyT5
  CpHeight = 0  CpBlock <- g
  MaxAlt = 10  AltLifetime = 10
  Onboard = {"bare", "full"}
  Clock = {5}  Faults = {}  TruncateTo = {}
INVARIANTS BestChain NoRecursiveReorganize SwitchHasTxs RollbackRestores
PROPERTIES NoTxLost CallEnds
