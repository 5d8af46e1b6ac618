SPECIFICATION Spec
CONSTANTS
  a1 = a1  a2 = a2  a3 = a3  b1 = b1  b2 = b2  b3 = b3  c2 = c2  c3 = c3  d2 = d2  e1 = e1  g = g
  t1 = t1  t2 = t2  t3 = t3  t4 = t4  t5 = t5  k1 = k1  k2 = k2  k3 = k3  k4 = k4
  Block <- ThreeForks  Genesis <- g  Parent <- MCParent  Branch <- MCBranch
  Tx <- Txs  Ki <- Kis  TxsOf <- MCTxsOf  KiTx <- MCKiTx  Stake <- MCStake
  CumDiff <- MCDiff  Proof <- MCProof  Timestamp <- MCStamp
  BadCoinbase <- NoBlock  BadWork <- NoBlock  BadReward <- NoBlock  BadSize <- NoBlock  BadProof <- OnlyT4  BadInputs <- OnlyT5
  CpHeight = 0  CpBlock <- g
  MaxAlt = 2  AltLifetime = 2
  Onboard = {"bare", "full"}
  Clock = {5}  Faults = {"throw", "crash"}  TruncateTo = {0, 1}
INVARIANTS SpentExact NoDoubleSpend AltBranchSpendsOnce
PROPERTIES AltTxsExact LedgerSpec
