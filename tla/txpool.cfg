SPECIFICATION Spec
CONSTANTS
  t1 = t1  t2 = t2  t3 = t3  k1 = k1  k2 = k2  k3 = k3  a1 = a1  a2 = a2  b1 = b1  b2 = b2  c2 = c2
  None = None  Genesis = Genesis
  Tx <- Txs  Ki <- Kis  KiOf <- MCKiOf  Ref <- MCRef
  Block <- Tree  Parent <- MCParent  TxOf <- MCTxOf  HeightOf <- MCHeight
  Depth = 1  MinCoinage = 1  MaxPool = 1  MaxBusy = 1
  Carried <- OnlyT2  Faults = TRUE
INVARIANTS IndexSound StuckNotAlt NoKnownTxAdmitted TemplateValid
