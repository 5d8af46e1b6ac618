SPECIFICATION FairSpec
CONSTANTS
  t1 = t1
  t2 = t2
  t3 = t3
  Threads <- ThreeThreads
  Upgraders <- OneUpgrader
  MaxDepth = 3
INVARIANTS
  TypeOK
  MutualExclusion
  NoLostWakeup
PROPERTY
  WriterGetsIn
