SPECIFICATION FairSpec
CONSTANTS
  c1 = c1  c2 = c2  s1 = s1  n1 = n1  Node = Node  Nobody = Nobody
  Async <- OneAsync  Sync <- OneSync  Notify <- NoCall
  QueMax = 2  MaxIncoming = 1
INVARIANTS NoUseAfterDestroy CallbackOnce AnswerMatches PacketsWhole
CHECK_DEADLOCK FALSE
PROPERTIES CallsEnd CloseEffective
