SPECIFICATION FairSpec
CONSTANTS
  Node = {a, b}
  Capacity = 1
  MaxMsgs = 2
  MaxCalls = 3
INVARIANTS
  AtMostOnce
  LossNeedsFault
  InOrder

  
  
CHECK_DEADLOCK FALSE
