SPECIFICATION StatsFairSpec
CONSTANTS
  Overlap = FALSE
  SockBuf = 2
  Word = 16
  MaxPkts <- MCPkts
  MaxLost = 1
INVARIANTS
  
  LossBounds

  
  
CHECK_DEADLOCK FALSE
