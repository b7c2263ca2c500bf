SPECIFICATION FairSpec
CONSTANTS
  Lcores = {1, 2, 3, 4}
  Ports = {0, 1}
  RxPorts <- MCRxPorts
  TxPorts <- MCTxPorts
  Late = {3}
  MaxSig = 1
  MaxQueued = 2
  NbLids = 5
  NbPids = 2
  Matrix <- MCMatrix
  Matrices <- MCMatrices
INVARIANTS
  QuiescedBeforeClose
  
  EachQueueServed
PROPERTIES
  QuitExits
CHECK_DEADLOCK FALSE
