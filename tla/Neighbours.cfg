SPECIFICATION Spec
CONSTANTS
  TunnelGen = FALSE
  Ports = {"a", "b", "c"}
  Txq = {1}
  Slots <- MCSlots
  RangeDst <- MCRangeDst
  Modes <- MCModes
  NewDst = {"b1", "c1"}
  Askers = {"a"}
  RingSize = 4
  MaxAsk = 2
  MaxLoss = 1
PROPERTIES
  LearnsFromOwner
  Resolves
  EchoComesBack
  FallsSilent
CHECK_DEADLOCK FALSE
