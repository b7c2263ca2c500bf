SPECIFICATION Spec
CONSTANTS
  SeqSlots = 2
  Link = 7056
  Hz = 1008
  TxQueues = 1
  PcapSize = 120
  TapOpens = TRUE
  SrcMac = 1
  PeerMac = 2
  LeastRate = 168
  MaxInput = 2
  Lines <- MCLines
  Calls <- MCCalls
INVARIANTS
  Sendable
  Restored
  
  
CHECK_DEADLOCK FALSE
