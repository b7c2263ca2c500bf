SPECIFICATION FlowsSpec
CONSTANTS
  Queues = {1, 2}
  DefaultIp = 12
  Word = 16
  Tests <- MCTests
  PoolSize = 3
  MaxCount = 1
INVARIANTS
  InBounds
  FlowsAddUp
  
CHECK_DEADLOCK FALSE
