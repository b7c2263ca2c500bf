SPECIFICATION FairSpec
CONSTANTS
  NQ = 1
  TxBurst = 2
  Counts = {3}
  PrimeCnt = 1
  Handlers <- Alrm
  TestDuration = 30
  Modes <- RangePcap
  Options <- Random
  MaxCmds = 3
  MaxCfg = 2
INVARIANTS
  RebuiltForStart
PROPERTIES
  FiniteRunEnds
  TestDurationEnds
