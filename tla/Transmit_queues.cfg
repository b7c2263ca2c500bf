SPECIFICATION Spec
CONSTANTS
  NQ = 2
  TxBurst = 2
  Counts = {3}
  PrimeCnt = 1
  Handlers <- Usr
  TestDuration = 0
  Modes = {}
  Options = {}
  MaxCmds = 3
  MaxCfg = 1
INVARIANTS
  TypeOK
  BudgetConserved
  StopBound
  SetupExclusive
PROPERTIES
  ImplementsBudget
