SPECIFICATION Spec
CONSTANTS
  RxBufs = {r1}
  TxBufs = {t1, t2}
  SpecialBufs = {s1}
  Bursts = {2}
  TableSize = 2
  SeqCnt = 0
  Forever = FALSE
  Roles = {"IL_TRAFFIC_GEN"}
  Split = TRUE
  NoBuf = NoBuf
  MaxCmds = 1
  MaxReuses = 1
INVARIANTS
  ReusedNotFreed
