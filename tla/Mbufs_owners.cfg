SPECIFICATION FairSpec
CONSTANTS
  RxBufs = {r1, r2}
  TxBufs = {t1, t2}
  SpecialBufs = {s1, s2}
  Bursts = {1, 2}
  TableSize = 2
  SeqCnt = 0
  Forever = FALSE
  Roles = {"IL_TRAFFIC_GEN", "IL_TRAFFIC_RESP_AS_REF"}
  Split = FALSE
  NoBuf = NoBuf
  MaxCmds = 2
  MaxReuses = 1
INVARIANTS
  SoleOwner
  OnlyRequestsLeak
PROPERTIES
  QueueEmpties
