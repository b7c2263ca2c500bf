SPECIFICATION FairSpec
CONSTANTS
  Lcores = {"l1"}
  MaxDump = 2
  Asked = {1, 2}
  CapSize = 2
  MaxBurst = 2
  Patient = TRUE
  MaxPkts = 4
  MaxRequests = 3
INVARIANTS
  AskedAtMost
  PrintsWhole
  HeapOwned
  CaptureSaved
PROPERTIES
  DumpPrinted
CHECK_DEADLOCK FALSE
