SPECIFICATION TreeSpec
CONSTANTS
  NbNodes = 12
  MaxBins = 3
  SbinCmds <- MCSbin
  BinCmds <- MCBin
  Aliases <- MCAliases
  Lines <- MCLines
  Careful = TRUE
  MaxDepth = 2
INVARIANTS
  TreeSound
  CompletedRuns
PROPERTIES
  ImplementsShell
CHECK_DEADLOCK FALSE
VIEW MCView
