SPECIFICATION ManagerSpec
CONSTANTS
  PC <- FlipPC
  EntryPC = 1
  Inst <- FlipInst
  Local <- FlipLocal
  Pred <- FlipPred
  AllocCell = {}
  PointCell = {}
  About <- FlipAbout
  Split <- FlipSplit
  Derive <- FlipDerive
  Implied <- FlipImplied
  NULL = NULL
  Memory <- FlipMemory
  Sat <- FlipSat
  Step <- FlipStep
  Value <- FlipValue
  MaxVertices = 60
INVARIANT EndlessRunsRewritten
CHECK_DEADLOCK FALSE
