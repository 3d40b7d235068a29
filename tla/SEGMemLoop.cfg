SPECIFICATION ManagerSpec
CONSTANTS
  PC <- MemPC
  EntryPC = 1
  Inst <- MemInst
  Local <- MemLocal
  Pred <- MemPred
  AllocCell = {"al"}
  PointCell = {"u", "w", "p->x"}
  About <- MemAbout
  Split <- MemSplit
  Derive <- MemDerive
  Implied <- MemImplied
  NULL = NULL
  Memory <- MemVal
  Sat <- MemMeaning
  Step <- MemStep
  MaxVertices = 60
INVARIANTS
  RunsWalked
  GeneralizationSound
  NoSpuriousNormalForm
  DeliveredJustified
CHECK_DEADLOCK FALSE
