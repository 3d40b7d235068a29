SPECIFICATION ManagerSpec
CONSTANTS
  PC <- NestedPC
  EntryPC = 1
  Inst <- NestedInst
  Local <- NestedLocal
  Pred <- NestedPred
  AllocCell = {}
  PointCell = {}
  About <- NestedAbout
  Split <- NestedSplit
  Derive <- NestedDerive
  Implied <- NestedImplied
  NULL = NULL
  Memory <- NestedVal
  Sat <- NestedSat
  Step <- NestedStep
  MaxVertices = 60
INVARIANTS
  ManagerTypeOK
  RunsWalked
  PathIsChain
  Structure
  DeliveredJustified
  SilentStepsEnd
PROPERTIES
  MergeWeakens
  EventuallyDelivered
CHECK_DEADLOCK FALSE
