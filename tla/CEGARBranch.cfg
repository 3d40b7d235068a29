SPECIFICATION Spec
CONSTANTS
  Loc <- BranchLoc
  Entry = "E"
  Target = {"ERROR"}
  Succ <- BranchSucc
  PhiLoc = {}
  NoLoc = "none"
  Val <- BranchVal
  Step <- BranchStep
  Pred <- BranchPred
  Sound = TRUE
  MayFail = TRUE
  MaxNodes = 20
  RunLength = 8
INVARIANTS
  UnsafeIsReal
  SafeIsSafe
CHECK_DEADLOCK FALSE
