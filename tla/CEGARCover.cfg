SPECIFICATION Spec
CONSTANTS
  Loc <- BranchLoc
  Entry = "E"
  Target = {"ERROR"}
  Succ <- BranchSucc
  PhiLoc = {}
  NoLoc = "none"
  Val <- BranchVal
  Step <- BranchStep
  Pred <- BranchPred
  Sound = FALSE
  MayFail = FALSE
  MaxNodes = 20
  RunLength = 8
INVARIANTS
  LeftOutForWeaker
CHECK_DEADLOCK FALSE
