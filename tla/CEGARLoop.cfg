SPECIFICATION Spec
CONSTANTS
  Loc <- LoopLoc
  Entry = "E"
  Target = {"ERROR"}
  Succ <- LoopSucc
  PhiLoc = {"H"}
  NoLoc = "none"
  Val <- LoopVal
  Step <- LoopStep
  Pred <- LoopPred
  Sound = TRUE
  MayFail = FALSE
  MaxNodes = 30
  RunLength = 8
INVARIANTS
  TypeOK
  SafeIsInductive
  RefinementExcludesPath
PROPERTIES
  EventuallyDecided
CHECK_DEADLOCK FALSE
