SPECIFICATION Spec
CONSTANTS
  Loc <- NestedLoc
  Entry = "E"
  Target = {"ERROR"}
  AssumeFail = {}
  InlineLimit = {}
  Succ <- NestedSucc
  Satisfiable <- NestedSatisfiable
  LoopUnrollDepth = 3
  MayFail = TRUE
  Guess = {"SAFE"}
INVARIANTS
  CountersFollowPath
  UnrollingBounded
  UnsafeIsReal
PROPERTIES
  EventuallyDone
CHECK_DEADLOCK FALSE
