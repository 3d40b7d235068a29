SPECIFICATION Spec
CONSTANTS
  Loc <- JoinLoc
  Entry = "E"
  Target = {"ERROR"}
  AssumeFail = {"FAIL"}
  InlineLimit = {"CALL"}
  Succ <- JoinSucc
  Satisfiable <- JoinSatisfiable
  LoopUnrollDepth = 3
  MayFail = TRUE
  Guess = {"UNSAFE"}
INVARIANTS
  TypeOK
  SafeIsSearched
CHECK_DEADLOCK FALSE
