SPECIFICATION Spec
CONSTANTS
  Fact <- Facts
  Uses <- Calls
  Error = "error"
  Main = "main"
  Declared <- Values
  Conflict <- Contradictions
  And = "and"
  File <- Drivers
  Options <- SomeOptions
  MaxFiles = 1
INVARIANTS
  FormulaEncodesVC
