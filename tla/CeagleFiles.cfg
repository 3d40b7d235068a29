SPECIFICATION Spec
CONSTANTS
  Fact <- Facts
  Uses <- Calls
  Error = "error"
  Main = "main"
  Declared <- Values
  Conflict <- Contradictions
  And = "and"
  File <- AllFiles
  Options <- SomeOptions
  MaxFiles = 2
INVARIANTS
  TypeOK
  TrueIsProved
  SettingsLeak
  VerdictsAgree
  WitnessIsCurrent
PROPERTIES
  FloatsEnd
