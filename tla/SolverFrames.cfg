SPECIFICATION Spec
CONSTANTS
  Name = {"x", "y"}
  Formula = {"x", "not x", "y implies x"}
  Group = {"f1", "f2"}
  NoGroup = ""
  VarsOf <- Vars
  Satisfiable <- Consistent
  MaxFrames = 3
INVARIANTS
  TypeOK
  ScriptInStep
  NoScriptError
  ModelCoversQuery
PROPERTIES
  ImplementsStack
