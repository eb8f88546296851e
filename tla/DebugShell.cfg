SPECIFICATION Spec
CONSTANTS
  Width = 3
  Height = 3
  kLineLength = 6
  Char = {"a", "_"}
  Outputs <- SomeOutputs
INVARIANTS TypeOK OneCursor NoOverstrike LineShown
PROPERTY IsEditor
