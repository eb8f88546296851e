SPECIFICATION ExecSpec
CONSTANTS
  Letter = {"a", "b"}
  MaxLen = 6
INVARIANTS WritesInside ArgcBounded ArgumentsAreWords
PROPERTY Terminates
CHECK_DEADLOCK FALSE
