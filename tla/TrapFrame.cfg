SPECIFICATION Spec
CONSTANTS
  Word = {0, 1, 2}
  Addr = {"flag_"}
INVARIANT CompareExchangeContract
CHECK_DEADLOCK FALSE
