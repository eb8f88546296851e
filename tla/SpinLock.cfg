SPECIFICATION Spec
CONSTANTS
  Threads = {t1, t2, t3}
  kMaxCount = 2
INVARIANTS TypeOK MutualExclusion ClearPublishes
PROPERTIES IsAtomicCounter Termination
CHECK_DEADLOCK FALSE
