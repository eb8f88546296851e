SPECIFICATION Spec
CONSTANTS
  N = 2
  T = {30, 42, 182}
  SizeT = 4
  StorageCounts <- StaticStorage
  keytable_normal <- NormalTable
  keytable_shifted <- ShiftedTable
  UIntMod = 2
INVARIANTS TypeOK MutualExclusion LoopNeverSpins ShiftAtStroke
PROPERTIES LossExcused IsKeyChannel HandlerReturns QueuedIsDecoded
