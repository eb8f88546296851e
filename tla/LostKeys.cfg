SPECIFICATION Spec
CONSTANTS
  N = 2
  T = {2, 30}
  SizeT = 4
  StorageCounts <- StaticStorage
  keytable_normal <- NormalTable
  keytable_shifted <- ShiftedTable
  UIntMod = 4
INVARIANT LostKeysCounted
