SPECIFICATION Spec
CONSTANTS
  N = 4
  T = {a, b}
  SizeT = 8
  StorageCounts <- StaticStorage
INVARIANTS TypeOK ContentsAgree
PROPERTY IsFifo
