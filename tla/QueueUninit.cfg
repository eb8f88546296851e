SPECIFICATION Spec
CONSTANTS
  N = 2
  T = {a, b}
  SizeT = 4
  StorageCounts <- AnyStorage
INVARIANT CountAgrees
