SPECIFICATION Spec
CONSTANTS
  kWordBits = 5
  kBars = 3
  Layouts <- AllLayouts
INVARIANTS BarsKept SizeRight
