SPECIFICATION CSpec
CONSTANTS
  kBuses = 3
  kDevs = 2
  kFuncs = 3
  MaxCommands = 2
  Configs <- SmallConfigs
  kWords = 4
  Pointers <- SomePointers
  Targets <- Typed
  Contents <- SmallContents
INVARIANTS TypeOK StackBounded ReportedOnce ScanComplete FindsReachable CapsShown
PROPERTIES SearchEnds
CHECK_DEADLOCK FALSE
