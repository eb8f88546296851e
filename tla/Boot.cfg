SPECIFICATION BSpec
CONSTANTS
  Event <- Events
  NoEvent = NoEvent
  erst_size = 2
  SegmentSize <- Sizes
  MaxSlotsEnabled = 2
  PortChange <- Port
  kRingSize = 2
  MaxCalls = 2
INVARIANTS HandlerReady
PROPERTIES OwnCompletion KeyboardComesUp CodeIsRead
CHECK_DEADLOCK FALSE
