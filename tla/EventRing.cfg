SPECIFICATION Spec
CONSTANTS
  Event = {e1, e2}
  NoEvent = NoEvent
  erst_size = 3
  SegmentSize <- Sizes
INVARIANTS TypeOK FrontIsOldest
