SPECIFICATION Spec
CONSTANTS
  Frames <- SomeFrames
  MaxRead = 4
  MaxFragments = 2
  MaxEvents = 2
  MaxSilentTime = 1
INVARIANTS
  WaitsForFrameOnly
CHECK_DEADLOCK FALSE
