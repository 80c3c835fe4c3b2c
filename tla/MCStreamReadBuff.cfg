SPECIFICATION Spec
CONSTANTS
  StaticSize = 3
  Roundup = 2
  MaxLen = 4
  MaxBytes = 6
  MaxBuff = 9
INVARIANTS
  TypeOK
  PositionsInBuffer
  WindowIsStream
  RoomForRequest
PROPERTIES
  ParserNeverRewinds
  RequestKeepsPlace
CHECK_DEADLOCK FALSE
