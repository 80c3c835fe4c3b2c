SPECIFICATION Spec
CONSTANTS
  Frames <- AllFrames
  MaxRead = 3
  MaxFragments = 2
  MaxEvents = 3
  MaxSilentTime = 1
INVARIANTS
  TypeOK
  ToldOnceInTime
  OneWriteAtATime
  MessagesAssembled
PROPERTIES
  DeletedWhenSafe
  TimedOutIsDeleted
CHECK_DEADLOCK FALSE
