SPECIFICATION Spec
CONSTANTS
  StaticSize = 4
  Roundup = 2
  MaxLen = 4
  MaxHeap = 2
  MaxQueue = 3
  ByteNames = 3
INVARIANTS
  TypeOK
  StatesInOrder
  BlocksApart
  HeapOwnedOnce
PROPERTIES
  WritingUntouched
  IsByteFifo
