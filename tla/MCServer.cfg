SPECIFICATION Spec
CONSTANTS
  Conns = {c1, c2, c3}
  None = None
  MaxSilentTime = 1
  MaxAccepts = 2
  MaxResponses = 1
INVARIANTS
  TypeOK
  OneOwner
  ResponsesAccounted
PROPERTIES
  DeletedWhenQuiet
  SilentIsDeleted
  UpgradeIsListed
CHECK_DEADLOCK FALSE
