SPECIFICATION Spec
CONSTANTS
  Names = {"a", "b"}
  Data <- SomeData
  Queries <- SomeQueries
  MaxParts = 2
  MaxRequests = 2
  MaxUploadSize = 3
  MaxTotalUploadSize = 4
  Unlimited = 100
INVARIANTS
  UploadLimited
CHECK_DEADLOCK FALSE
