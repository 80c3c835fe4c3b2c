SPECIFICATION ConnSpec
CONSTANTS
  StaticSize = 4
  Roundup = 2
  MaxLen = 5
  MaxBytes = 40
  MaxBuff = 100
  Requests <- AllRequests
  MaxRequests = 2
  WriteBuffSize = 3
  GzipHeader = 2
  GzipFooter = 2
  Responses <- AllResponses
CHECK_DEADLOCK FALSE
INVARIANTS
  HeadersStayValid
