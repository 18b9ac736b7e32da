CONSTANTS
  MaxRequests = 1
  TidMod = 3
  WriteCapacity = 1
SPECIFICATION SessionSpec
INVARIANT ConclusionFindsItsRequest
CHECK_DEADLOCK FALSE
