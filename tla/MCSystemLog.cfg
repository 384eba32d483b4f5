CONSTANTS
  Capacity = 3
  FlushAt = 2
  MaxEntries = 6
  MaxFailures = 1
  MaxExits = 2
  MaxCounted = 3
  MaxBreaks = 2
  MaxRequests = 2
  MaxStream = 2
SPECIFICATION BothSpec
INVARIANTS InOrder LossExplained
PROPERTIES NoneWaitsForever PageCatchesUp
CHECK_DEADLOCK FALSE
