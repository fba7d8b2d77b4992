SPECIFICATION FairSpec
CONSTANTS
  Requests <- Single
  MaxRequests = 1
  Size <- Large
  Chunk = 2
  SockCap = 3
  Resets = FALSE
INVARIANTS
  FirstInv
PROPERTIES
  EventuallyAnswered
CHECK_DEADLOCK FALSE
