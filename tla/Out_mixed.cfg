SPECIFICATION Spec
CONSTANTS
  Requests <- Mixed
  MaxRequests = 2
  Size <- Small
  Chunk = 1
  SockCap = 1
  Resets = FALSE
INVARIANTS
  ReceivedInOrder
CHECK_DEADLOCK FALSE
