SPECIFICATION FairSpec
CONSTANTS
  Requests <- Pipelined
  MaxRequests = 3
  Size <- Small
  Chunk = 2
  SockCap = 2
  Resets = TRUE
INVARIANTS
  OutputInv
  AnswersExact
PROPERTIES
  ImplementsStreamSafety
  HalfCloseOnlyWhenDone
  EventuallyAnswered
CHECK_DEADLOCK FALSE
