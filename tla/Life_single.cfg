SPECIFICATION FairSpec
CONSTANTS
  NumLoops = 0
  Conns = {c1, c2, c3}
  Fds = {1}
  NoConn = NoConn
  AutoClose = TRUE
  RacyLookup = FALSE
INVARIANTS
  Inv
PROPERTIES
  EventuallyReleased
CHECK_DEADLOCK FALSE
