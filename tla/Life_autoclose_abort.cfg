SPECIFICATION Spec
CONSTANTS
  NumLoops = 1
  Conns = {c1}
  Fds = {1}
  NoConn = NoConn
  AutoClose = TRUE
  RacyLookup = FALSE
INVARIANTS
  NoAssertionFails
CHECK_DEADLOCK FALSE
