SPECIFICATION Spec
CONSTANTS
  NumLoops = 2
  Conns = {c1, c2}
  Fds = {1, 2}
  NoConn = NoConn
  AutoClose = FALSE
  RacyLookup = TRUE
SYMMETRY ConnSymmetry
INVARIANTS
  Inv
  NoDanglingEvents
  NoAssertionFails
  MapIsFaithful
PROPERTIES
  EraseOnlyClosed
  ImplementsServiceSafety
CHECK_DEADLOCK FALSE
