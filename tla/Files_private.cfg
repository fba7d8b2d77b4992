CONSTANTS
  l1 = l1
  l2 = l2
  u1 = u1
  u2 = u2
  s1 = s1
  s2 = s2
  None = None
  Loops = {l1, l2}
  Users = {u1, u2}
  Sessions = {s1, s2}
  Threshold = 3
  MaxFiles = 1
  MaxShares = 1
  Mixes <- MixesPrivate
SPECIFICATION Spec
SYMMETRY Alike
PROPERTIES PrivateRemovesShares
CHECK_DEADLOCK FALSE
