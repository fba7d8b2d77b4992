SPECIFICATION DownSpec
CONSTANTS
  DownSize = {0, 1, 3, 4}
  DownChunk = 2
  DownNumber = {0, 1, 2, 3, 4, 9}
  DownHuge = 9
INVARIANTS RangeExact
CHECK_DEADLOCK FALSE
