SPECIFICATION PartsSpec
CONSTANTS
  Streams <- Mixture
  Threshold = 2
  MaxLine = 2
  MaxHead = 18
  BufByte = {0, 1}
  BufZero = 0
  BufPrepend = 2
  BufInitial = 4
  BufMax = 4
  TrieRoutes <- MCRoutes
  TrieMethods = {"GET", "POST"}
  TrieSegments = {"a", "b"}
  TriePath = 3
  TrieMax = 2
  DownSize = {0, 1, 3, 4}
  DownChunk = 2
  DownNumber = {0, 1, 2, 3, 4, 9}
  DownHuge = 9
  QueryChars = {97, 38, 61, 63, 32, 37}
  QueryParams = 2
  QueryLen = 1
INVARIANTS RequestsExact RejectedOnlyIfBad BufferExact TrieFinds DownloadExact QueryExact
PROPERTIES EventuallyServed
CHECK_DEADLOCK FALSE
