\* RING_SIZE 4 and three requests: the client's loop has to wait for a page to
\* come back before it is through.  The server process may end at any time.
CONSTANTS
  RingSize = 4
  NumRequests = 3
  PageUnits = 1
  SockBuf = 1
  StartIndex = 0
  RequestUnits = 1
  Addr = {1, 2, 3, 4, 5, 6, 7, 8}
  Sizes = {"page", "req"}
  BufferSizes = {"page", "req"}
  InitialCapacity = 0
  AllocateMalloc = TRUE
SPECIFICATION MortalSpec
CHECK_DEADLOCK FALSE
PROPERTIES
  ClientEnds
  BothEnd
