\* RING_SIZE 4: a send window of one and a receive window of two.  Three
\* requests go around the loop with both windows closed at least once.
CONSTANTS
  RingSize = 4
  StartIndex = 0
  NumRequests = 3
  RequestUnits = 1
  PageUnits = 2
  SockBuf = 2
  Addr = {1, 2, 3, 4, 5, 6}
  Sizes = {"page", "req"}
  BufferSizes = {"page", "req"}
  InitialCapacity = 1
  AllocateMalloc = FALSE
SPECIFICATION ClientSpec
CHECK_DEADLOCK FALSE
INVARIANTS
  ClientTypeOK
  SqeAvailable
  PagesRequestedOnce
PROPERTIES
  BuffersStable
  UsesPool
