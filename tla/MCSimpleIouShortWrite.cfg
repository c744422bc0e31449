\* Three units of socket buffer hold one page of two units and half a page.
CONSTANTS
  RingSize = 4
  NumRequests = 4
  PageUnits = 2
  SockBuf = 3
  StartIndex = 0
  RequestUnits = 1
  Addr = {1, 2, 3, 4, 5, 6, 7, 8}
  Sizes = {"page", "req"}
  BufferSizes = {"page", "req"}
  InitialCapacity = 0
  AllocateMalloc = TRUE
SPECIFICATION Spec
CHECK_DEADLOCK FALSE
INVARIANTS
  WritesComplete
