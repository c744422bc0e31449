\* RING_SIZE 4 and four requests: one more than the two windows together, so
\* that the client goes around its loop with both closed and the last page is
\* asked for only after the first came back.  Pages of one unit.
CONSTANTS
  RingSize = 4
  NumRequests = 4
  PageUnits = 1
  SockBuf = 3
  StartIndex = 0
  RequestUnits = 1
  Addr = {1, 2, 3, 4, 5, 6, 7, 8}
  Sizes = {"page", "req"}
  BufferSizes = {"page", "req"}
  InitialCapacity = 0
  AllocateMalloc = TRUE
SPECIFICATION Spec
CHECK_DEADLOCK FALSE
INVARIANTS
  CqNeverOverflows
  RequestsConserved
PROPERTIES
  ExchangesPages
