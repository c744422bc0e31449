\* RING_SIZE 8: two reads outstanding, so that requests and answers overtake
\* each other.  Words and pages of two units, and room for less than two pages
\* in the socket: reads and writes come short.  Page numbers are checked, so
\* that the handler may also end the process.
CONSTANTS
  RingSize = 8
  MaxPage = 0
  Verify = TRUE
  MaxRequests = 2
  RequestUnits = 2
  PageUnits = 2
  SockBuf = 3
  Addr = {1, 2, 3, 4, 5, 6, 7}
  Sizes = {"page"}
  BufferSizes = {"page"}
  InitialCapacity = 1
  AllocateMalloc = FALSE
SPECIFICATION FairServerSpec
CHECK_DEADLOCK FALSE
INVARIANTS
  ReadsKeptPosted
  DispatchedByOp
PROPERTIES
  AnswersStable
  UsesPool
  HandlerReturns
