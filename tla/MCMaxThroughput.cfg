\* Two threads, with two and three requests of two units; a ring of two, so that
\* the window closes for one of them, and reads overtake each other; room for a
\* page and a half, so that sends come short.  Main stops to poll at 80 percent:
\* of ten units it can do without two.
CONSTANTS
  ClientThreads = 2
  NumRequests = 5
  RingSize = 2
  PageUnits = 2
  SockBuf = 3
  Enough = 80
SPECIFICATION MaxSpec
CHECK_DEADLOCK FALSE
INVARIANTS
  MaxTypeOK
  UnitsConserved
  AllCountedAtEnd
PROPERTIES
  AllSent
  MaxServerEnds
