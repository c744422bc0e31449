\* A batch of two requests and one of one; the server has one of two pages.
CONSTANTS
  NumRequests = 3
  BatchSize = 2
  NumReads = 2
  ClientPages = 2
  ServerPages = 1
  PageSize = 1
  Strategy <- PseudoRandomFillingStrategy
  Base = 32
SPECIFICATION FairPagesSpec
CHECK_DEADLOCK FALSE
INVARIANTS
  IouTypeOK
  ResponseUnitsBalance
PROPERTIES
  BuffersSettle
  BothEnd
