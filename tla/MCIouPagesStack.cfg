\* Two requests in one batch, for two pages that the server has.
CONSTANTS
  NumRequests = 2
  BatchSize = 2
  NumReads = 2
  ClientPages = 2
  ServerPages = 2
  PageSize = 1
  Strategy <- PseudoRandomFillingStrategy
  Base = 32
SPECIFICATION PagesSpec
CHECK_DEADLOCK FALSE
INVARIANTS
  AnswersDistinct
