\* Three requests for two pages, so that one page is asked for twice; other
\* settings by the sources of the MC module.  Words of two digits of base 32
\* hold the statuses 200 and 400.
CONSTANTS
  Defaults <- SmallDefaults
  Sources <- SmallSources
  PortBits = 16
  PageSize = 2
  Strategy <- PseudoRandomFillingStrategy
  Base = 32
SPECIFICATION FairRpcSpec
CHECK_DEADLOCK FALSE
INVARIANTS
  ConfigRespected
  AnswerIsToRequest
  ServerNeverSignalled
PROPERTIES
  CallsInOrder
  BothEnd
