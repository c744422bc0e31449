CONSTANTS
  Builds <- SmallBuilds
  Early = 1
  UintBits = 8
  IntBytes = 4
  Parts = {0, 3}
SPECIFICATION MainSpec
CHECK_DEADLOCK FALSE
INVARIANTS
  RangesPartition
  TotalAccountsForAll
