\* Six blocks: four in the vectors at first, two more through malloc.
CONSTANTS
  Addr = {1, 2, 3, 4, 5, 6}
  Sizes = {"page", "req", "odd"}
  BufferSizes = {"page", "req"}
  InitialCapacity = 2
  AllocateMalloc = FALSE
SPECIFICATION UserSpec
CHECK_DEADLOCK FALSE
INVARIANTS
  UserTypeOK
  NoAliasing
  BlocksFit
  NoLeak
