\* Every pair of a provisional and a final map; one spare block.
CONSTANTS
  WordBits   = 2
  Wrap       = 64
  BlockSlack = 1
  MemoryMaps <- MCMemoryMaps
SPECIFICATION Spec
INVARIANTS BuildTypeOK HandsOverConsistentBlocks OffersOnlyConventional RunsOutOnlyIfMapGrew
CHECK_DEADLOCK FALSE
