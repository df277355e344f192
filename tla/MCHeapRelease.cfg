\* A heap that runs out of frames for its second page table.
CONSTANTS
  Entries  = 2
  PageSize = 2
  PhysicalWrap = 64
  Regions  <- MCRegions
  FreeSets <- FewFrames
  Ranges   = {}
  Heaps    <- SplitHeaps
SPECIFICATION Spec
INVARIANT ReleasedMeansUnmapped
