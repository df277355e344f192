\* A range that ends where the address space ends.
CONSTANTS
  Entries  = 2
  PageSize = 2
  PhysicalWrap = 64
  Regions  <- MCRegions
  FreeSets <- MCFreeSets
  Ranges   <- TopRanges
  Heaps    = {}
SPECIFICATION Spec
INVARIANT SuccessMeansMapped
