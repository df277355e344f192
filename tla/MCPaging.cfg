\* Frames for the top level, a few tables and a small heap, in two regions.
CONSTANTS
  Entries  = 2
  PageSize = 2
  PhysicalWrap = 64
  Regions  <- MCRegions
  FreeSets <- MCFreeSets
  Ranges   <- MCRanges
  Heaps    <- MCHeaps
SPECIFICATION Spec
INVARIANTS PagingTypeOK TablesDistinct LeafDecides HeapBacked
PROPERTIES FailsForAReason ImplementsAddressSpace CallsReturn
