\* A heap that begins inside a page.
CONSTANTS
  Entries  = 2
  PageSize = 2
  PhysicalWrap = 64
  Regions  <- MCRegions
  FreeSets <- MCFreeSets
  Ranges   = {}
  Heaps    <- UnalignedHeaps
SPECIFICATION Spec
INVARIANT HeapBacked
