\* A page is mapped twice, to different frames.
CONSTANTS
  Entries  = 2
  PageSize = 2
  PhysicalWrap = 64
  Regions  <- MCRegions
  FreeSets <- MCFreeSets
  Ranges   <- RemapRanges
  Heaps    = {}
SPECIFICATION Spec
PROPERTY KeepsMappings
