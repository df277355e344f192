\* As MCHandover, for the list that is cut short.
CONSTANTS
  Entries  = 3
  PageSize = 2
  PhysicalWrap = 324
  Regions  = {}
  FreeSets = {}
  Ranges   = {}
  Heaps    = {}
  WordBits = 4
  CounterWrap = 64
  BlockSlack  = 1
  MemoryMaps   <- MCMemoryMaps
  Framebuffers <- MCFramebuffers
SPECIFICATION HandoverSpec
INVARIANT RamStaysMapped
