\* Ten pages, four of them conventional or in use by somebody; the firmware
\* changes the map up to two times by itself.
CONSTANTS
  WordBits   = 2
  Wrap       = 64
  BlockSlack = 6
  RetrySlack = 2
  MapSlack   = 2
  MaxEvents  = 2
  Loader     = {0, 2}
  Unused     = {3, 5, 7, 9}
  Free       = {1, 4, 6, 8}
  MemoryMaps <- MCMemoryMaps
SPECIFICATION BootSpec
INVARIANTS BootTypeOK OffersOnlyUnusedMemory HangsOnlyIfSlackUsedUp SlackCoversBoot ProvisionalMapFreed
PROPERTY BootEnds
