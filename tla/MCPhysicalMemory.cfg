\* Words of two bits; callers ask for runs of up to three frames and give back
\* any frame but frame 0, held or not, inside or outside the blocks.
CONSTANTS
  WordBits = 2
  Wrap     = 32
  Pmms     <- MCPmms
  Counts   = {0, 1, 2, 3}
  Freeable = {1, 2, 3, 4, 5, 6, 7, 8, 9}
SPECIFICATION Spec
INVARIANTS TypeOK CountersExact OwnershipExact ZeroNeverHandedOut
PROPERTY ImplementsFrameAllocator
