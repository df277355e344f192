\* The kernel frees every frame of a reclaimable block, frame 0 included.
CONSTANTS
  WordBits = 2
  Wrap     = 32
  Pmms     <- MCReclaimPmms
  Counts   = {1, 2}
  Freeable = {0, 1}
SPECIFICATION Spec
INVARIANT ZeroNeverHandedOut
