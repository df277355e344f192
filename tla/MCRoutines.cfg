\* Every part at the sizes its module names.  Functions return, so behaviours end.
CONSTANTS
  MaxVolumes = 4
  Machines <- MCMachines
  Half = 2
  Memories <- MCMemories
  Calls    <- MCCalls
  IntMin   <- MCIntMin
  Bases = {2, 7, 10}
  ItoaTempSize = 9
  StackAlign = 8
  Formats <- MCFormats
  MaxArguments = 3
  Lengths = {1, 3}
  Hex32 = 2
  Hex64 = 4
  TempSize = 6
  ShortMax  = 32
  PitchWrap = 2048
  SizeWrap  = 65536
  Screens    <- MCScreens
  LastCode  = 7
  Fonts      <- MCFonts
  Characters <- MCCharacters
  MaxLines  = 18
  FrameGarbage <- MCFrameGarbage
  Words        <- MCWords
  IdtEntries = 3
  Gates       <- MCGates
  PoolGarbage <- MCPoolGarbage
  AcpiSizeWrap = 256
  SdtSize  = 36
  ApicSize = 44
  Madts <- MCMadts
  Xsdts <- MCXsdts
SPECIFICATION Spec
INVARIANTS ReleasesOnce ReadsFirstFile
INVARIANTS CopiedExactly ComparesStrings WritesNumeral FormatsText
INVARIANTS ShowsItsGlyph
INVARIANTS DescriptorsHold GatesHold WalksRight
PROPERTIES FreadReturns DrawsInOrder EndsOrSticks
CHECK_DEADLOCK FALSE
