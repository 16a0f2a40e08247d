CONSTANTS
  Files <- MCHalfFloatFiles
  MaxChunks = 0
  InitialOffset = 3
  Uint31Max = 1000
  SizeMax = 900
  MaxPngSize = 100
  HalfFloatOption = TRUE
SPECIFICATION Spec
INVARIANTS
  HalfFloatFramesReplace
CHECK_DEADLOCK FALSE
