CONSTANTS
  Files <- MCInterlacedBlend
  MaxChunks = 0
  InitialOffset = 0
  Uint31Max = 1000
  SizeMax = 900
  MaxPngSize = 100
  HalfFloatOption = FALSE
  MaxFrames = 3
  Passes = 2
SPECIFICATION DecoderSpec
INVARIANTS
  BlendedOnce
CHECK_DEADLOCK FALSE
