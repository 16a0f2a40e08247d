CONSTANTS
  Files <- MCImages
  MaxChunks = 0
  InitialOffset = 0
  Uint31Max = 1000
  SizeMax = 900
  MaxPngSize = 100
  HalfFloatOption = FALSE
  MaxFrames = 3
  Passes = 2
SPECIFICATION DecoderSpec
INVARIANTS
  DecoderTypeOK
  LibpngSeesOneFrame
  CompleteFramesShowTheAnimation
  OpaqueFramesAreOpaque
  RequiredFrameIsComplete
PROPERTIES
  ReceivedFramesAreAnswered
  RequestsReturn
CHECK_DEADLOCK FALSE
