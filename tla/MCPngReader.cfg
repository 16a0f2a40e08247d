CONSTANTS
  Files <- MCAllFiles
  MaxChunks = 5
  InitialOffset = 3
  Uint31Max = 1000
  SizeMax = 900
  MaxPngSize = 100
  HalfFloatOption = TRUE
SPECIFICATION Spec
INVARIANTS
  TypeOK
  ReaderInv
  EveryDataChunkInOneFrame
  FramesMatchTheirControl
  SequenceNumbersInOrder
  FrameCountWithinActl
  CompletedFramesAreClosed
  NoFrameMixesDataKinds
  
PROPERTIES
  ImplementsCatalogue
  ParseReturns
CHECK_DEADLOCK FALSE
