CONSTANTS
  Images <- MCImages
  PremultiplyLoad = 2
  RawLoad = 4
SPECIFICATION Spec
INVARIANTS
  PixelsTypeOK
  RowIsExact
  AlphaIsSeen
  BrokenChunksAreIgnored
CHECK_DEADLOCK FALSE
