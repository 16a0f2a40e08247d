CONSTANTS
  Images <- MCImages
SPECIFICATION Spec
INVARIANTS
  AvifTypeOK
  ShownRowsAreExact
  LayerLeftToDecode
  ReadsAreExact
  OrientationIsGeometry
  PlanesAreExact
PROPERTIES
  HighestLayerIsShown
  ReceivedFramesComplete
  FramesAreShown
CHECK_DEADLOCK FALSE
