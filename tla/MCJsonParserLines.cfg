CONSTANTS
  Inputs <- CommentedTexts
  OptionSets <- MCOptionSets
  MaxDepth = 3
SPECIFICATION Spec
INVARIANT ErrorLineIsItsLine
CHECK_DEADLOCK FALSE
