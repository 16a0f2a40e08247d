CONSTANTS
  Inputs <- MCInputs
  OptionSets <- MCOptionSets
  MaxDepth = 3
SPECIFICATION Spec
INVARIANTS
  JsonTypeOK
  ParsesTheGrammar
  ErrorIffFailed
  LinesAreCounted
PROPERTY ParseTerminates
CHECK_DEADLOCK FALSE
