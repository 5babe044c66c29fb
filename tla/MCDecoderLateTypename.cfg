\* A __typename behind the members it is about.
CONSTANTS
  Types <- MCTypes
  WideBits = 6
  MaxTokens = 60
  MaxStacks = 10
  Inputs <- LateTypenameInputs
SPECIFICATION Spec
PROPERTY OnlyOwnFragment
CHECK_DEADLOCK FALSE
