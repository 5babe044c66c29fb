\* A __typename left over from a nested object.
CONSTANTS
  Types <- MCTypes
  WideBits = 6
  MaxTokens = 60
  MaxStacks = 10
  Inputs <- NestedTypenameInputs
SPECIFICATION Spec
PROPERTY OnlyOwnFragment
CHECK_DEADLOCK FALSE
