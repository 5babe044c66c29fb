\* A list of wrappers around lists.
CONSTANTS
  Types <- MCTypes
  WideBits = 6
  MaxTokens = 60
  MaxStacks = 10
  Inputs <- WrapperListInputs
SPECIFICATION Spec
INVARIANT NoPanic
CHECK_DEADLOCK FALSE
