\* A list template that refers to a nested ordered map.
CONSTANTS
  Types <- MCTypes
  WideBits = 6
  MaxTokens = 60
  MaxStacks = 10
  Inputs <- NestedTemplateInputs
SPECIFICATION Spec
INVARIANT ElementsAreSeparate
CHECK_DEADLOCK FALSE
