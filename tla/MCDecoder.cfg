\* Targets as documented; documents with __typename first and in one object only.
CONSTANTS
  Types <- MCTypes
  WideBits = 6
  MaxTokens = 60
  MaxStacks = 10
  Inputs <- MCInputs
SPECIFICATION Spec
INVARIANTS
  TypeOK
  AgreesWithReference
  ElementsAreSeparate
PROPERTIES
  OnlyOwnFragment
  FollowsDiscipline
CHECK_DEADLOCK FALSE
