\* Documented targets, generated names, options and variables.
CONSTANTS
  Types <- MCTypes
  WideBits = 6
  MaxTokens = 60
  MaxStacks = 10
  Inputs = {}
  Requests <- MCRequests
  Schema <- MCSchema
  Possible <- MCPossible
  ScalarAnswers <- MCScalarAnswers
  RootType = "Query"
  MaxListAnswer = 2
SPECIFICATION TripSpec
INVARIANTS
  OperationIsValid
  OperationSaysWhatIsMeant
  SameTextInAnyOrder
  EveryAnswerFits
  AnswerCanBeRead
