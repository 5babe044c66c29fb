CONSTANTS
  Goroutines = {"a", "b"}
  StructTypes = {"Human", "Droid"}
  Questions = {"ID", "Name"}
  Fields <- MCFields
  Fact <- MCFact
  MaxCalls = 2
SPECIFICATION Spec
INVARIANTS
  CachesTypeOK
  AnswersAreRight
  OneTablePerType
PROPERTIES
  EveryCallReturns
  WaitFree
  ImplementsOneAnswer
CHECK_DEADLOCK FALSE
