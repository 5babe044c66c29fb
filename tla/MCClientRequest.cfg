\* Two goroutines that share one connection.
CONSTANTS
  Calls = {c1, c2}
  Conns = 1
  Replies <- MCReplies
SPECIFICATION Spec
INVARIANTS
  TypeOK
  NothingLeftOpen
  ResponseUnlessTransportError
  ErrorMatchesReply
  TargetHoldsData
PROPERTIES
  CallsReturn
  KeepsPromise
