\* Three clients, one http.Header that a caller passes in, one request at a time.
CONSTANTS
  Goroutines = {g1}
  Keys <- MCKeys
  Canonical <- MCCanonical
  ContentType = "Content-Type"
  JSONType = "application/json"
  NoValue = ""
  Values = {"a", "b"}
  Contents <- MCContents
  Modifiers <- MCModifiers
  NoModifier <- MCNoModifier
  HTTPClients = {"default", "custom"}
  MaxClients = 3
  MaxArgs = 1
SPECIFICATION Spec
INVARIANTS
  ClientsTypeOK
  NothingShared
  RequestsHaveTheirHeaders
PROPERTIES
  ClientsNeverChange
  BehavesAsValues
