SPECIFICATION Spec
CONSTANTS
  Clients = {c1, c2}
  Ops = {"open", "send"}
  MaxReqs = 2
  MaxRows = 0
  MaxReady = 2
  NoSession = NoSession
SYMMETRY Symmetry
PROPERTIES
  ClientsAreIsolated
\* A client sends a bounded number of requests and may then stay silent.
CHECK_DEADLOCK FALSE
