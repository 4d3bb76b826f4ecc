SPECIFICATION FairSpec
CONSTANTS
  Clients = {c1}
  Ops = {"open", "send", "load"}
  MaxReqs = 2
  MaxRows = 1
  MaxReady = 3
  NoSession = NoSession
PROPERTIES
  OpenSettles
  SendSettles
\* A client sends a bounded number of requests and may then stay silent.
CHECK_DEADLOCK FALSE
