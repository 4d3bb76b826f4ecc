SPECIFICATION Spec
CONSTANTS
  Clients = {c1}
  Ops = {"open", "load"}
  MaxReqs = 2
  MaxRows = 1
  MaxReady = 3
  NoSession = NoSession
INVARIANTS
  LoadedRowHasName
CHECK_DEADLOCK FALSE
