SPECIFICATION Spec
CONSTANTS
  Clients = {c1}
  Ops = {"open", "send", "badsend", "load", "echo", "unknown"}
  MaxReqs = 3
  MaxRows = 1
  MaxReady = 3
  NoSession = NoSession
INVARIANTS
  TypeOK
  OpenAnsweredOnce
  GoneClientHasNoSession
  OutlivesItsClient
  WedgedOnlyAfterLogin
  LoginAssertions
  ReplyFindsCallback
  CallbackInOnePlace
  ClosedNoticeNeedsTwoStaleOpens
  SendAnswersEnd
  OnlyRetStrands
  LeakIsSilent
PROPERTIES
  ImplementsTable
\* A client sends a bounded number of requests and may then stay silent.
CHECK_DEADLOCK FALSE
