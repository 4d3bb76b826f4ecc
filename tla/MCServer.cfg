SPECIFICATION FairSpec
CONSTANTS
  Files = {Core, Eztik, Copy, Broken}
  Cores = {Core}
  Eztiks = {Eztik, Copy}
  NoFile = NoFile
  IdLimit = 2
  MaxClients = 3
INVARIANTS
  ServingHookIsFirst
  SessionsOfTheConnected
  SharesOnlyAfterWrap
  EndsOnlyThroughEztik
  ReportsOnlyARunningServer
PROPERTIES
  KeepsAccepting
\* The process ends, and clients may stay silent.
CHECK_DEADLOCK FALSE
