SPECIFICATION Spec
CONSTANTS
  Files = {Core, Eztik, Copy, Broken}
  Cores = {Core}
  Eztiks = {Eztik, Copy}
  NoFile = NoFile
  IdLimit = 2
  MaxClients = 3
INVARIANTS
  ListensOnThePort
\* The process ends, and clients may stay silent.
CHECK_DEADLOCK FALSE
