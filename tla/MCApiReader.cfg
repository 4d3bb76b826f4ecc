SPECIFICATION Spec
CONSTANTS
  ParamSizes = {1, 128, 16384}
  TagModulus = 2
  MaxRequests = 3
  MaxAnswers = 2
INVARIANTS
  TypeOK
  OneReadWhileOpen
  DroppedForGood
  RightCallback
  ClosesForAReason
  AssertsForAReason
PROPERTIES
  ImplementsSentenceApi
\* The router may stay silent.
CHECK_DEADLOCK FALSE
