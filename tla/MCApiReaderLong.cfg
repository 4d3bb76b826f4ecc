SPECIFICATION Spec
CONSTANTS
  ParamSizes = {1, 16384}
  TagModulus = 4
  MaxRequests = 1
  MaxAnswers = 1
INVARIANTS
  LengthsAreWhole
\* The router may stay silent.
CHECK_DEADLOCK FALSE
