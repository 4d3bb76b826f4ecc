SPECIFICATION FairSpec
CONSTANTS
  ParamSizes = {1, 127, 16383, 16384}
  TagModulus = 4
  MaxRequests = 1
  MaxAnswers = 2
PROPERTIES
  AnswersHandled
\* The router may stay silent.
CHECK_DEADLOCK FALSE
