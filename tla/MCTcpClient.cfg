SPECIFICATION FairSpec
CONSTANTS
  HeaderSize = 2
  MaxBody = 2
  BodySizes = {0, 1, 2, 3}
  MaxMessages = 2
  MaxAnswers = 3
INVARIANTS
  RequestsAsSent
  OneReadWhileOpen
  HooksOnceAsItCloses
  AnswerInOnePlace
  WireInOrder
PROPERTIES
  AnswersReported
  ImplementsConnection
\* A client may stay silent.
CHECK_DEADLOCK FALSE
