SPECIFICATION Spec
CONSTANTS
  Size = 2
  ChallengeSize = 4
  Replies <- MCReplies
  DigestBytes = {0, 9, 160, 255}
INVARIANTS
  HashesTheChallenge
  SendsTheDigest
  ThrowsForADigit
\* The computation ends.
CHECK_DEADLOCK FALSE
