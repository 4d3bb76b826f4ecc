----------------------------- MODULE MCChallenge -----------------------------
EXTENDS Challenge

\* The ends of the three ranges of digits, what lies beside them, and
\* characters that the mask changes or leaves outside of ASCII.
MCChars == {16, 47, 48, 57, 58, 64, 65, 70, 71, 96, 97, 102, 103, 122, 225}

MCReplies == [1..3 -> MCChars] \cup [1..4 -> MCChars] \cup [1..5 -> {57}]

=============================================================================
