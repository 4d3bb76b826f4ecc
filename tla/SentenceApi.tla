----------------------------- MODULE SentenceApi -----------------------------
(***************************************************************************)
(* A connected API by whole sentences, as Sessions takes it to be: what the  *)
(* router sends is handled a sentence at a time, each in one step, in order,  *)
(* while the connection is open; a sentence reaches at most one callback,     *)
(* under a tag of its own, and can drop no other.                            *)
(***************************************************************************)
EXTENDS Naturals, Sequences

CONSTANTS
  Tags,
  TagsOf(_)  \* the tags that a sentence carries

VARIABLES
  open,
  answers,   \* the sentences that the router has sent
  handled,   \* the sentences that have been handled
  callbacks  \* the request whose callback waits under each tag, or 0

Init ==
  /\ open = TRUE
  /\ answers = <<>>
  /\ handled = <<>>
  /\ callbacks = [t \in Tags |-> 0]

RouterSends ==
  /\ Len(answers') = Len(answers) + 1
  /\ SubSeq(answers', 1, Len(answers)) = answers
  /\ UNCHANGED <<open, handled, callbacks>>

\* A request is out.  An older callback of its tag stays.
Register ==
  /\ open
  /\ \E t \in Tags :
       /\ callbacks[t] = 0
       /\ callbacks' = [callbacks EXCEPT ![t] = callbacks'[t]]
  /\ UNCHANGED <<open, answers, handled>>

\* The next sentence is handled; that may end the connection.
Handle ==
  /\ open
  /\ Len(handled) < Len(answers)
  /\ handled' = Append(handled, answers[Len(handled) + 1])
  /\ \/ UNCHANGED callbacks
     \/ \E t \in TagsOf(answers[Len(handled) + 1]) :
          callbacks[t] # 0 /\ callbacks' = [callbacks EXCEPT ![t] = 0]
  /\ open' \in BOOLEAN
  /\ UNCHANGED answers

Close ==
  /\ open
  /\ open' = FALSE
  /\ UNCHANGED <<answers, handled, callbacks>>

Next == RouterSends \/ Register \/ Handle \/ Close

Spec == Init /\ [][Next]_<<open, answers, handled, callbacks>>

=============================================================================
