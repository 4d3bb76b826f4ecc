----------------------------- MODULE Connection -----------------------------
(***************************************************************************)
(* What a connection promises the rest of the server, whatever the socket     *)
(* does: requests one after the other while it is open, and for each answer   *)
(* that it is given one report, of success while it is open, of failure as    *)
(* it closes or later.                                                        *)
(***************************************************************************)
EXTENDS Naturals

CONSTANT Answers

VARIABLES
  link,     \* the connection
  served,   \* how many requests have been handed to the server
  given,    \* how many answers have been given, 1..given
  reported  \* what is known of each answer

Link == {"new", "open", "closed", "dropped"}

Report == {"none", "success", "failure"}

TypeOK ==
  /\ link \in Link
  /\ served \in Nat
  /\ given \in Nat
  /\ reported \in [Answers -> Report]

Init ==
  /\ link = "new"
  /\ served = 0
  /\ given = 0
  /\ reported = [r \in Answers |-> "none"]

\* The commands and hooks that hear of a step may answer.
MayGive == given' \in {given, given + 1}

Reports(r, what) ==
  /\ r <= given
  /\ reported[r] = "none"
  /\ reported' = [reported EXCEPT ![r] = what]

Accept ==
  /\ link = "new"
  /\ link' \in {"open", "dropped"}
  /\ UNCHANGED <<served, given, reported>>

Serve ==
  /\ link = "open"
  /\ served' = served + 1
  /\ MayGive
  /\ UNCHANGED <<link, reported>>

Give ==
  /\ link \in {"open", "closed"}
  /\ given' = given + 1
  /\ UNCHANGED <<link, served, reported>>

Success ==
  /\ link = "open"
  /\ \E r \in Answers : Reports(r, "success")
  /\ UNCHANGED <<link, served, given>>

\* A read fails, or the client breaks the protocol, or an answer fails.
Close ==
  /\ link = "open"
  /\ link' = "closed"
  /\ MayGive
  /\ UNCHANGED reported \/ \E r \in Answers : Reports(r, "failure")
  /\ UNCHANGED served

Failure ==
  /\ link = "closed"
  /\ \E r \in Answers : Reports(r, "failure")
  /\ UNCHANGED <<link, served, given>>

Next == Accept \/ Serve \/ Give \/ Success \/ Close \/ Failure

Spec == Init /\ [][Next]_<<link, served, given, reported>>

=============================================================================
