---------------------------- MODULE SessionTable ----------------------------
(***************************************************************************)
(* What sessions_service promises about each client, whatever the router    *)
(* does: a client has at most one session; it is being opened until the     *)
(* router has accepted the login, and only a session that was accepted can  *)
(* end up with a dead connection and still be there ("wedged", answering    *)
(* neither api_open nor api_send); a client that has gone has none and gets *)
(* none.                                                                    *)
(***************************************************************************)
CONSTANT Clients

VARIABLES entry, gone

State == {"absent", "opening", "ready", "wedged"}

TypeOK == entry \in [Clients -> State] /\ gone \subseteq Clients

Init == entry = [c \in Clients |-> "absent"] /\ gone = {}

Become(c, from, to) ==
  /\ entry[c] = from
  /\ entry' = [entry EXCEPT ![c] = to]
  /\ UNCHANGED gone

Open(c) == c \notin gone /\ Become(c, "absent", "opening")

Accepted(c) == Become(c, "opening", "ready")

\* A send fails: the connection is closed and the entry stays.
Wedge(c) == Become(c, "ready", "wedged")

End(c) == \E from \in State : Become(c, from, "absent")

Leave(c) ==
  /\ gone' = gone \cup {c}
  /\ entry' = [entry EXCEPT ![c] = "absent"]

Next ==
  \E c \in Clients : Open(c) \/ Accepted(c) \/ Wedge(c) \/ End(c) \/ Leave(c)

Spec == Init /\ [][Next]_<<entry, gone>>

=============================================================================
