----------------------------- MODULE MCSessions -----------------------------
(* Sessions for TLC: the clients are interchangeable. *)
EXTENDS Sessions, TLC

Symmetry == Permutations(Clients)

=============================================================================
