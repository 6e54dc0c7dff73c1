-------------------------- MODULE MCServerWorkers --------------------------
(* ServerWorkers with the real bitwise or. *)
EXTENDS ServerWorkers, Bitwise

WordOr(a, b) == a | b

=============================================================================
