------------------------ MODULE MCServerRefinement ------------------------
(* ServerRefinement with the real bitwise or. *)
EXTENDS ServerRefinement, Bitwise

WordOr(a, b) == a | b

=============================================================================
