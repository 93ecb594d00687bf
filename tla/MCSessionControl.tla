--------------------------- MODULE MCSessionControl ---------------------------
(* Sessions are interchangeable. *)
EXTENDS SessionControl, TLC

SessionSymmetry == Permutations(Sessions)
=============================================================================
