--------------------------- MODULE MCSessionIndex ---------------------------
(* Instances of SessionIndex for TLC. *)
EXTENDS SessionIndex
=============================================================================
