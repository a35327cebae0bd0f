---------------------------- MODULE MCTranscript ----------------------------
(* Instances of Transcript for TLC. *)
EXTENDS Transcript, TLC

Symmetry == Permutations(Items)
=============================================================================
