-------------------------- MODULE MCRemoteTerminal --------------------------
(* Instances of RemoteTerminal for TLC. *)
EXTENDS RemoteTerminal
=============================================================================
