-------------------------- MODULE MCSessionRuntime --------------------------
(* A caller that sends again and again, against Archive and Delete; or two senders and Stop. *)
EXTENDS SessionRuntime

CONSTANTS first, second

MCSends == {first, second}
=============================================================================
