----------------------------- MODULE MCRecovery -----------------------------
(* Recovery for TLC: its constants are set in the configuration. *)
EXTENDS Recovery
=============================================================================
