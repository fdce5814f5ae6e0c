------------------------------- MODULE MCRpc -------------------------------
(* Rpc for TLC: its constants are set in the configuration. *)
EXTENDS Rpc
=============================================================================
