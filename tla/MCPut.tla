------------------------------- MODULE MCPut -------------------------------
(* Put on small instances. *)
EXTENDS Put, TLC

CONSTANTS o1, o2

MCOps == {o1, o2}
MCOp == {o1}
Symmetry == Permutations(MCOps)
=============================================================================
