------------------------------ MODULE Transfer ------------------------------
(***************************************************************************)
(* The chunked transfers of src/src/client.rs: one call reads a file       *)
(* (module Get) or writes a body (module Write). Both share the pipeline   *)
(* depth of a session and nothing else; the one that does not run stays as *)
(* it begins.                                                              *)
(***************************************************************************)
EXTENDS Get, Write

VARIABLE job

transferVars == <<vars, writeVars, job>>

TransferInit ==
  \/ job = "read" /\ Init /\ WriteInit /\ len = 0 /\ pipe = CHOOSE p \in Pipes : TRUE
  \/ /\ job = "write" /\ WriteInit
     /\ Init /\ path = Absent /\ size = [v \in Versions |-> 0]
     /\ req = (CHOOSE r \in Requests : TRUE) /\ depth = CHOOSE d \in Depths : TRUE

ReadCall == job = "read" /\ ClientStep /\ UNCHANGED <<writeVars, job>>
WriteCall == job = "write" /\ WriteStep /\ UNCHANGED <<vars, job>>

\* What is asked of a byte does not depend on the others, so that losing one stands
\* for losing several (which the proofs allow).
FewLost == {lost \in SUBSET Unstable : Cardinality(lost) <= 1}
Others ==
  \/ job = "read" /\ (Replace \/ \E v \in Versions : Resize(v)) /\ UNCHANGED <<writeVars, job>>
  \/ job = "write" /\ (\E lost \in FewLost : Restart(lost)) /\ UNCHANGED <<vars, job>>
Returned == (pc = "done" \/ outcome # "none") /\ UNCHANGED transferVars

TransferNext == ReadCall \/ WriteCall \/ Others \/ Returned

TransferSpec == TransferInit /\ [][TransferNext]_transferVars

\* Every READ and WRITE is answered, fails with its connection or times out.
TransferFairSpec ==
  TransferSpec /\ WF_transferVars(ReadCall) /\ WF_transferVars(WriteCall)

\* A transfer returns: the loops of get and write_bytes advance with every
\* reply, refuse one that brings nothing, and drain what is in flight after an
\* error.
TransferReturns == job \in {"read", "write"} ~> (pc = "done" \/ outcome # "none")
=============================================================================
