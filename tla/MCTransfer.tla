----------------------------- MODULE MCTransfer -----------------------------
(* Transfer for TLC: calls around the chunk size, the limit and the file
   lengths; bodies of up to three chunks. *)
EXTENDS Transfer

MCRequests ==
  {[kind |-> "get", start |-> 0, end |-> 0]}
    \cup {[kind |-> "known", start |-> 0, end |-> n] : n \in {0, 5, 8, 9}}
    \cup {[kind |-> "range", start |-> p[1], end |-> p[2]] :
             p \in {<<1, 3>>, <<1, 7>>, <<0, 9>>, <<3, 3>>}}
=============================================================================
