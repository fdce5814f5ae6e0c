---------------------------- MODULE MCDirectory ----------------------------
(* Directory for TLC: a directory of six names, two callers' among them. *)
EXTENDS Directory

MCOrder == <<"dot", "p1", "old1", "file", "p2", "old2">>
MCCasts == {{"p1", "p2"}, {"p1", "s1"}, {"s1", "s2"}, {"s1", "lister"}, {"p1", "lister"},
            {"lister"}, {"s1"}}
=============================================================================
