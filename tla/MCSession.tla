----------------------------- MODULE MCSession -----------------------------
(* Session for TLC: the replies a server gives, and the symmetry of tasks. *)
EXTENDS Session, TLC

TaskSymmetry == Permutations(Tasks)

\* Shrinks the window, over-reports it, reports a fatal flag.
ShrinkGrowFatal == {<<0, 0, FALSE>>, <<5, 5, FALSE>>, <<1, 0, TRUE>>}

\* Keeps three slots and lowers the target to one.
LowerTarget == {<<2, 2, FALSE>>, <<2, 0, FALSE>>}
TargetZero == {<<2, 0, FALSE>>}
=============================================================================
