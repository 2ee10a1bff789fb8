---------------------------- MODULE MCGeneration ----------------------------
(* Small instances of Generation for TLC.                                  *)
EXTENDS Generation, TLC

CONSTANTS b1, b2, t1, t2, r1, r2, n1, n2

SingleBuild == {b1}
TwoBuilds   == {b1, b2}
OneTurn     == {t1}
TwoTurns    == {t1, t2}
OneRequest  == {r1}
TwoRequests == {r1, r2}
MCCloned    == {0}
NoClones    == {}
OneName     == {n1}
TwoNames    == {n1, n2}

Symmetry == Permutations(TwoBuilds) \cup Permutations(TwoTurns) \cup Permutations(TwoRequests)
=============================================================================
