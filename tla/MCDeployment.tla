---------------------------- MODULE MCDeployment ----------------------------
(* Small instances of Deployment for TLC.                                  *)
EXTENDS Deployment, TLC

CONSTANTS c1, c2, l1, l2, a1, a2, f1

MCCallers  == {c1, c2}
OneCaller  == {c1}
MCLoops    == {l1, l2}
MCAttempts == {a1, a2}
MCFiles    == {f1}
MCRequests == {[files |-> {}, redeploy |-> FALSE], [files |-> {f1}, redeploy |-> FALSE],
               [files |-> {}, redeploy |-> TRUE]}

WriteOne   == {[files |-> {f1}, redeploy |-> FALSE]}
OneLoop    == {l1}

Symmetry == Permutations(MCCallers) \cup Permutations(MCLoops) \cup Permutations(MCAttempts)
=============================================================================
