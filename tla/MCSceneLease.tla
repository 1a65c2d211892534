---------------------------- MODULE MCSceneLease ----------------------------
(* SceneLease with interchangeable sessions.                               *)
EXTENDS SceneLease, TLC
Symmetry == Permutations(Sessions)
=============================================================================
