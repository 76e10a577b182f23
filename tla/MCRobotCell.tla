---------------------------- MODULE MCRobotCell ----------------------------
(* RobotCell for TLC: apples are interchangeable in the safety runs.       *)
EXTENDS RobotCell, TLC

Symmetry == Permutations(Apple)
=============================================================================
