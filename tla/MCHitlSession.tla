--------------------------- MODULE MCHitlSession ---------------------------
(* HitlSession for TLC: requests are interchangeable in the safety runs.   *)
EXTENDS HitlSession, TLC

Symmetry == Permutations(Request)
=============================================================================
