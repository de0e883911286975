----------------------------- MODULE MCUtilsQue -----------------------------
(* Small instances of UtilsQue for TLC.                                     *)
EXTENDS UtilsQue, TLC

CONSTANTS g1, g2, p1, p2, d1, d2

TwoAndTwo == Permutations({g1, g2}) \cup Permutations({p1, p2})
               \cup Permutations({d1, d2})
=============================================================================
