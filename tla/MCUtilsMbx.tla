----------------------------- MODULE MCUtilsMbx -----------------------------
(* Small instance of UtilsMbx for TLC.                                      *)
EXTENDS UtilsMbx

CONSTANTS c1, c2, s1, s2, m1, m2, k1
=============================================================================
