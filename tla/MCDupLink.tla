----------------------------- MODULE MCDupLink -----------------------------
(* Small instance of DupLink for TLC.                                       *)
EXTENDS DupLink

CONSTANTS f1, f2
=============================================================================
