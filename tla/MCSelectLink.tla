---------------------------- MODULE MCSelectLink ----------------------------
(* Small instances of SelectLink for TLC.                                   *)
EXTENDS SelectLink, TLC

CONSTANTS a, b, f1, f2, small, large

RoutesAlike == Permutations({f1, f2}) \cup Permutations({a, b})
AllAlike == RoutesAlike \cup Permutations({small, large})
=============================================================================
