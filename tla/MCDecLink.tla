----------------------------- MODULE MCDecLink -----------------------------
(* Small instances of DecLink for TLC.                                      *)
EXTENDS DecLink, TLC

CONSTANTS b1, f1, f2, f3, f4

\* One channel of two buffers, of which the codec may keep one.
OneBit == b1 :> 0
FourFrames == f1 :> 0 @@ f2 :> 0 @@ f3 :> 0 @@ f4 :> 0
TwoEach == 0 :> 2
OneEach == 0 :> 1
=============================================================================
