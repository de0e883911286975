----------------------------- MODULE MCEncLink -----------------------------
(* Small instances of EncLink for TLC.                                      *)
EXTENDS EncLink, TLC

CONSTANTS f1, f2, f3

\* Channel 1 has two frames, channel 0 one.
OneAndTwo == (f1 :> 0) @@ (f2 :> 1) @@ (f3 :> 1)
OneTask == 0 :> 0 @@ 1 :> 0
OneEach == 0 :> 1 @@ 1 :> 1
SameCodec == 0 :> "H264" @@ 1 :> "H264"
UpToTwo == 0 :> 2 @@ 1 :> 2
=============================================================================
