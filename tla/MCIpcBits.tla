----------------------------- MODULE MCIpcBits -----------------------------
(* Small instance of IpcBits for TLC.                                       *)
EXTENDS IpcBits
CONSTANTS b1, b2, e1, e2
=============================================================================
