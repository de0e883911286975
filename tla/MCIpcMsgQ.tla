----------------------------- MODULE MCIpcMsgQ -----------------------------
(* Small instances of IpcMsgQ for TLC: the host with its system link, the   *)
(* DSP with an SCD link, the video M3 with an IPC input link.               *)
EXTENDS IpcMsgQ, TLC

CONSTANTS host, dsp, video, app1, app2, ipcin, scd, sys

Quiet == [cmd \in Cmds |-> {}]
To(l, cmd) == [to |-> l, cmd |-> cmd]

\* Applications control both links; the input link asks the other one for its
\* information when it is created; the SCD link has data for the input link, or
\* an event for the system link, whose acknowledge it waits for.
ThreeCores == app1 :> host @@ app2 :> host
                @@ ipcin :> video @@ scd :> dsp @@ sys :> host
ThreeSends == app1 :> {To(ipcin, "CONTROL")} @@ app2 :> {To(scd, "CONTROL")}
ThreeHandles ==
  ipcin :> [Quiet EXCEPT !["CONTROL"] = {To(scd, "GET_INFO")}]
    @@ scd :> [Quiet EXCEPT !["NEW_DATA"] = {To(sys, "CONTROL"), To(ipcin, "NEW_DATA")}]
    @@ sys :> Quiet
\* An event that is not waited for, like those of the decoder.
EventSends == app1 :> {} @@ app2 :> {}
EventHandles ==
  ipcin :> Quiet @@ sys :> Quiet
    @@ scd :> [Quiet EXCEPT !["NEW_DATA"] = {To(sys, "EVENT")}]

MsgTable == [c \in Cores |-> [w \in BOOLEAN |->
  CASE c = host -> 1 [] c = dsp -> IF w THEN 2 ELSE 3 [] OTHER -> 4]]
=============================================================================
