\* An event with parameters that is not waited for.
CONSTANTS
  host = host  dsp = dsp  video = video
  app1 = app1  app2 = app2   ipcin = ipcin  scd = scd  sys = sys
  None = None
  Cores = {host, dsp, video}
  Apps = {app1, app2}
  Links = {ipcin, scd, sys}
  CoreOf <- ThreeCores
  Sends <- EventSends
  Handles <- EventHandles
  Fed = {scd}
  Msgs = {1, 2, 3, 4}
  MsgOf <- MsgTable
  RecvLen = 1
  MaxNews = 1
SPECIFICATION Spec
INVARIANT PrmIsLive
