\* Host, DSP and video M3.
CONSTANTS
  host = host  dsp = dsp  video = video
  app1 = app1  app2 = app2   ipcin = ipcin  scd = scd  sys = sys
  None = None
  Cores = {host, dsp, video}
  Apps = {app1, app2}
  Links = {ipcin, scd, sys}
  CoreOf <- ThreeCores
  Sends <- ThreeSends
  Handles <- ThreeHandles
  Fed = {scd}
  Msgs = {1, 2, 3, 4}
  MsgOf <- MsgTable
  RecvLen = 1
  MaxNews = 1
SPECIFICATION FairSpec
INVARIANTS MessagesOK AckIsOwn PrmIsLive OneWaitedPerCore
PROPERTIES CallsReturn
\* After a lost acknowledge the system really stops (AckLost); that it stops in no
\* other way is what CallsReturn says.
CHECK_DEADLOCK FALSE
