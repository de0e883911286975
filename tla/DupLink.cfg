\* Two frames through two outputs, each next link giving back any part of
\* what it holds at any time; one flushes notifications, the other does not,
\* and notifications that find no room are lost.
CONSTANTS
  f1 = f1  f2 = f2
  Frames = {f1, f2}
  NumOutQue = 2
  PoolSize = 4
  MaxList = 2
  MaxNews = 2
  Flushing = {1}
  None = None
SPECIFICATION FairSpec
INVARIANTS CountsOK PoolLasts
PROPERTIES IsFrameLoan FramesGoHome
