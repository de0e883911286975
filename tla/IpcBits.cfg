\* Bit buffers crossing to the host and back, polled or notified, more of
\* them than a list has room for.
CONSTANTS
  b1 = b1  b2 = b2  e1 = e1  e2 = e2
  Bufs = {b1, b2}
  Elems = {e1, e2}
  MaxList = 1
  MaxPending = 2
  MbxLen = 3
  None = None
SPECIFICATION FairSpec
INVARIANTS ListsOK PendingIsQueued
PROPERTIES InOrder IsFrameLoan BufsGoHome
