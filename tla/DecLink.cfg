\* A channel that is closed, opened again and closed; each closing leaks a message
\* of the pool, so that the second cannot be answered any more.
CONSTANTS
  b1 = b1
  f1 = f1  f2 = f2  f3 = f3  f4 = f4
  NoBit = NoBit  NoFrame = NoFrame
  Bits = {b1}
  ChOf <- OneBit
  Chs = {0}
  Frames = {f1, f2, f3, f4}
  PoolOf <- FourFrames
  NumBufs <- TwoEach
  Dpb <- OneEach
  ReqPerCh <- OneEach
  MaxReq = 2
  ProcLen = 2
  DupFrames = 4
  Closable = {0}
  MaxOpens = 1
  RecvLen = 2
  MsgPool = 2
SPECIFICATION FairSpec
INVARIANTS FramesOK StarvedIsFlagged AssertionsHold
PROPERTIES Returns
\* After a lost command the link may really stop; Returns says that it stops in no
\* other way.
CHECK_DEADLOCK FALSE
