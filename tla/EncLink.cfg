\* Two channels on one IVAHD.
CONSTANTS
  f1 = f1  f2 = f2  f3 = f3
  Frames = {f1, f2, f3}
  NumCh = 2
  ChOf <- OneAndTwo
  NumTsk = 1
  TskOf <- OneTask
  PerReq <- OneEach
  ReqPerCh <- OneEach
  Codec <- SameCodec
  BatchMax <- UpToTwo
  MaxReq = 3
  ProcLen = 2
  NumBufs = 3
  MaxList = 3
  MbxLen = 2
SPECIFICATION FairSpec
INVARIANTS Conserved ChannelEncodedOnce NothingLeftInCodec
PROPERTIES InOrder FramesGoHome CommandsReturn
CHECK_DEADLOCK FALSE
