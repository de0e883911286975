\* Rerouting with SET_OUT_QUE_CH_INFO2 at any moment, to queues whose next
\* links must learn the size of the channels they are given.
CONSTANTS
  a = a  b = b  f1 = f1  f2 = f2  small = small  large = large
  InChs = {a, b}
  NumOutQue = 2
  MaxOutCh = 1
  Frames = {f1, f2}
  Sizes = {small, large}
  NoSize = NoSize
  Commands = {"SET2"}
  Resizes = FALSE
SYMMETRY AllAlike
SPECIFICATION Spec
INVARIANTS ChannelRestored SizeIsKnown RoutingOK
