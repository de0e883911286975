\* Rerouting with both commands; every frame goes home.
CONSTANTS
  a = a  b = b  f1 = f1  f2 = f2  small = small  large = large
  InChs = {a, b}
  NumOutQue = 1
  MaxOutCh = 2
  Frames = {f1, f2}
  Sizes = {small}
  NoSize = NoSize
  Commands = {"SET", "SET2"}
  Resizes = FALSE
SPECIFICATION FairSpec
PROPERTY FramesGoHome
