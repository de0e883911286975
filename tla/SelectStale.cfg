\* A channel changes its size while it is not routed.
CONSTANTS
  a = a  b = b  f1 = f1  f2 = f2  small = small  large = large
  InChs = {a, b}
  NumOutQue = 1
  MaxOutCh = 1
  Frames = {f1, f2}
  Sizes = {small, large}
  NoSize = NoSize
  Commands = {"SET2"}
  Resizes = TRUE
SYMMETRY AllAlike
SPECIFICATION Spec
INVARIANT SizeIsKnown
