\* Two getters and two putters on a blocking queue of two, as the message
\* pool of utils_mbx.c is used; forced unblocks, every kind of timeout.
CONSTANTS
  g1 = g1  g2 = g2  p1 = p1  p2 = p2  d1 = d1  d2 = d2
  Tasks = {g1, g2, p1, p2}
  Getters = {g1, g2}
  Putters = {p1, p2}
  Data = {d1}
  NoData = NoData
  MaxElements = 2
  BlockGet = TRUE
  BlockPut = TRUE
  MinCounts = {0, 1}
  Timeouts = {"NO_WAIT", "FINITE", "FOREVER"}
  UnBlocks = TRUE
  Resets = {}
  MaxCalls = 5
SYMMETRY TwoAndTwo
SPECIFICATION Spec
INVARIANTS TypeOK NoLostWakeup TokensCover ForceHasTarget
