\* One getter and one putter, as between a link task and its codec task,
\* with forced unblocks at any point; the idle queue may be reset, as
\* decLink_common.c resets the queue of its empty buffers.
CONSTANTS
  g1 = g1  g2 = g2  p1 = p1  p2 = p2  d1 = d1  d2 = d2
  Tasks = {g1, p1}
  Getters = {g1}
  Putters = {p1}
  Data = {d1, d2}
  NoData = NoData
  MaxElements = 2
  BlockGet = TRUE
  BlockPut = TRUE
  MinCounts = {1, 3}
  Timeouts = {"NO_WAIT", "FINITE", "FOREVER"}
  UnBlocks = TRUE
  Resets = {"idle"}
  MaxCalls = 5
SPECIFICATION FairSpec
INVARIANT UnBlockSeesWaiters
PROPERTIES IsBoundedFifo SleeperServed ForceConsumed
