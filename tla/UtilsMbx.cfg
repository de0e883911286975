\* Two callers compete for one acknowledge queue, two messages and two
\* one-place mailboxes, whose tasks may wait for a command or be told to exit.
CONSTANTS
  c1 = c1  c2 = c2  s1 = s1  s2 = s2  m1 = m1  m2 = m2  k1 = k1
  Callers = {c1, c2}
  Servers = {s1, s2}
  Msgs = {m1, m2}
  AckQues = {k1}
  RecvLen = 1
  AckLen = 2
  None = None
  MaxCalls = 3
  Waits = TRUE
  Deletes = TRUE
SPECIFICATION FairSpec
INVARIANTS MessagesOK AckIsExpected
PROPERTIES CallReturns PoolRefills
\* Callers of a task that has exited wait for ever.
CHECK_DEADLOCK FALSE
