\* Two sessions, one io thread.
SPECIFICATION Spec
CONSTANTS
  c1 = c1
  c2 = c2
  i1 = i1
  i2 = i2
  w1 = w1
  none = none
  Clients <- TwoClients
  IoThreads <- OneThread
  Callers <- OneCaller
  NoClient = none
  Buffers = 1
  TimeoutElapsed = 1
  CheckPeriod = 1
  MaxMessages = 1
SYMMETRY ClientSymmetry
INVARIANTS EraseIsSafe StartedIsRegistered
PROPERTIES BlockedForGood
\* stop() may erase clients.end(), and all io threads may block.
CHECK_DEADLOCK FALSE
