\* One session, two io threads.
SPECIFICATION FairSpec
CONSTANTS
  c1 = c1
  c2 = c2
  i1 = i1
  i2 = i2
  w1 = w1
  none = none
  Clients <- OneClient
  IoThreads <- TwoThreads
  Callers <- OneCaller
  NoClient = none
  Buffers = 2
  TimeoutElapsed = 1
  CheckPeriod = 1
  MaxMessages = 1
INVARIANTS SessionIsRead SessionIsWatched TimerIsAlone SessionInv
PROPERTIES ImplementsWriteBuffers WriterGetsBuffer HungClientIsClosed SessionEnds
\* stop() may erase clients.end(), and all io threads may block.
CHECK_DEADLOCK FALSE
