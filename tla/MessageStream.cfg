\* Three requests, two io threads.
SPECIFICATION FairSpec
CONSTANTS
  i1 = i1
  i2 = i2
  b1 = b1
  b2 = b2
  IoThreads <- TwoThreads
  Buffers <- TwoBuffers
  MaxRequests = 3
INVARIANTS RequestsStayWhole AnswersMatchRequests MessagesDoNotMix NoRequestIsLost RequestsKeepTheirPlace
PROPERTIES SendKeepsItsBuffer ImplementsDialogue ImplementsWriteBuffers RequestsAreAnswered
\* The session ends.
CHECK_DEADLOCK FALSE
