\* The status and freeNum nodes of one server.
SPECIFICATION FairSpec
CONSTANTS
  Channels = 2
INVARIANTS TypeOK ClosedWithoutTimer
PROPERTIES StatusIsRestored FreeNumFollows
\* The process ends.
CHECK_DEADLOCK FALSE
