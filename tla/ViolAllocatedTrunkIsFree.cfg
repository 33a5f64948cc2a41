\* Expected to be violated.
SPECIFICATION Spec
CONSTANTS
  k1 = k1
  k2 = k2
  k3 = k3
  s1 = s1
  s2 = s2
  d1 = d1
  tt = tt
  nobody = nobody
  Calls <- TwoCalls
  NumChannels = 1
  CallbackThreads <- OneDriver
  StrategyThreads <- OneStrategy
  TimeoutThread = tt
  Nobody = nobody
  EchoToneFlags <- Production
  UseStrategy = TRUE
  WarningElapse = 0
  SleepingElapse = 1
  TimeoutElapse = 1
  RetryDelay = 1
  RetryLimit = 1
  MaxTime = 1
SYMMETRY CallSymmetry
INVARIANT AllocatedTrunkIsFree
\* A null m_client_socket ends the process.
CHECK_DEADLOCK FALSE
