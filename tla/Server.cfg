\* Two calls of one client, one write buffer, one io thread, one retry thread.
SPECIFICATION ServerFairSpec
CONSTANTS
  k1 = k1
  k2 = k2
  s1 = s1
  d1 = d1
  i1 = i1
  tt = tt
  nobody = nobody
  c1 = c1
  Calls <- TwoCalls
  NumChannels = 1
  CallbackThreads <- OneDriver
  StrategyThreads <- OneStrategy
  TimeoutThread = tt
  Nobody = nobody
  EchoToneFlags <- Production
  UseStrategy = FALSE
  WarningElapse = 0
  SleepingElapse = 0
  TimeoutElapse = 1
  RetryDelay = 1
  RetryLimit = 0
  MaxTime = 1
  Clients <- OneClient
  Owner <- SameClient
  Buffers = 1
  IoThreads <- OneThread
  RetryThreads = 1
PROPERTY AnswersGetOut
\* A null m_client_socket ends the process.
CHECK_DEADLOCK FALSE
