SPECIFICATION FairSpec
CONSTANTS
  redis = redis
  toolAbort = toolAbort
  httpServer = httpServer
  scheduler = scheduler
  pool = pool
  idle = idle
  busy = busy
  j1 = j1
  j2 = j2
  sigterm = sigterm
  sigint = sigint
  Boot <- ServerBoot
  Front = httpServer
  Teller = toolAbort
  Patience <- QuitFallback
  Resources = {redis, pool}
  Signals = {sigterm, sigint}
  Jobs = {j1, j2}
  Idle = idle
  Busy = busy
  Total = 7
  MinShare = 2
  Floor = 3
INVARIANTS
  NoHandlerSkipped
  EagerOutlivesAwaited
  WithinBudget
PROPERTY ShutdownEnds
CHECK_DEADLOCK FALSE
