SPECIFICATION FairSpec
CONSTANTS
  r1 = r1
  r2 = r2
  Requests = {r1, r2}
  Size = 3
  Strategies = {"round-robin", "random"}
  Retries = 2
  Cooldown = 2
  MaxClock = 4
INVARIANTS
  RoundRobinFair
  GaugeNotAbove
PROPERTY RequestEnds
CHECK_DEADLOCK FALSE
