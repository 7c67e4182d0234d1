SPECIFICATION FairSpec
CONSTANTS
  r1 = r1
  r2 = r2
  alice = alice
  bob = bob
  s1 = s1
  s2 = s2
  s3 = s3
  Requests = {r1, r2}
  Keys = {alice, bob}
  Sids = {s1, s2, s3}
  NoKey = NoKey
  NoSid = NoSid
  PerKeyCap = 1
  TotalCap = 2
  IdleTicks = 1
INVARIANTS
  GaugeMatches
  OwnSessionOnly
  KeyOvershoot
  NoOrphan
PROPERTY AbandonedEvicted
CHECK_DEADLOCK FALSE
