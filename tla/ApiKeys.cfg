SPECIFICATION FairSpec
CONSTANTS
  k1 = k1
  r1 = r1
  r2 = r2
  o1 = o1
  o2 = o2
  Keys = {k1}
  Requests = {r1, r2}
  Operators = {o1, o2}
  Nobody = Nobody
  WithRedis = {TRUE, FALSE}
  Reliable = FALSE
PROPERTIES
  NoDirectReactivation
  CreatedKeyUsable
CHECK_DEADLOCK FALSE
