SPECIFICATION Spec
CONSTANTS
  x1 = x1
  x2 = x2
  Window = 3
  Limits = {1, 2}
  Draws = {x1, x2}
  MaxClock = 5
  MaxPipeline = 2
  MaxLag = 1
  MaxDrops = 1
SYMMETRY Symmetric
INVARIANTS
  MembersPerWindow
  RetryAfterHonest
PROPERTY RejectedOnlyWhenFull
CHECK_DEADLOCK FALSE
