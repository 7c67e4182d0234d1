SPECIFICATION Spec
CONSTANTS
  r1 = r1
  r2 = r2
  weather = weather
  search = search
  Requests = {r1, r2}
  Tools = {weather, search}
  LimitedTools = {search}
  Limit <- MCLimit
  MaxCalls = 3
INVARIANT EveryRequestAnswered
CHECK_DEADLOCK FALSE
