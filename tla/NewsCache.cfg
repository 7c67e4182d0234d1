SPECIFICATION NewsSpec
CONSTANTS
  news = news
  News = news
  Workers = {news}
  StartupWorkers = {news}
  MaxRuns = 2
  MaxSkips = 0
  Sources = 3
  PerSource = 1
  Loops = 2
  Earlier <- MCEarlier
INVARIANTS
  NewsTypeOK
  MixedOnlyAfterTimeout
  NoWaitCycle
PROPERTIES
  NeverBlanked
  WholeRefreshes
  AbortStopsCollecting
CHECK_DEADLOCK FALSE
