SPECIFICATION FairSpec
CONSTANTS
  news = news
  prune = prune
  Workers = {news, prune}
  StartupWorkers = {news}
  MaxRuns = 2
  MaxSkips = 1
INVARIANTS
  OnlyAbandonedHandlersOverlap
PROPERTIES
  ImplementsSlots
  SlotFreed
CHECK_DEADLOCK FALSE
