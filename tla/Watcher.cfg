SPECIFICATION WatcherFairSpec
CONSTANTS
  Keep = 2
  Cooldown = 3
  MaxFiles = 5
INVARIANTS ReportsGenuine
PROPERTIES  PruningCatchesUp
CHECK_DEADLOCK FALSE
