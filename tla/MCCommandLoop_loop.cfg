SPECIFICATION FairSpec
CONSTANTS
  h1 = h1
  h2 = h2
  s1 = s1
  s2 = s2
  Handlers <- TwoHandlers
  Syncers <- TwoSyncers
  UserCommands <- MiningOrLists
  CONFIRMATION = 2
  REMINE_ON_TAIL_CHANGE = TRUE
  MaxCommands = 3
  MaxTail = 1
INVARIANTS TypeOK OneMiner
PROPERTIES StopNotLost StopStops StaleIsTold StaleTailAbandoned ThresholdAnswered
CHECK_DEADLOCK FALSE
