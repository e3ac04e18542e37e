SPECIFICATION FairSpec
CONSTANTS
  h1 = h1
  h2 = h2
  s1 = s1
  s2 = s2
  Handlers <- OneHandler
  Syncers <- OneSyncer
  UserCommands <- Lists
  CONFIRMATION = 1
  REMINE_ON_TAIL_CHANGE = TRUE
  MaxCommands = 1
  MaxTail = 0
PROPERTY LoopComesBack
CHECK_DEADLOCK FALSE
