SPECIFICATION FairSpec
CONSTANTS
  p1 = p1
  p2 = p2
  NOBODY = nobody
  Peers <- TwoPeers
  Block <- Fork
  BATCH = 1
  CONFIRMATION = 0
INVARIANTS TypeOK BatchFollows
PROPERTY SyncReturns
CHECK_DEADLOCK FALSE
