SPECIFICATION Spec
CONSTANTS
  p1 = p1
  p2 = p2
  NOBODY = nobody
  Peers <- OnePeer
  Block <- TwoBranches
  BATCH = 3
  CONFIRMATION = 1
INVARIANTS CaughtUp NoOrphans RoundsGoUp
PROPERTY ImplementsBlockTree
CHECK_DEADLOCK FALSE
