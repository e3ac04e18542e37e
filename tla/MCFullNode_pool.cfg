SPECIFICATION Spec
CONSTANTS
  self = self
  peer = peer
  user = user
  SELF = self
  GENESIS_HASH = genesis
  NIL = nil
  NAN = nan
  UNKNOWN = unknown
  COINBASE_REWARD = 2
  CONFIRMATION = 2
  Tx <- TxChain
  WireTxs <- WireOne
  WireCoinbase <- Coinbase1
  MaxBlocks = 5
INVARIANTS TypeOK TreeSound OwnCoinbasesDistinct MinedBlockValid
PROPERTIES HistoryStable ImplementsBlockTree
CHECK_DEADLOCK FALSE
