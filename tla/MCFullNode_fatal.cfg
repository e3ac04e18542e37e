SPECIFICATION Spec
CONSTANTS
  self = self
  peer = peer
  user = user
  SELF = self
  GENESIS_HASH = genesis
  NIL = nil
  NAN = nan
  UNKNOWN = unknown
  COINBASE_REWARD = 2
  CONFIRMATION = 1
  Tx <- TxChain
  WireTxs <- WireOne
  WireCoinbase <- Coinbase12
  MaxBlocks = 5
INVARIANTS NeverFatal
CHECK_DEADLOCK FALSE
