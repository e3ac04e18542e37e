SPECIFICATION Spec
CONSTANTS
  self = self
  peer = peer
  user = user
  SELF = self
  GENESIS_HASH = genesis
  NIL = nil
  NAN = nan
  UNKNOWN = unknown
  COINBASE_REWARD = 2
  CONFIRMATION = 1
  Tx <- NoTx
  WireTxs <- WireEmpty
  WireCoinbase <- Coinbase123
  MaxBlocks = 6
PROPERTIES ConfirmedNeverReverted
CHECK_DEADLOCK FALSE
