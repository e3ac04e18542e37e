SPECIFICATION Spec
CONSTANTS
  self = self
  peer = peer
  user = user
  SELF = self
  GENESIS_HASH = genesis
  NIL = nil
  NAN = nan
  UNKNOWN = unknown
  COINBASE_REWARD = 2
  CONFIRMATION = 2
  Tx <- NoTx
  WireTxs <- WireAll
  WireCoinbase <- CoinbaseAny
  MaxBlocks = 4
INVARIANTS LedgerIsUnspentSet BranchesSpendOnce NoInflation
CHECK_DEADLOCK FALSE
