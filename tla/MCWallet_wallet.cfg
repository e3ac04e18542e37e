SPECIFICATION WalletFairSpec
CONSTANTS
  self = self
  user = user
  shop = shop
  friend = friend
  SELF = self
  GENESIS_HASH = genesis
  NIL = nil
  NAN = nan
  UNKNOWN = unknown
  COINBASE_REWARD = 2
  CONFIRMATION = 1
  Tx <- NoTx
  WireTxs <- WireEmpty
  WireCoinbase <- Coinbase1
  MaxBlocks = 4
  Wallets <- TheUser
  Receivers <- AName
  Named <- ShopNamed
  Hex <- Keys
  Amounts <- OneOrTwo
  MaxTransfers = 2
INVARIANTS WalletTypeOK PaysOnce MoneyKept
PROPERTIES PoolSelfCleans
CHECK_DEADLOCK FALSE
