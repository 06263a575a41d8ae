\* Registration, listings, deposits, transfers, withdrawals and flushes from
\* the empty store.
SPECIFICATION SetupSpec
CONSTANTS
  NumPids = 2
  Admin = 1
  TokenIdxs = {0, 1}
  Addresses = {x, y}
  NoToken = none
  MarketRecord = market
  FeeToken = 0
  Fee = 1
  Precision = 2
  MaxU64 = 7
  MaxU8 = 3
  Flags = {0, 1}
  Prices = {1}
  LimitAmounts = {2}
  MarketAmounts = {}
  TradeAmounts = {}
  MoveAmounts = {3}
  MaxSupply = 6
  MaxMarkets = 1
  MaxOrders = 0
  MaxTrades = 0
  MaxCounter = 8
  Funds = 0
  TokenA = 0
  TokenB = 1
  LastPrice = 1
INVARIANTS Solvent
PROPERTIES OneSigner ActsAsABank
\* Only the bound on transactions stops the run; the rollup idles when no
\* transaction comes.
CHECK_DEADLOCK FALSE
