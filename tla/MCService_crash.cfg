\* One crash between any two database calls, or between a document and its
\* book, with listings, deposits and a second market whose MARKET event may be
\* lost.  A limit order at price 0 against a market order that names what it
\* spends makes the start throw.
SPECIFICATION FundedServiceSpec
CONSTANTS
  NumPids = 3
  Admin = 1
  TokenIdxs = {0, 1}
  Addresses = {x}
  NoToken = none
  MarketRecord = market
  FeeToken = 0
  Fee = 1
  Precision = 2
  MaxU64 = 63
  MaxU8 = 3
  Flags = {0, 1}
  Prices = {0, 3}
  LimitAmounts = {2}
  MarketAmounts = {0, 1}
  TradeAmounts = {0, 1, 2}
  MoveAmounts = {1}
  MaxSupply = 63
  MaxMarkets = 2
  MaxOrders = 2
  MaxTrades = 1
  MaxCounter = 13
  Funds = 8
  TokenA = 0
  TokenB = 1
  LastPrice = 2
  MaxCrashes = 1
INVARIANTS MirrorIsCurrent PairShowsStoredOrders
PROPERTIES RestartRestores
CHECK_DEADLOCK FALSE
