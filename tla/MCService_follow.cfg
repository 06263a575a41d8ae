\* The admin reports what the service logs.  Flag 5 is stored as 1 (buy), after
\* the order has locked what a seller locks.
SPECIFICATION FundedFollowSpec
CONSTANTS
  NumPids = 3
  Admin = 1
  TokenIdxs = {0, 1}
  Addresses = {x}
  NoToken = none
  MarketRecord = market
  FeeToken = 0
  Fee = 1
  Precision = 2
  MaxU64 = 63
  MaxU8 = 3
  Flags = {0, 1, 5}
  Prices = {1, 3}
  LimitAmounts = {2}
  MarketAmounts = {0, 1}
  TradeAmounts <- U64
  MoveAmounts = {}
  MaxSupply = 63
  MaxMarkets = 1
  MaxOrders = 3
  MaxTrades = 3
  MaxCounter = 14
  Funds = 8
  TokenA = 0
  TokenB = 1
  LastPrice = 1
  MaxCrashes = 0
INVARIANTS LocksAreMirrored BookIsExact TradedOrdersStayListed
  ProposalsAreAccepted NeverOverfilled
CHECK_DEADLOCK FALSE
