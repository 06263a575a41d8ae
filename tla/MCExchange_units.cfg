\* The unit in which market orders record their progress, against README.md.
SPECIFICATION FundedSpec
CONSTANTS
  NumPids = 3
  Admin = 1
  TokenIdxs = {0, 1}
  Addresses = {x}
  NoToken = none
  MarketRecord = market
  FeeToken = 1
  Fee = 1
  Precision = 2
  MaxU64 = 31
  MaxU8 = 3
  Flags = {0, 1, 2}
  Prices = {2, 3}
  LimitAmounts = {2}
  MarketAmounts = {0, 2}
  TradeAmounts = {0, 1, 2, 3}
  MoveAmounts = {}
  MaxSupply = 31
  MaxMarkets = 1
  MaxOrders = 2
  MaxTrades = 3
  MaxCounter = 15
  Funds = 6
  TokenA = 0
  TokenB = 1
  LastPrice = 2
INVARIANTS DealIsWhatWasSpent
CHECK_DEADLOCK FALSE
