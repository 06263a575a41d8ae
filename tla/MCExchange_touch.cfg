\* Limit orders at the same price, against the error text of add_trade.
SPECIFICATION FundedSpec
CONSTANTS
  NumPids = 3
  Admin = 1
  TokenIdxs = {0, 1}
  Addresses = {x}
  NoToken = none
  MarketRecord = market
  FeeToken = 0
  Fee = 1
  Precision = 2
  MaxU64 = 63
  MaxU8 = 3
  Flags = {0, 1}
  Prices = {2, 3}
  LimitAmounts = {1, 3}
  MarketAmounts = {}
  TradeAmounts = {0, 1, 2, 3}
  MoveAmounts = {}
  MaxSupply = 63
  MaxMarkets = 1
  MaxOrders = 3
  MaxTrades = 3
  MaxCounter = 14
  Funds = 8
  TokenA = 0
  TokenB = 1
  LastPrice = 2
INVARIANTS TouchingPricesTrade
CHECK_DEADLOCK FALSE
