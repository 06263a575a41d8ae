\* Market orders sized in either token against limit orders, with the fee paid
\* in token_b.  Flag 2 is neither buy nor sell; flag 5 is neither until it is
\* stored, as 1 (buy).  The supply of a token exceeds u64: credits overflow,
\* refunds are dropped.
SPECIFICATION FundedSpec
CONSTANTS
  NumPids = 3
  Admin = 1
  TokenIdxs = {0, 1}
  Addresses = {x}
  NoToken = none
  MarketRecord = market
  FeeToken = 1
  Fee = 1
  Precision = 2
  MaxU64 = 7
  MaxU8 = 3
  Flags = {0, 1, 2, 5}
  Prices = {3}
  LimitAmounts = {2}
  MarketAmounts = {0, 3}
  TradeAmounts = {0, 1, 2, 3}
  MoveAmounts = {4}
  MaxSupply = 20
  MaxMarkets = 1
  MaxOrders = 2
  MaxTrades = 3
  MaxCounter = 15
  Funds = 6
  TokenA = 0
  TokenB = 1
  LastPrice = 2
INVARIANTS TypeOK LockAccounting NoMint DealMatchesTrades NothingStranded
CHECK_DEADLOCK FALSE
