\* Limit orders of two traders, their partial fills and cancellations, and the
\* market closing or being overwritten by a token under them.  Flag 5 is stored
\* as 1 (buy), after the order has locked what a seller locks.
SPECIFICATION FundedSpec
CONSTANTS
  NumPids = 3
  Admin = 1
  TokenIdxs = {0, 1}
  Addresses = {x}
  NoToken = none
  MarketRecord = market
  FeeToken = 0
  Fee = 1
  Precision = 2
  MaxU64 = 63
  MaxU8 = 3
  Flags = {0, 1, 5}
  Prices = {1, 3}
  LimitAmounts = {2}
  MarketAmounts = {}
  TradeAmounts = {0, 1, 2, 3}
  MoveAmounts = {}
  MaxSupply = 63
  MaxMarkets = 1
  MaxOrders = 3
  MaxTrades = 3
  MaxCounter = 17
  Funds = 8
  TokenA = 0
  TokenB = 1
  LastPrice = 2
INVARIANTS Conservation FeeOncePerOrder LimitBudget LimitRespected CancelNeverFails
PROPERTIES AvailableNeedsSignature TerminalIsFinal LostWithItsMarket ActsAsABank
CHECK_DEADLOCK FALSE
