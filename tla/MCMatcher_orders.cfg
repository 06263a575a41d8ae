\* Three orders of two players: limit orders and market orders of either size,
\* partly filled, overfilled and cancelled.
SPECIFICATION Spec
CONSTANTS
  Precision = 2
  Pids = {p, q}
  Prices = {0, 3}
  LimitAmounts = {2}
  MarketAmounts = {2}
  MaxOrders = 3
  MaxOverfill = 1
SYMMETRY Owners
INVARIANTS BookHoldsTheLiveOrders BestPriceThenOldest TradeIsWanted
  TradeFinishesAnOrder NothingToDoMeansNothingToMatch
