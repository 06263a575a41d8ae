\* Limit orders of two players, against the comment in matchOrders.
SPECIFICATION Spec
CONSTANTS
  Precision = 1
  Pids = {p, q}
  Prices = {1, 2, 3}
  LimitAmounts = {1}
  MarketAmounts = {}
  MaxOrders = 4
  MaxOverfill = 0
SYMMETRY Owners
INVARIANTS NoMatchIsLeftBehind
