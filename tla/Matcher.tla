------------------------------ MODULE Matcher ------------------------------
(***************************************************************************)
(* A MatchingSystem at work: the service hands it the orders of one market  *)
(* as the rollup application reports them, and asks it for the next trade.  *)
(* The methods are the operators of OrderBook; the actions are the calls    *)
(* that service.ts makes, fed with every order the application can report:  *)
(* new ones, ones that a trade has advanced, and cancelled ones.            *)
(***************************************************************************)
EXTENDS OrderBook

CONSTANTS
  Pids,                \* the owners of orders
  Prices,              \* limit prices
  LimitAmounts,        \* sizes of limit orders
  MarketAmounts,       \* sizes of market orders, in either token
  MaxOrders,           \* bound: orders in the market
  MaxOverfill          \* bound: how far trades overfill an order

ASSUME MatcherAssumption ==
  /\ Precision \in Nat \ {0}
  /\ Prices \subseteq Nat
  /\ LimitAmounts \subseteq Nat
  /\ MarketAmounts \subseteq Nat \ {0}
  /\ MaxOrders \in Nat
  /\ MaxOverfill \in Nat

VARIABLES
  orders,   \* the orders as last reported; ids are positions
  book,     \* the MatchingSystem
  trade     \* what the last tryMatchOrder returned; NoTrade once the book
            \* has changed

vars == <<orders, book, trade>>

Init == orders = <<>> /\ book = EmptyBook /\ trade = NoTrade

\* An ORDER event: the service stores the order and puts it into the book.
Report(o) ==
  /\ orders' = IF o.id \in DOMAIN orders THEN [orders EXCEPT ![o.id] = o]
                                         ELSE Append(orders, o)
  /\ book' = upsertOrder(book, o)
  /\ trade' = NoTrade

ReportNew(type_, flag, pid, price, b_amount, a_amount) ==
  /\ Len(orders) < MaxOrders
  /\ Report([id |-> Len(orders) + 1, type_ |-> type_, status |-> "live",
             pid |-> pid, flag |-> flag, price |-> price,
             b_token_amount |-> b_amount, a_token_amount |-> a_amount,
             already_deal_amount |-> 0])

\* The application still trades and cancels the order: it takes an order for
\* filled when a trade has brought it to its size in token_b, no other.
is_live(o) ==
  /\ ~isCancel(o)
  /\ o.already_deal_amount = 0 \/ o.already_deal_amount # o.b_token_amount

\* What an order has locked limits what it pays, not what it gets.
NamesProceeds(o) == IF o.flag = FLAG_BUY THEN ~SizedInA(o) ELSE SizedInA(o)

\* A trade has advanced order i.  add_trade does not ask what is left of it, so
\* that trades which the matcher did not propose can overfill an order whose
\* size says what it gets.
ReportDeal(i, amount) ==
  /\ is_live(orders[i])
  /\ amount <= Left(orders[i]) \/ NamesProceeds(orders[i])
  /\ Report([orders[i] EXCEPT !.already_deal_amount = @ + amount])

ReportCancel(i) ==
  /\ is_live(orders[i])
  /\ Report([orders[i] EXCEPT !.status = STATUS_CANCEL])

TryMatch ==
  LET result == tryMatchOrder(book)
  IN  /\ book' = result.book
      /\ trade' = result.trade
      /\ UNCHANGED orders

Next ==
  \/ \E flag \in {FLAG_BUY, FLAG_SELL}, pid \in Pids :
       \/ \E price \in Prices, amount \in LimitAmounts :
            ReportNew(TYPE_LIMIT, flag, pid, price, amount, 0)
       \/ \E amount \in MarketAmounts :
            \/ ReportNew(TYPE_MARKET, flag, pid, 0, amount, 0)
            \/ ReportNew(TYPE_MARKET, flag, pid, 0, 0, amount)
  \/ \E i \in DOMAIN orders :
       \/ \E amount \in 1 .. Left(orders[i]) + MaxOverfill : ReportDeal(i, amount)
       \/ ReportCancel(i)
  \/ TryMatch

Spec == Init /\ [][Next]_vars

-----------------------------------------------------------------------------
(* What the matcher promises, against the orders that were reported.       *)

Live == {o \in {orders[i] : i \in DOMAIN orders} : isLive(o)}
Buys == {o \in Live : o.flag = FLAG_BUY}
Sells == {o \in Live : o.flag = FLAG_SELL}

InBook(b) == UNION {OnList(b[list]) : list \in DOMAIN b}

\* The book holds every live order exactly as it was last reported, and each
\* once; tryMatchOrder leaves nothing else in it.
BookHoldsTheLiveOrders ==
  LET cleaned == removeMatchOrder(book)
  IN  /\ InBook(cleaned) = Live
      /\ \A list \in DOMAIN cleaned :
           \A k, l \in DOMAIN cleaned[list] :
             cleaned[list][k].id = cleaned[list][l].id => k = l

Traded == trade.kind = "trade"
Buyer == orders[trade.a_order_id]
Seller == orders[trade.b_order_id]

\* A buy order's counterparties, and a sell order's.
Sellers(buy) == {s \in Sells : canMatch(buy, s)}
Buyers(sell) == {b \in Buys : canMatch(b, sell)}

\* Price and time decide: the buyer in a trade of limit orders is the best
\* bid, and no seller he could trade with is before the seller; a market order
\* waits for no younger one unless trades have overfilled it, and gets the best
\* price a counterparty offers.
BestPriceThenOldest ==
  Traded =>
    /\ isLimitOrder(Buyer) /\ isLimitOrder(Seller) =>
         /\ ~\E b \in Buys : isLimitOrder(b) /\ BidBefore(b, Buyer)
         /\ ~\E s \in Sellers(Buyer) : isLimitOrder(s) /\ AskBefore(s, Seller)
    /\ isMarketOrder(Buyer) =>
         /\ ~\E b \in Buys : isMarketOrder(b) /\ b.id < Buyer.id /\ Left(b) > 0
                               /\ Sellers(b) # {}
         /\ ~\E s \in Sellers(Buyer) : AskBefore(s, Seller)
    /\ isMarketOrder(Seller) =>
         /\ ~\E s \in Sells : isMarketOrder(s) /\ s.id < Seller.id /\ Left(s) > 0
                                /\ Buyers(s) # {}
         /\ ~\E b \in Buyers(Seller) : BidBefore(b, Buyer)

\* No trade has overfilled the two orders.
WithinSize == Left(Buyer) > 0 /\ Left(Seller) > 0

\* What add_trade demands of a trade and what its parties asked for: two
\* players, limits kept, and no more than what is left of either order, unless
\* one of them is overfilled.
TradeIsWanted ==
  Traded =>
    /\ Buyer \in Buys /\ Seller \in Sells
    /\ Buyer.pid # Seller.pid
    /\ \A o \in {Buyer, Seller} :
         /\ isLimitOrder(o) =>
              IF o.flag = FLAG_BUY
              THEN MatchPrice(Buyer, Seller) <= o.price
              ELSE MatchPrice(Buyer, Seller) >= o.price
         /\ WithinSize =>
              IF SizedInA(o) THEN trade.a_actual_amount <= Left(o)
                             ELSE trade.b_actual_amount <= Left(o)

\* Each trade of two orders that none has overfilled finishes one of them, so
\* that the matcher never proposes two trades where one would do; of a size in
\* token_a less than one token_b can be left.
TradeFinishesAnOrder ==
  Traded /\ WithinSize =>
    \E o \in {Buyer, Seller} :
      IF SizedInA(o)
      THEN MatchPrice(Buyer, Seller) * (trade.b_actual_amount + 1)
             > Left(o) * Precision
      ELSE trade.b_actual_amount = Left(o)

\* tryMatchOrder comes back empty-handed only when no market order has a
\* counterparty and the best bid has none.
NothingToDoMeansNothingToMatch ==
  NextTrade(removeMatchOrder(book)) = NoTrade =>
    /\ \A b \in Buys :
         /\ isMarketOrder(b) => Sellers(b) = {}
         /\ isLimitOrder(b) =>
              /\ ~\E s \in Sellers(b) : isMarketOrder(s)
              /\ Sellers(b) # {} => 
                   \E c \in Buys : isLimitOrder(c) /\ BidBefore(c, b)

\* The comment in matchOrders, where the loop gives up: when the best bid is
\* lower than the ask that is left, no more matches are possible.
NoMatchIsLeftBehind ==
  LET cleaned == removeMatchOrder(book)
      gives_up == /\ Stops(cleaned) # {}
                  /\ cleaned.bids[1].price < cleaned.asks[FirstStop(cleaned)].price
  IN  gives_up => ~\E b \in OnList(cleaned.bids), s \in OnList(cleaned.asks) :
                     canMatch(b, s)
=============================================================================
