------------------------------ MODULE Service ------------------------------
(***************************************************************************)
(* The event and query service (src/ts/src/service.ts) on top of the rollup *)
(* application: eventCallback applies the events of each accepted           *)
(* transaction to the mirrored collections and to the order books, one      *)
(* database call after the other; a crash can come between any two of them. *)
(*                                                                         *)
(* The server library executes the next transaction when the callback of    *)
(* the last one has ended, so the records an event carries are still the    *)
(* application's current ones when the event is applied, and an event is    *)
(* only the name of what to copy.  After a crash the library replays the    *)
(* transactions since the last bundle; the application is then where it     *)
(* was, and insertTxIntoCommit makes the callback skip all of them.         *)
(***************************************************************************)
EXTENDS Exchange, FiniteSets

CONSTANT MaxCrashes     \* bound on crashes

ASSUME ServiceAssumption == MaxCrashes \in Nat

VARIABLES
  serving,       \* the service runs; it does not when its start has thrown
  inbox,         \* the events of the last transaction not applied yet
  written,       \* the document of the first of them is written, and what the
                 \* callback does after that await is still to run
  db_tokens, db_markets, db_orders, db_trades,
  db_positions,  \* the mirrored collections
  msM,           \* market id -> its MatchingSystem
  listed,        \* history: per market, the orders put into that book
  crashes

db == <<db_tokens, db_markets, db_orders, db_trades, db_positions>>
service_vars == <<serving, inbox, written, db, msM, listed, crashes>>

OB == INSTANCE OrderBook

NoDoc == [kind |-> "no document"]
NoBook == [kind |-> "no matching system"]

MarketIds == 1 .. MaxMarkets
OrderIds == 1 .. MaxOrders

-----------------------------------------------------------------------------
(* Events, in the order in which the application emits them.               *)

PositionEvent(p, t) == [kind |-> "position", pid |-> p, token_idx |-> t]
TokenEvent(t) == [kind |-> "token", token_idx |-> t]
MarketEvent(m) == [kind |-> "market", market_id |-> m]
OrderEvent(i) == [kind |-> "order", order_id |-> i]
TradeEvent(k) == [kind |-> "trade", trade_id |-> k]

\* Not an event: what the callback does for the markets of the order events
\* when it has applied all events.
TryMatch(m) == [kind |-> "try_match", market_id |-> m]

\* The positions a transaction has loaded.  The code iterates over a HashMap;
\* one order stands for all: each event writes a document of its own, and no
\* property reads the positions between two of them.
PositionEvents(p, ts) ==
  LET n == Cardinality(ts)
      list == CHOOSE l \in [1 .. n -> ts] : \A t \in ts : \E k \in 1 .. n : l[k] = t
  IN  [k \in 1 .. n |-> PositionEvent(p, list[k])]

\* Mutant: the fee's position is forgotten.
FeeTokenOf_Never(o) == {}

\* A fee that was collected before is not loaded again.
FeeTokenOf(o) == IF o.lock_fee > 0 THEN {FeeToken} ELSE {}

\* A market order whose flag is neither buy nor sell loads the position of
\* token u32::MAX.  No token can have that index: the position is empty for
\* ever, and its event is left out.
PaidWith(type_, flag, m) ==
  IF type_ = TYPE_LIMIT \/ flag \in {FLAG_BUY, FLAG_SELL}
  THEN {PayToken(flag, markets[m])} ELSE {}

PlacedEvents(type_, p, m, flag, i) ==
  PositionEvents(p, PaidWith(type_, flag, m) \cup {FeeToken})
    \o <<OrderEvent(i), TryMatch(m)>>

CancelledEvents(i) ==
  LET o == orders[i]
  IN  <<OrderEvent(i)>> \o PositionEvents(o.pid, {OrderToken(o)} \cup FeeTokenOf(o))
        \o <<TryMatch(o.market_id)>>

\* Mutant: the MARKET event comes last.
TradedEvents_MarketLast(i, j) ==
  LET a == orders[i]
      b == orders[j]
      m == a.market_id
      pair == {markets[m].token_a, markets[m].token_b}
  IN  PositionEvents(a.pid, pair \cup FeeTokenOf(a))
        \o PositionEvents(b.pid, pair \cup FeeTokenOf(b))
        \o <<TradeEvent(Len(trades) + 1), OrderEvent(i), OrderEvent(j),
             TryMatch(m), MarketEvent(m)>>

\* Mutant: the buyer's order twice.
TradedEvents_BuyerTwice(i, j) ==
  LET a == orders[i]
      b == orders[j]
      m == a.market_id
      pair == {markets[m].token_a, markets[m].token_b}
  IN  PositionEvents(a.pid, pair \cup FeeTokenOf(a))
        \o PositionEvents(b.pid, pair \cup FeeTokenOf(b))
        \o <<MarketEvent(m), TradeEvent(Len(trades) + 1),
             OrderEvent(i), OrderEvent(i), TryMatch(m)>>

TradedEvents(i, j) ==
  LET a == orders[i]
      b == orders[j]
      m == a.market_id
      pair == {markets[m].token_a, markets[m].token_b}
  IN  PositionEvents(a.pid, pair \cup FeeTokenOf(a))
        \o PositionEvents(b.pid, pair \cup FeeTokenOf(b))
        \o <<MarketEvent(m), TradeEvent(Len(trades) + 1),
             OrderEvent(i), OrderEvent(j), TryMatch(m)>>

-----------------------------------------------------------------------------
(* Transactions, each with the events it hands to the callback.            *)

Emits(events) ==
  /\ serving
  /\ inbox = <<>>
  /\ inbox' = events
  /\ UNCHANGED <<serving, written, db, msM, listed, crashes>>

Listing ==
  \/ \E pid \in Pids, idx \in TokenIdxs, address \in Addresses :
       /\ AddToken(pid, idx, address) \/ UpdateToken(pid, idx, address)
       /\ Emits(<<TokenEvent(idx)>>)
  \/ \E pid \in Pids, token_a, token_b \in TokenIdxs, price \in Prices :
       AddMarket(pid, token_a, token_b, price)
         /\ Emits(<<MarketEvent(Len(markets) + 1)>>)
  \/ \E pid \in Pids, m \in MarketIds :
       CloseMarket(pid, m) /\ Emits(<<MarketEvent(m)>>)

\* Money moves without events.
Moving ==
  /\ \/ \E pid \in Pids : RegisterPlayer(pid)
     \/ \E signer, pid \in Pids, idx \in TokenIdxs, amount \in MoveAmounts :
          \/ Deposit(signer, pid, idx, amount)
          \/ Transfer(signer, pid, idx, amount)
          \/ Withdraw(pid, idx, amount)
     \/ FlushSettlement
  /\ Emits(<<>>)

Ordering ==
  \/ \E pid \in Pids, m \in MarketIds, flag \in Flags :
       \/ /\ \E price \in Prices, amount \in LimitAmounts :
               AddLimitOrder(pid, m, flag, price, amount)
          /\ Emits(PlacedEvents(TYPE_LIMIT, pid, m, flag, Len(orders) + 1))
       \/ /\ \E b_amount, a_amount \in MarketAmounts :
               AddMarketOrder(pid, m, flag, b_amount, a_amount)
          /\ Emits(PlacedEvents(TYPE_MARKET, pid, m, flag, Len(orders) + 1))
  \/ \E pid \in Pids, i \in OrderIds :
       CancelOrder(pid, i) /\ Emits(CancelledEvents(i))

Report(i, j, a_amount, b_amount) ==
  AddTrade(Admin, i, j, a_amount, b_amount) /\ Emits(TradedEvents(i, j))

-----------------------------------------------------------------------------
(* eventCallback: one database call after the other, each followed by what  *)
(* the callback does until the next one.  Where that is more than to go on  *)
(* to the next event it is a step of its own: while the callback awaits the *)
(* document a query can be answered, and the process can end.               *)

\* Order.fromEvent, and fromMongooseDoc: what a book keeps of an order.
BookOrder(i, o) ==
  [id |-> i, type_ |-> o.type_, status |-> o.status, pid |-> o.pid,
   flag |-> o.flag, price |-> o.price, b_token_amount |-> o.b_token_amount,
   a_token_amount |-> o.a_token_amount,
   already_deal_amount |-> o.already_deal_amount]

ApplyPosition(p, t) ==
  /\ db_positions' = [db_positions EXCEPT ![p][t] =
                        [balance |-> balance[p][t],
                         lock_balance |-> lock_balance[p][t]]]
  /\ UNCHANGED <<written, db_tokens, db_markets, db_orders, db_trades,
                 msM, listed>>
  /\ inbox' = Tail(inbox)

ApplyToken(t) ==
  /\ db_tokens' = [db_tokens EXCEPT ![t] = tokens[t]]
  /\ UNCHANGED <<written, db_markets, db_orders, db_trades, db_positions,
                 msM, listed>>
  /\ inbox' = Tail(inbox)

ApplyTrade(k) ==
  /\ db_trades' = [db_trades EXCEPT ![k] = trades[k]]
  /\ UNCHANGED <<written, db_tokens, db_markets, db_orders, db_positions,
                 msM, listed>>
  /\ inbox' = Tail(inbox)

StoreMarket(m) ==
  /\ ~written
  /\ db_markets' = [db_markets EXCEPT ![m] = markets[m]]
  /\ written' = TRUE
  /\ UNCHANGED <<inbox, db_tokens, db_orders, db_trades, db_positions,
                 msM, listed>>

\* Every MARKET event replaces the matching system by an empty one.
OpenBook(m) ==
  /\ written
  /\ msM' = [msM EXCEPT ![m] = OB!EmptyBook]
  /\ listed' = [listed EXCEPT ![m] = {}]
  /\ inbox' = Tail(inbox)
  /\ written' = FALSE
  /\ UNCHANGED db

StoreOrder(i) ==
  /\ ~written
  /\ db_orders' = [db_orders EXCEPT ![i] = orders[i]]
  /\ written' = TRUE
  /\ UNCHANGED <<inbox, db_tokens, db_markets, db_trades, db_positions,
                 msM, listed>>

\* The order is stored before its market is looked up: when the service does
\* not know the market it throws, and the rest of the events is lost.
ListOrder(i) ==
  LET m == orders[i].market_id
  IN  /\ written
      /\ IF msM[m] = NoBook
         THEN /\ inbox' = <<>>
              /\ UNCHANGED <<msM, listed>>
         ELSE /\ msM' = [msM EXCEPT ![m] =
                           OB!upsertOrder(@, BookOrder(i, orders[i]))]
              /\ listed' = [listed EXCEPT ![m] = @ \cup {i}]
              /\ inbox' = Tail(inbox)
      /\ written' = FALSE
      /\ UNCHANGED db

\* The trade that is found is only logged.  When the search throws, the lists
\* have been cleaned and nothing of the callback is left.
ApplyTryMatch(m) ==
  /\ msM' = [msM EXCEPT ![m] = OB!tryMatchOrder(@).book]
  /\ UNCHANGED <<written, db, listed>>
  /\ inbox' = Tail(inbox)

ApplyEvent ==
  /\ inbox # <<>>
  /\ LET e == Head(inbox)
     IN  \/ e.kind = "position" /\ ApplyPosition(e.pid, e.token_idx)
         \/ e.kind = "token" /\ ApplyToken(e.token_idx)
         \/ e.kind = "market" /\ StoreMarket(e.market_id)
         \/ e.kind = "market" /\ OpenBook(e.market_id)
         \/ e.kind = "order" /\ StoreOrder(e.order_id)
         \/ e.kind = "order" /\ ListOrder(e.order_id)
         \/ e.kind = "trade" /\ ApplyTrade(e.trade_id)
         \/ e.kind = "try_match" /\ ApplyTryMatch(e.market_id)
  /\ UNCHANGED <<vars, serving, crashes>>

-----------------------------------------------------------------------------
(* A crash, and the service's start.                                       *)

\* Mutant: partly filled orders are not loaded.
StoredLive_Untouched(m) ==
  {i \in OrderIds : /\ db_orders[i] # NoDoc
                    /\ db_orders[i].market_id = m
                    /\ db_orders[i].status = STATUS_LIVE}

StoredLive(m) ==
  {i \in OrderIds : /\ db_orders[i] # NoDoc
                    /\ db_orders[i].market_id = m
                    /\ is_live(db_orders[i])}

\* The database returns the orders in an order of its own.
Found(m) ==
  LET n == Cardinality(StoredLive(m))
  IN  {list \in [1 .. n -> StoredLive(m)] :
         \A i \in StoredLive(m) : \E k \in 1 .. n : list[k] = i}

\* upsertOrder for one after the other, then tryMatchOrder.
Loaded(list) ==
  LET loaded[n \in 0 .. Len(list)] ==
        IF n = 0 THEN OB!EmptyBook
        ELSE OB!upsertOrder(loaded[n - 1],
                            BookOrder(list[n], db_orders[list[n]]))
  IN  OB!tryMatchOrder(loaded[Len(list)])

\* tryMatchOrder throws for a market that the service knows.
StartThrows(found) ==
  \E m \in MarketIds :
    db_markets[m] # NoDoc /\ Loaded(found[m]).trade = OB!Thrown

\* What the callback had not applied is never applied; the books are built
\* from the mirrored collections, also for closed markets.  An exception in
\* one of them ends the start: no request is served, and all that can come
\* next is another start.
Restart ==
  /\ crashes < MaxCrashes
  /\ crashes' = crashes + 1
  /\ inbox' = <<>>
  /\ written' = FALSE
  /\ \E found \in [MarketIds -> UNION {Found(m) : m \in MarketIds}] :
       /\ \A m \in MarketIds : found[m] \in Found(m)
       /\ serving' = ~StartThrows(found)
       /\ msM' = [m \in MarketIds |->
                    IF db_markets[m] = NoDoc \/ StartThrows(found) THEN NoBook
                    ELSE Loaded(found[m]).book]
       /\ listed' = [m \in MarketIds |->
                       IF db_markets[m] = NoDoc \/ StartThrows(found) THEN {}
                       ELSE StoredLive(m)]
  /\ UNCHANGED <<vars, db>>

-----------------------------------------------------------------------------
EmptyService ==
  /\ serving = TRUE
  /\ inbox = <<>>
  /\ written = FALSE
  /\ db_tokens = [t \in TokenIdxs |-> NoToken]
  /\ db_markets = [m \in MarketIds |-> NoDoc]
  /\ db_orders = [i \in OrderIds |-> NoDoc]
  /\ db_trades = [k \in 1 .. MaxTrades |-> NoDoc]
  /\ db_positions = [p \in Pids |-> [t \in TokenIdxs |-> NoDoc]]
  /\ msM = [m \in MarketIds |-> NoBook]
  /\ listed = [m \in MarketIds |-> {}]
  /\ crashes = 0

ServiceInit == Init /\ EmptyService

\* The admin reports any trade he likes.
AnyTrade ==
  \E i, j \in OrderIds, a_amount, b_amount \in TradeAmounts :
    Report(i, j, a_amount, b_amount)

ServiceNext ==
  \/ Listing
  \/ Moving
  \/ Ordering
  \/ AnyTrade
  \/ ApplyEvent
  \/ Restart

ServiceSpec == ServiceInit /\ [][ServiceNext]_<<vars, service_vars>>

-----------------------------------------------------------------------------
(* The trade that the service logs for market m.                           *)

Proposed(m) ==
  IF msM[m] = NoBook THEN OB!NoTrade ELSE OB!tryMatchOrder(msM[m]).trade

\* An admin who reports what the service logs, and nothing else, for as long as
\* the service runs: the call that service.ts has commented out.
ProposedTrade ==
  \E m \in MarketIds :
    LET t == Proposed(m)
    IN  /\ t.kind = "trade"
        /\ Report(t.a_order_id, t.b_order_id,
                  t.a_actual_amount, t.b_actual_amount)

FollowNext ==
  \/ Listing
  \/ Moving
  \/ Ordering
  \/ ProposedTrade
  \/ ApplyEvent

FollowSpec == ServiceInit /\ [][FollowNext]_<<vars, service_vars>>

-----------------------------------------------------------------------------
(* What the service promises.                                              *)

Handled == inbox = <<>>

OnList(list) == {list[k] : k \in DOMAIN list}
InBook(b) == UNION {OnList(b[list]) : list \in DOMAIN b}

\* As long as the service does not crash, the mirrored markets, orders and
\* trades are the application's whenever the callback has ended.
MirrorIsCurrent ==
  crashes = 0 /\ Handled =>
    /\ \A t \in TokenIdxs :
         tokens[t] # MarketRecord => db_tokens[t] = tokens[t]
    /\ \A m \in MarketIds :
         db_markets[m] = IF m \in DOMAIN markets THEN markets[m] ELSE NoDoc
    /\ \A i \in OrderIds :
         db_orders[i] = IF i \in DOMAIN orders THEN orders[i] ELSE NoDoc
    /\ \A k \in 1 .. MaxTrades :
         db_trades[k] = IF k \in DOMAIN trades THEN trades[k] ELSE NoDoc

\* Deposits, transfers and withdrawals send no event, so that a mirrored
\* balance can be stale; the mirrored lock_balance never is.
LocksAreMirrored ==
  crashes = 0 /\ Handled =>
    \A p \in Pids, t \in TokenIdxs :
      lock_balance[p][t] =
        IF db_positions[p][t] = NoDoc THEN 0 ELSE db_positions[p][t].lock_balance

\* A book has no list for an order whose flag is neither buy nor sell.
HasSide(o) == o.flag \in {FLAG_BUY, FLAG_SELL}

\* A book holds exactly the live orders that were put into it since its market
\* had a MARKET event, each as the application has it.
BookIsExact ==
  crashes = 0 /\ Handled =>
    \A m \in MarketIds :
      msM[m] # NoBook =>
        InBook(OB!removeMatchOrder(msM[m])) =
          {o \in {BookOrder(i, orders[i]) : i \in listed[m]} :
             OB!isLive(o) /\ HasSide(o)}

\* The orders of a trade stay in the book when it has left something of them:
\* the MARKET event that empties the book comes before their ORDER events.
TradedOrdersStayListed ==
  crashes = 0 /\ Handled /\ trades # <<>> =>
    LET last == trades[Len(trades)]
        m == orders[last.a_order_id].market_id
    IN  ~is_close(markets[m]) =>
          {last.a_order_id, last.b_order_id} \subseteq listed[m]

\* The stored orders of market m that are neither filled nor cancelled.
StoredOpen(m) ==
  {i \in OrderIds : /\ db_orders[i] # NoDoc
                    /\ db_orders[i].market_id = m
                    /\ ~Finished(db_orders[i])}

\* A price of 0 and an order that names what it spends of token_a: how many
\* token_b that buys is a division by zero.
DividesByZero(limit, market) ==
  /\ is_limit_order(limit) /\ limit.price = 0
  /\ is_market_order(market) /\ market.a_token_amount # 0
  /\ limit.pid # market.pid
  /\ {limit.flag, market.flag} = {FLAG_BUY, FLAG_SELL}

\* A start brings back every live order that is stored, partly filled ones and
\* ones that a MARKET event had dropped from their book included; or it throws,
\* which it does only when two stored orders divide by zero.
RestartRestores ==
  [][crashes' > crashes =>
       IF serving'
       THEN \A m \in MarketIds :
              db_markets[m] # NoDoc =>
                InBook(msM'[m]) =
                  {o \in {BookOrder(i, db_orders[i]) : i \in StoredOpen(m)} :
                     OB!isLive(o) /\ HasSide(o)}
       ELSE \E m \in MarketIds : \E i, j \in StoredOpen(m) :
              /\ db_markets[m] # NoDoc
              /\ DividesByZero(db_orders[i], db_orders[j])
    ]_<<vars, service_vars>>

\* /data/pair: nothing for a market that the service does not know.
pair(m) == IF msM[m] = NoBook THEN {} ELSE InBook(OB!queryInfo(msM[m]))

\* The order whose document the callback has written and that it has not put
\* into its book yet.
AtHand ==
  {i \in OrderIds : written /\ Head(inbox) = OrderEvent(i)}

\* What a trade or a cancellation changes of an order in a book.
ExceptProgress(o) == [o EXCEPT !.status = STATUS_LIVE, !.already_deal_amount = 0]

\* At every moment, in the middle of a callback and after any crash too, an
\* order that /data/pair shows is the one in the orders collection: the two
\* copies that the service keeps of an order contradict each other only while
\* the callback has written the one and not yet the other, and then in nothing
\* but the order's progress.
PairShowsStoredOrders ==
  \A m \in MarketIds : \A o \in pair(m) :
    /\ db_orders[o.id] # NoDoc
    /\ LET stored == BookOrder(o.id, db_orders[o.id])
       IN  IF o.id \in AtHand THEN ExceptProgress(o) = ExceptProgress(stored)
                              ELSE o = stored

\* What the service logs between two transactions is a trade that the
\* application accepts, but for a price that both sides name, for market orders
\* and turned orders that cannot pay it or that the application takes for
\* finished, and for a market that it has lost.
Payable(o, amount) ==
  \/ is_limit_order(o) /\ ~Turned(o)
  \/ is_live(o) /\ o.lock_balance >= amount

ProposalsAreAccepted ==
  crashes = 0 /\ Handled =>
    \A m \in MarketIds :
      LET t == Proposed(m)
      IN  t.kind = "trade" =>
            LET a == orders[t.a_order_id]
                b == orders[t.b_order_id]
            IN  /\ ~(is_limit_order(a) /\ is_limit_order(b)
                       /\ a.price = b.price)
                /\ CanLoad(m)
                /\ Payable(a, t.a_actual_amount)
                /\ Payable(b, t.b_actual_amount)
                => CanTrade(a, b, t.a_actual_amount, t.b_actual_amount)

\* add_trade does not ask how much the buyer still wants; with the service's
\* trades no order is filled beyond its size.
NeverOverfilled ==
  \A i \in DOMAIN orders :
    LET o == orders[i]
    IN  o.already_deal_amount <= OB!get_amount(BookOrder(i, o))
=============================================================================
