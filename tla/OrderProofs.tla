----------------------------- MODULE OrderProofs -----------------------------
(***************************************************************************)
(* Locks, money and orders for every value of the constants of Exchange:    *)
(* what a position keeps locked is what its owner's orders say they lock,   *)
(* so that Exchange implements Bank and keeps what a bank keeps; what no    *)
(* step may do to a nonce or an order, what an order's trades add up to,    *)
(* what its lock pays for, and that each fee is collected once; and what    *)
(* owners can rely on: an available balance falls only with its owner's     *)
(* signature, what orders lock can be taken back, and deposits cover what   *)
(* withdrawals pay.                                                         *)
(***************************************************************************)
EXTENDS ExchangeProofs

-----------------------------------------------------------------------------
(* What orders lock.                                                       *)

\* OrderLock and LocksOf with the books as parameters: m is the market of
\* order o, os and ms are the stored orders and markets.
LockTerm(o, m, p, t) ==
  IF o.pid # p THEN 0
  ELSE (IF PayToken(o.flag, m) = t THEN o.lock_balance ELSE 0)
       + (IF t = FeeToken /\ o.status # STATUS_CANCEL THEN o.lock_fee ELSE 0)

LocksIn(os, ms, p, t) ==
  SumTo([i \in DOMAIN os |-> LockTerm(os[i], ms[os[i].market_id], p, t)],
        Len(os))

HasAmounts(o) == o.lock_balance \in Nat /\ o.lock_fee \in Nat

Book(os) ==
  /\ Len(os) \in Nat
  /\ DOMAIN os = 1 .. Len(os)
  /\ \A i \in DOMAIN os : HasAmounts(os[i])

SameTokens(ms, ms2) ==
  \A i \in DOMAIN ms :
    ms2[i].token_a = ms[i].token_a /\ ms2[i].token_b = ms[i].token_b

-----------------------------------------------------------------------------
(* Sums over the orders.                                                   *)

\* What an order locks depends on the tokens of its market only.
LEMMA LockTermType ==
  ASSUME NEW o, HasAmounts(o), NEW m, NEW p, NEW t
  PROVE  LockTerm(o, m, p, t) \in Nat
BY DEF HasAmounts, LockTerm

LEMMA LockTermTokens ==
  ASSUME NEW o, NEW m, NEW m2, m2.token_a = m.token_a, m2.token_b = m.token_b,
         NEW p, NEW t
  PROVE  LockTerm(o, m2, p, t) = LockTerm(o, m, p, t)
BY DEF LockTerm, PayToken

LEMMA LocksInSame ==
  ASSUME NEW os, Book(os), NEW ms, NEW ms2, SameTokens(ms, ms2),
         \A i \in DOMAIN os : os[i].market_id \in DOMAIN ms,
         NEW p, NEW t
  PROVE  LocksIn(os, ms2, p, t) = LocksIn(os, ms, p, t)
<1> DEFINE f == [i \in DOMAIN os |-> LockTerm(os[i], ms[os[i].market_id], p, t)]
           g == [i \in DOMAIN os |-> LockTerm(os[i], ms2[os[i].market_id], p, t)]
<1>1. \A i \in 1 .. Len(os) : f[i] = g[i]
  BY LockTermTokens DEF SameTokens, Book
<1>2. Len(os) \in Nat
  BY DEF Book
<1> HIDE DEF f, g
<1>3. SumTo(f, Len(os)) = SumTo(g, Len(os))
  BY <1>1, <1>2, SumToSameTerms
<1> QED
  BY <1>3 DEF LocksIn, f, g

LEMMA LocksInAppend ==
  ASSUME NEW os, Book(os), NEW os2, Book(os2), Len(os2) = Len(os) + 1,
         \A i \in DOMAIN os : os2[i] = os[i], NEW ms, NEW p, NEW t
  PROVE  LocksIn(os2, ms, p, t) =
           LocksIn(os, ms, p, t)
             + LockTerm(os2[Len(os2)], ms[os2[Len(os2)].market_id], p, t)
<1> DEFINE n == Len(os)
           f == [i \in DOMAIN os |-> LockTerm(os[i], ms[os[i].market_id], p, t)]
           g == [i \in DOMAIN os2 |->
                   LockTerm(os2[i], ms[os2[i].market_id], p, t)]
<1>1. n \in Nat /\ DOMAIN os = 1 .. n /\ DOMAIN os2 = 1 .. n + 1
  BY DEF Book
<1>2. \A i \in 1 .. n : f[i] = g[i]
  BY <1>1
<1>3. g[n + 1] = LockTerm(os2[n + 1], ms[os2[n + 1].market_id], p, t)
  BY <1>1
<1> HIDE DEF f, g
<1>4. SumTo(g, n + 1) = SumTo(f, n) + g[n + 1]
  BY <1>1, <1>2, SumToAppend
<1> QED
  BY <1>3, <1>4 DEF LocksIn, f, g

LEMMA LocksInUpdate ==
  ASSUME NEW os, Book(os), NEW os2, Book(os2), Len(os2) = Len(os),
         NEW k \in DOMAIN os,
         \A i \in DOMAIN os : i # k => os2[i] = os[i],
         NEW ms, NEW p, NEW t
  PROVE  LocksIn(os2, ms, p, t) =
           LocksIn(os, ms, p, t)
             - LockTerm(os[k], ms[os[k].market_id], p, t)
             + LockTerm(os2[k], ms[os2[k].market_id], p, t)
<1> DEFINE n == Len(os)
           f == [i \in DOMAIN os |-> LockTerm(os[i], ms[os[i].market_id], p, t)]
           g == [i \in DOMAIN os2 |->
                   LockTerm(os2[i], ms[os2[i].market_id], p, t)]
<1>1. n \in Nat /\ DOMAIN os = 1 .. n /\ DOMAIN os2 = 1 .. n /\ k \in 1 .. n
  BY DEF Book
<1>2. \A i \in 1 .. n : f[i] \in Int /\ g[i] \in Int
  BY <1>1, LockTermType DEF Book
<1>3. \A i \in 1 .. n : i # k => g[i] = f[i]
  BY <1>1
<1>4. /\ f[k] = LockTerm(os[k], ms[os[k].market_id], p, t)
      /\ g[k] = LockTerm(os2[k], ms[os2[k].market_id], p, t)
  BY <1>1
<1> HIDE DEF f, g
<1>5. SumTo(g, n) = SumTo(f, n) - f[k] + g[k]
  BY <1>1, <1>2, <1>3, SumToUpdate
<1> QED
  BY <1>4, <1>5 DEF LocksIn, f, g

\* os2 is os with two different orders replaced.
Replaced(os, os2, j, k) ==
  /\ Book(os) /\ Book(os2) /\ Len(os2) = Len(os)
  /\ j \in DOMAIN os /\ k \in DOMAIN os /\ j # k
  /\ \A i \in DOMAIN os : i # j /\ i # k => os2[i] = os[i]

LEMMA LocksInUpdateTwo ==
  ASSUME NEW os, NEW os2, NEW j, NEW k, Replaced(os, os2, j, k),
         NEW ms, NEW p, NEW t
  PROVE  LocksIn(os2, ms, p, t) =
           LocksIn(os, ms, p, t)
             - LockTerm(os[j], ms[os[j].market_id], p, t)
             + LockTerm(os2[j], ms[os2[j].market_id], p, t)
             - LockTerm(os[k], ms[os[k].market_id], p, t)
             + LockTerm(os2[k], ms[os2[k].market_id], p, t)
<1> DEFINE n == Len(os)
           f == [i \in DOMAIN os |-> LockTerm(os[i], ms[os[i].market_id], p, t)]
           g == [i \in DOMAIN os2 |->
                   LockTerm(os2[i], ms[os2[i].market_id], p, t)]
<1>1. /\ n \in Nat /\ DOMAIN os = 1 .. n /\ DOMAIN os2 = 1 .. n
      /\ j \in 1 .. n /\ k \in 1 .. n /\ j # k /\ Len(os2) = n
  BY DEF Book, Replaced
<1>2. \A i \in 1 .. n : f[i] \in Int /\ g[i] \in Int
  BY <1>1, LockTermType DEF Book, Replaced
<1>3. \A i \in 1 .. n : i # j /\ i # k => g[i] = f[i]
  BY <1>1 DEF Replaced
<1>4. /\ f[k] = LockTerm(os[k], ms[os[k].market_id], p, t)
      /\ g[k] = LockTerm(os2[k], ms[os2[k].market_id], p, t)
      /\ f[j] = LockTerm(os[j], ms[os[j].market_id], p, t)
      /\ g[j] = LockTerm(os2[j], ms[os2[j].market_id], p, t)
  BY <1>1
<1> HIDE DEF f, g
<1>5. SumTo(g, n) = SumTo(f, n) - f[j] + g[j] - f[k] + g[k]
  BY <1>1, <1>2, <1>3, SumToUpdateTwo
<1> QED
  BY <1>1, <1>4, <1>5 DEF LocksIn, f, g

\* One order's share is at most the whole.
LEMMA LockTermBound ==
  ASSUME NEW os, Book(os), NEW k \in DOMAIN os, NEW ms, NEW p, NEW t
  PROVE  LockTerm(os[k], ms[os[k].market_id], p, t) <= LocksIn(os, ms, p, t)
<1> DEFINE n == Len(os)
           f == [i \in DOMAIN os |-> LockTerm(os[i], ms[os[i].market_id], p, t)]
<1>1. n \in Nat /\ DOMAIN os = 1 .. n /\ k \in 1 .. n
  BY DEF Book
<1>2. \A i \in 1 .. n : f[i] \in Nat
  BY <1>1, LockTermType DEF Book
<1>3. f[k] = LockTerm(os[k], ms[os[k].market_id], p, t)
  BY <1>1
<1> HIDE DEF f
<1>4. f[k] <= SumTo(f, n)
  BY <1>1, <1>2, SumToTerm
<1> QED
  BY <1>3, <1>4 DEF LocksIn, f
-----------------------------------------------------------------------------
(* The state before and after a step.                                      *)

\* The sums above are those of LockAccounting, in both states of a step.
LEMMA LocksOfIs ==
  ASSUME NEW p, NEW t
  PROVE  /\ LocksOf(p, t) = LocksIn(orders, markets, p, t)
         /\ LocksOf(p, t)' = LocksIn(orders', markets', p, t)
BY DEF LocksOf, LocksIn, OrderLock, LockTerm, OrderToken

LEMMA BookIs ==
  ASSUME NEW os, NEW S, os \in Seq(S), \A o \in S : HasAmounts(o)
  PROVE  Book(os)
BY LenProperties, ElementOfSeq DEF Book

LEMMA BooksOfStep ==
  ASSUME TypeOK, TypeOK'
  PROVE  /\ Book(orders) /\ Book(orders')
         /\ \A i \in DOMAIN orders : orders[i].market_id \in DOMAIN markets
<1>1. /\ orders \in Seq(OrderType) /\ orders' \in Seq(OrderType')
  BY DEF TypeOK
<1>2. /\ \A o \in OrderType : HasAmounts(o)
      /\ \A o \in OrderType' : HasAmounts(o)
  BY DEF OrderType, HasAmounts, U64
<1>3. Book(orders) /\ Book(orders')
  BY <1>1, <1>2, BookIs
<1>4. \A i \in DOMAIN orders : orders[i].market_id \in DOMAIN markets
  BY OrderAt DEF OrderType
<1> QED
  BY <1>3, <1>4

LEMMA LockPositions ==
  ASSUME TypeOK
  PROVE  /\ lock_balance \in [Pids -> [TokenIdxs -> Int]]
         /\ \A p \in Pids, t \in TokenIdxs : lock_balance[p][t] \in Nat
BY DEF TypeOK, AccountsType, U64

-----------------------------------------------------------------------------
(* Careful players.                                                        *)

\* What a trade changes about the two orders.
LEMMA TradedOrders ==
  ASSUME TypeOK, TypeOK', NEW signer, NEW a_id, NEW b_id,
         NEW a_amount, NEW b_amount,
         AddTrade(signer, a_id, b_id, a_amount, b_amount)
  PROVE  LET a == orders[a_id]
             b == orders[b_id]
             ea == Executed(a, a_amount, a_amount, b_amount)
         IN  /\ a_id \in DOMAIN orders /\ b_id \in DOMAIN orders /\ a_id # b_id
             /\ Len(orders') = Len(orders)
             /\ \A i \in DOMAIN orders :
                  i # a_id /\ i # b_id => orders'[i] = orders[i]
             /\ orders'[a_id] = Released(ea)
             /\ orders'[b_id] = Executed(b, b_amount, a_amount, b_amount)
<1> DEFINE a == orders[a_id]
           b == orders[b_id]
           ea == Executed(a, a_amount, a_amount, b_amount)
           eb == Executed(b, b_amount, a_amount, b_amount)
           one == [orders EXCEPT ![a_id] = Released(ea)]
<1>1. a_id \in DOMAIN orders /\ b_id \in DOMAIN orders
  BY DEF AddTrade
<1>2. a_id # b_id
  BY DEF AddTrade, CanTrade
<1>3. orders' = [one EXCEPT ![b_id] = eb]
  BY TradeOrdersSteps DEF AddTrade
<1>4. /\ DOMAIN orders' = DOMAIN orders
      /\ orders'[a_id] = Released(ea) /\ orders'[b_id] = eb
      /\ \A i \in DOMAIN orders :
           i # a_id /\ i # b_id => orders'[i] = orders[i]
  <2> HIDE DEF ea, eb
  <2> QED
    BY <1>1, <1>2, <1>3
<1>5. orders \in Seq(OrderType) /\ orders' \in Seq(OrderType')
  BY DEF TypeOK
<1>6. Len(orders') = Len(orders)
  <2> HIDE DEF ea, eb
  <2> QED
    BY <1>4, <1>5, LenProperties
<1> QED
  BY <1>1, <1>2, <1>4, <1>6

\* An order keeps its owner, the flag it was asked with and the byte it has.
SidesKept ==
  \A i \in DOMAIN orders :
    /\ i \in DOMAIN orders'
    /\ orders'[i].pid = orders[i].pid
    /\ orders'[i].flag = orders[i].flag /\ orders'[i].asked = orders[i].asked

LEMMA SidesPlaced ==
  ASSUME TypeOK, NEW o, orders' = Append(orders, o) PROVE SidesKept
<1>1. orders \in Seq(OrderType)
  BY DEF TypeOK
<1> QED
  BY <1>1, AppendProperties, LenProperties DEF SidesKept

LEMMA SidesCancelled ==
  ASSUME TypeOK, NEW pid, NEW order_id, CancelOrder(pid, order_id)
  PROVE  SidesKept
<1>1. /\ order_id \in DOMAIN orders
      /\ orders' = [orders EXCEPT ![order_id] = Cancelled(orders[order_id])]
  BY DEF CancelOrder
<1>2. /\ Cancelled(orders[order_id]).pid = orders[order_id].pid
      /\ Cancelled(orders[order_id]).flag = orders[order_id].flag
      /\ Cancelled(orders[order_id]).asked = orders[order_id].asked
  <2>1. orders[order_id] \in OrderType
    BY <1>1, OrderAt
  <2> QED
    BY <2>1 DEF Cancelled, OrderType
<1> QED
  BY <1>1, <1>2 DEF SidesKept

LEMMA SidesTraded ==
  ASSUME TypeOK, TypeOK', NEW signer, NEW a_id, NEW b_id,
         NEW a_amount \in TradeAmounts, NEW b_amount \in TradeAmounts,
         AddTrade(signer, a_id, b_id, a_amount, b_amount)
  PROVE  SidesKept
<1> DEFINE a == orders[a_id]
           b == orders[b_id]
           ea == Executed(a, a_amount, a_amount, b_amount)
           eb == Executed(b, b_amount, a_amount, b_amount)
<1>1. /\ a_id \in DOMAIN orders /\ b_id \in DOMAIN orders
      /\ Len(orders') = Len(orders)
      /\ \A i \in DOMAIN orders : i # a_id /\ i # b_id => orders'[i] = orders[i]
      /\ orders'[a_id] = Released(ea) /\ orders'[b_id] = eb
  BY TradedOrders
<1>2. DOMAIN orders' = DOMAIN orders
  BY <1>1, LenProperties DEF TypeOK
<1>3. a_amount \in U64 /\ b_amount \in U64 /\ CanTrade(a, b, a_amount, b_amount)
  BY InputAssumption DEF AddTrade
<1>4. /\ a \in OrderType /\ b \in OrderType
      /\ a.lock_balance >= a_amount /\ b.lock_balance >= b_amount
  BY <1>1, <1>3, CanTradeFacts
<1> HIDE DEF a, b
<1>5. /\ ea \in OrderType
      /\ ea.pid = a.pid /\ ea.flag = a.flag /\ ea.asked = a.asked
      /\ eb.pid = b.pid /\ eb.flag = b.flag /\ eb.asked = b.asked
  BY <1>3, <1>4, ExecutedType
<1> HIDE DEF ea, eb
<1>6. /\ Released(ea).pid = ea.pid /\ Released(ea).flag = ea.flag
      /\ Released(ea).asked = ea.asked
  BY <1>5 DEF Released, OrderType
<1> QED
  BY <1>1, <1>2, <1>5, <1>6 DEF SidesKept, a, b

LEMMA NextKeepsSides == TypeOK /\ TypeOK' /\ [Next]_vars => SidesKept
<1> SUFFICES ASSUME TypeOK, TypeOK', [Next]_vars PROVE SidesKept
  OBVIOUS
<1>1. ASSUME orders' = orders PROVE SidesKept
  BY <1>1 DEF SidesKept
<1>2. CASE \E pid \in Pids : RegisterPlayer(pid)
  BY <1>1, <1>2 DEF RegisterPlayer
<1>3. CASE \E pid \in Pids, idx \in TokenIdxs, address \in Addresses :
             AddToken(pid, idx, address) \/ UpdateToken(pid, idx, address)
  BY <1>1, <1>3 DEF AddToken, UpdateToken, StoreToken
<1>4. CASE \E pid \in Pids, token_a, token_b \in TokenIdxs, price \in Prices :
             AddMarket(pid, token_a, token_b, price)
  BY <1>1, <1>4 DEF AddMarket
<1>5. CASE \E pid \in Pids, market_id \in 1 .. MaxMarkets :
             CloseMarket(pid, market_id)
  BY <1>1, <1>5 DEF CloseMarket
<1>6. CASE \E signer, pid \in Pids, idx \in TokenIdxs, amount \in MoveAmounts :
             \/ Deposit(signer, pid, idx, amount)
             \/ Transfer(signer, pid, idx, amount)
  BY <1>1, <1>6 DEF Deposit, Transfer
<1>7. CASE \E pid \in Pids, idx \in TokenIdxs, amount \in MoveAmounts :
             Withdraw(pid, idx, amount)
  BY <1>1, <1>7 DEF Withdraw
<1>8. CASE FlushSettlement
  BY <1>1, <1>8 DEF FlushSettlement
<1>9. CASE \E pid \in Pids, market_id \in 1 .. MaxMarkets, flag \in Flags :
             \/ \E price \in Prices, amount \in LimitAmounts :
                  AddLimitOrder(pid, market_id, flag, price, amount)
             \/ \E b_amount, a_amount \in MarketAmounts :
                  AddMarketOrder(pid, market_id, flag, b_amount, a_amount)
  BY <1>9, SidesPlaced DEF AddLimitOrder, AddMarketOrder, PlaceOrder
<1>10. CASE \E pid \in Pids, order_id \in 1 .. MaxOrders :
              CancelOrder(pid, order_id)
  BY <1>10, SidesCancelled
<1>11. CASE \E signer \in Pids, a_id, b_id \in 1 .. MaxOrders,
               a_amount, b_amount \in TradeAmounts :
              AddTrade(signer, a_id, b_id, a_amount, b_amount)
  BY <1>11, SidesTraded
<1>12. CASE UNCHANGED vars
  BY <1>1, <1>12 DEF vars
<1> QED
  BY <1>2, <1>3, <1>4, <1>5, <1>6, <1>7, <1>8, <1>9, <1>10, <1>11, <1>12 DEF Next

\* Who is careful after a step was so before it.
LEMMA CarefulBefore ==
  ASSUME SidesKept, NEW p, Careful(p)' PROVE Careful(p)
BY DEF SidesKept, Careful, Turned, is_buy

LEMMA TradesGrow ==
  [Next]_vars => trades' = trades \/ \E tr : trades' = Append(trades, tr)
<1> SUFFICES ASSUME [Next]_vars
             PROVE  trades' = trades \/ \E tr : trades' = Append(trades, tr)
  OBVIOUS
<1>1. CASE \E pid \in Pids : RegisterPlayer(pid)
  BY <1>1 DEF RegisterPlayer
<1>2. CASE \E pid \in Pids, idx \in TokenIdxs, address \in Addresses :
             AddToken(pid, idx, address) \/ UpdateToken(pid, idx, address)
  BY <1>2 DEF AddToken, UpdateToken, StoreToken
<1>3. CASE \E pid \in Pids, token_a, token_b \in TokenIdxs, price \in Prices :
             AddMarket(pid, token_a, token_b, price)
  BY <1>3 DEF AddMarket
<1>4. CASE \E pid \in Pids, market_id \in 1 .. MaxMarkets :
             CloseMarket(pid, market_id)
  BY <1>4 DEF CloseMarket
<1>5. CASE \E signer, pid \in Pids, idx \in TokenIdxs, amount \in MoveAmounts :
             \/ Deposit(signer, pid, idx, amount)
             \/ Transfer(signer, pid, idx, amount)
  BY <1>5 DEF Deposit, Transfer
<1>6. CASE \E pid \in Pids, idx \in TokenIdxs, amount \in MoveAmounts :
             Withdraw(pid, idx, amount)
  BY <1>6 DEF Withdraw
<1>7. CASE FlushSettlement
  BY <1>7 DEF FlushSettlement
<1>8. CASE \E pid \in Pids, market_id \in 1 .. MaxMarkets, flag \in Flags :
             \/ \E price \in Prices, amount \in LimitAmounts :
                  AddLimitOrder(pid, market_id, flag, price, amount)
             \/ \E b_amount, a_amount \in MarketAmounts :
                  AddMarketOrder(pid, market_id, flag, b_amount, a_amount)
  BY <1>8 DEF AddLimitOrder, AddMarketOrder, PlaceOrder
<1>9. CASE \E pid \in Pids, order_id \in 1 .. MaxOrders :
             CancelOrder(pid, order_id)
  BY <1>9 DEF CancelOrder
<1>10. CASE \E signer \in Pids, a_id, b_id \in 1 .. MaxOrders,
               a_amount, b_amount \in TradeAmounts :
              AddTrade(signer, a_id, b_id, a_amount, b_amount)
  BY <1>10 DEF AddTrade
<1>11. CASE UNCHANGED vars
  BY <1>11 DEF vars
<1> QED
  BY <1>1, <1>2, <1>3, <1>4, <1>5, <1>6, <1>7, <1>8, <1>9, <1>10, <1>11 DEF Next

LEMMA CarefulTradesBefore ==
  ASSUME TypeOK, TypeOK', [Next]_vars, CarefulTrades' PROVE CarefulTrades
<1> SUFFICES ASSUME NEW k \in DOMAIN trades
             PROVE  /\ Careful(orders[trades[k].a_order_id].pid)
                    /\ Careful(orders[trades[k].b_order_id].pid)
  BY DEF CarefulTrades
<1>1. trades \in Seq(TradeType)
  BY DEF TypeOK
<1>2. k \in DOMAIN trades' /\ trades'[k] = trades[k]
  BY <1>1, TradesGrow, AppendProperties, LenProperties
<1>3. trades[k].a_order_id \in DOMAIN orders /\ trades[k].b_order_id \in DOMAIN orders
  <2>1. trades[k] \in TradeType
    BY <1>1, LenProperties, ElementOfSeq
  <2> QED
    BY <2>1 DEF TradeType
<1>4. SidesKept
  BY NextKeepsSides
<1>5. ASSUME NEW p, \/ p = orders[trades[k].a_order_id].pid
                    \/ p = orders[trades[k].b_order_id].pid
      PROVE  Careful(p)
  <2>1. \/ p = orders'[trades'[k].a_order_id].pid
        \/ p = orders'[trades'[k].b_order_id].pid
    BY <1>2, <1>3, <1>4, <1>5 DEF SidesKept
  <2>2. Careful(p)'
    BY <1>2, <2>1 DEF CarefulTrades, Careful
  <2> QED
    BY <1>4, <2>2, CarefulBefore
<1> QED
  BY <1>5

\* Both sides of a trade are, when only careful players have traded after it.
LEMMA TradersAreCareful ==
  ASSUME TypeOK, SidesKept, CarefulTrades', NEW a_id \in DOMAIN orders,
         NEW b_id \in DOMAIN orders, NEW tr, trades' = Append(trades, tr),
         tr.a_order_id = a_id, tr.b_order_id = b_id
  PROVE  Careful(orders[a_id].pid) /\ Careful(orders[b_id].pid)
<1>1. \E k \in DOMAIN trades' :
         trades'[k].a_order_id = a_id /\ trades'[k].b_order_id = b_id
  <2>1. trades \in Seq(TradeType)
    BY DEF TypeOK
  <2>2. Len(trades) + 1 \in DOMAIN trades' /\ trades'[Len(trades) + 1] = tr
    BY <2>1, AppendProperties, LenProperties
  <2> QED
    BY <2>2
<1>2. ASSUME NEW p, p = orders[a_id].pid \/ p = orders[b_id].pid
      PROVE  Careful(p)
  <2>1. p = orders'[a_id].pid \/ p = orders'[b_id].pid
    BY <1>2 DEF SidesKept
  <2>2. Careful(p)'
    BY <1>1, <2>1 DEF CarefulTrades, Careful
  <2> QED
    BY <2>2, CarefulBefore
<1> QED
  BY <1>2

\* The byte of a new order names the side that its request paid for, unless it
\* turned the order.
LEMMA ByteOfBuy ==
  ASSUME NEW flag \in U64, NEW type_, NEW pid, NEW market_id, NEW cost, NEW price,
         NEW b_amount, NEW a_amount
  PROVE  LET o == NewOrder(type_, pid, market_id, flag, cost, price, b_amount,
                           a_amount)
         IN  /\ o.asked = FLAG_BUY => o.flag = FLAG_BUY
             /\ ~Turned(o) => \A m : PayToken(o.flag, m) = PayToken(flag, m)
<1>1. 1 % (MaxU8 + 1) = 1
  <2>1. MaxU8 \in Nat /\ MaxU8 >= 1
    BY WidthAssumption
  <2> DEFINE d == MaxU8 + 1
  <2>2. d \in Nat /\ d > 1
    BY <2>1
  <2>3. 1 % d = 1
    <3> HIDE DEF d
    <3> QED
      BY <2>2
  <2> QED
    BY <2>3
<1> DEFINE byte == flag % (MaxU8 + 1)
<1>2. flag = 1 => byte = 1
  BY <1>1
<1> HIDE DEF byte
<1> QED
  BY <1>2 DEF NewOrder, byte, Turned, is_buy, PayToken, FLAG_BUY

-----------------------------------------------------------------------------
(* The locks of a careful player.                                          *)

\* A step that touches neither orders nor locks.
LEMMA LocksFrame ==
  ASSUME TypeOK, TypeOK', LockAccounting,
         UNCHANGED <<orders, lock_balance>>, SameTokens(markets, markets')
  PROVE  LockAccounting'
<1> SUFFICES ASSUME NEW p \in Pids, Careful(p)', NEW t \in TokenIdxs
             PROVE  lock_balance'[p][t] = LocksOf(p, t)'
  BY DEF LockAccounting
<1>1. LocksIn(orders, markets', p, t) = LocksIn(orders, markets, p, t)
  BY BooksOfStep, LocksInSame
<1>2. lock_balance[p][t] = LocksOf(p, t)
  <2>1. Careful(p)
    BY CarefulBefore DEF SidesKept
  <2> QED
    BY <2>1 DEF LockAccounting
<1> QED
  BY <1>1, <1>2, LocksOfIs

\* A new order locks exactly its cost and its fee.
LEMMA LocksPlaced ==
  ASSUME TypeOK, TypeOK', LockAccounting,
         NEW pid \in Pids, NEW t \in TokenIdxs, NEW cost, NEW order,
         PlaceOrder(pid, t, cost, order),
         order.pid = pid, order.lock_balance = cost, order.lock_fee = Fee,
         order.status = STATUS_LIVE,
         ~Turned(order) => PayToken(order.flag, markets[order.market_id]) = t
  PROVE  LockAccounting'
<1> SUFFICES ASSUME NEW p \in Pids, Careful(p)', NEW u \in TokenIdxs
             PROVE  lock_balance'[p][u] = LocksOf(p, u)'
  BY DEF LockAccounting
<1>1. /\ orders' = Append(orders, order) /\ markets' = markets
      /\ lock_balance' = Plus(Plus(lock_balance, pid, t, cost),
                              pid, FeeToken, Fee)
  BY DEF PlaceOrder, listings
<1>2. /\ Len(orders') = Len(orders) + 1
      /\ \A i \in DOMAIN orders : orders'[i] = orders[i]
      /\ orders'[Len(orders')] = order
  <2>1. orders \in Seq(OrderType)
    BY DEF TypeOK
  <2> QED
    BY <1>1, <2>1, AppendProperties, LenProperties
<1>3. LocksIn(orders', markets, p, u) =
        LocksIn(orders, markets, p, u)
          + LockTerm(order, markets[order.market_id], p, u)
  BY <1>2, BooksOfStep, LocksInAppend
<1>4. lock_balance'[p][u] = lock_balance[p][u]
                              + LockTerm(order, markets[order.market_id], p, u)
  <2>0. p = pid => PayToken(order.flag, markets[order.market_id]) = t
    <3>1. Len(orders') \in DOMAIN orders'
      BY <1>2, BooksOfStep DEF Book
    <3> QED
      BY <1>2, <3>1 DEF Careful
  <2> DEFINE first == Plus(lock_balance, pid, t, cost)
  <2>1. /\ lock_balance \in [Pids -> [TokenIdxs -> Int]]
        /\ lock_balance[p][u] \in Nat
        /\ cost \in Int /\ Fee \in Int
    <3>1. Fee \in Int
      BY ConfigAssumption DEF U64
    <3>2. HasAmounts(order)
      BY <1>2, BooksOfStep DEF Book
    <3> QED
      BY <3>1, <3>2, LockPositions DEF HasAmounts
  <2>2. first \in [Pids -> [TokenIdxs -> Int]]
    BY <2>1 DEF Plus
  <2>3. first[p][u] = IF p = pid /\ u = t THEN lock_balance[p][u] + cost
                      ELSE lock_balance[p][u]
    BY <2>1, PlusAt
  <2>4. lock_balance' = Plus(first, pid, FeeToken, Fee)
    BY <1>1
  <2> HIDE DEF first
  <2>5. lock_balance'[p][u] = IF p = pid /\ u = FeeToken THEN first[p][u] + Fee
                              ELSE first[p][u]
    BY <2>1, <2>2, <2>4 DEF Plus
  <2> QED
    BY <2>0, <2>1, <2>3, <2>5 DEF LockTerm, STATUS_LIVE, STATUS_CANCEL
<1>5. lock_balance[p][u] = LocksOf(p, u)
  <2>1. Careful(p)
    BY <1>1, SidesPlaced, CarefulBefore
  <2> QED
    BY <2>1 DEF LockAccounting
<1> QED
  BY <1>1, <1>3, <1>4, <1>5, LocksOfIs

\* Cancelling gives back exactly what the order locked.
LEMMA LocksCancelled ==
  ASSUME TypeOK, TypeOK', LockAccounting, NEW pid \in Pids, NEW order_id,
         CancelOrder(pid, order_id)
  PROVE  LockAccounting'
<1> DEFINE o == orders[order_id]
           t == OrderToken(o)
           m == markets[o.market_id]
<1> SUFFICES ASSUME NEW p \in Pids, Careful(p)', NEW u \in TokenIdxs
             PROVE  lock_balance'[p][u] = LocksOf(p, u)'
  BY DEF LockAccounting
<1>1. /\ order_id \in DOMAIN orders /\ order_id \in 1 .. Len(orders)
      /\ o \in OrderType /\ t \in TokenIdxs /\ o.pid = pid /\ is_live(o)
  BY OrderAt DEF CancelOrder
<1>2. /\ markets' = markets
      /\ orders' = [orders EXCEPT ![order_id] = Cancelled(o)]
      /\ lock_balance' = Minus(Minus(lock_balance, pid, t, o.lock_balance),
                               pid, FeeToken, o.lock_fee)
  BY <1>1 DEF CancelOrder, Unlocked, listings
<1>3. /\ Len(orders') = Len(orders)
      /\ orders'[order_id] = Cancelled(o)
      /\ \A i \in DOMAIN orders : i # order_id => orders'[i] = orders[i]
  <2>1. orders \in Seq(OrderType) /\ orders' \in Seq(OrderType')
    BY DEF TypeOK
  <2>2. DOMAIN orders' = DOMAIN orders
    BY <1>2
  <2>3. Len(orders') = Len(orders)
    BY <2>1, <2>2, LenProperties
  <2> QED
    BY <1>1, <1>2, <2>3
<1>4. /\ o.lock_balance \in Nat /\ o.lock_fee \in Nat
      /\ o.status # STATUS_CANCEL /\ PayToken(o.flag, m) = t
  BY <1>1 DEF OrderType, U64, is_live, STATUS_LIVE, STATUS_PARTIAL_MATCH,
              STATUS_CANCEL, OrderToken
<1>5. LockTerm(Cancelled(o), markets[Cancelled(o).market_id], p, u) = 0
  <2>1. Cancelled(o).status = STATUS_CANCEL /\ Cancelled(o).lock_balance = 0
    BY <1>1 DEF Cancelled, OrderType
  <2> QED
    BY <2>1 DEF LockTerm
<1> HIDE DEF o, t, m
<1>6. LocksIn(orders', markets, p, u) =
        LocksIn(orders, markets, p, u) - LockTerm(o, m, p, u)
          + LockTerm(Cancelled(o), markets[Cancelled(o).market_id], p, u)
  <2>1. LocksIn(orders', markets, p, u) =
          LocksIn(orders, markets, p, u)
            - LockTerm(orders[order_id], markets[orders[order_id].market_id],
                       p, u)
            + LockTerm(orders'[order_id], markets[orders'[order_id].market_id],
                       p, u)
    <3>1. Book(orders) /\ Book(orders')
      BY BooksOfStep
    <3> QED
      BY <1>1, <1>3, <3>1, LocksInUpdate
  <2> QED
    BY <1>3, <2>1 DEF o, m
<1>7. lock_balance'[p][u] = lock_balance[p][u] - LockTerm(o, m, p, u)
  <2> DEFINE first == Minus(lock_balance, pid, t, o.lock_balance)
  <2>1. lock_balance \in [Pids -> [TokenIdxs -> Int]]
        /\ o.lock_balance \in Int /\ o.lock_fee \in Int
        /\ lock_balance[p][u] \in Nat
    BY <1>4, LockPositions
  <2>2. first \in [Pids -> [TokenIdxs -> Int]]
    BY <1>1, <2>1 DEF Minus
  <2>3. first[p][u] = IF p = pid /\ u = t
                      THEN lock_balance[p][u] - o.lock_balance
                      ELSE lock_balance[p][u]
    BY <1>1, <2>1, PlusAt
  <2>4. lock_balance' = Minus(first, pid, FeeToken, o.lock_fee)
    BY <1>2
  <2> HIDE DEF first
  <2>5. lock_balance'[p][u] = IF p = pid /\ u = FeeToken
                              THEN first[p][u] - o.lock_fee ELSE first[p][u]
    BY <2>1, <2>2, <2>4 DEF Minus
  <2> QED
    BY <1>1, <1>4, <2>1, <2>3, <2>5 DEF LockTerm
<1>8. lock_balance[p][u] = LocksOf(p, u)
  <2>1. Careful(p)
    BY SidesCancelled, CarefulBefore
  <2> QED
    BY <2>1 DEF LockAccounting
<1>9. LockTerm(o, m, p, u) \in Nat
  BY <1>4, LockTermType DEF HasAmounts
<1>10. LocksIn(orders, markets, p, u) \in Nat
  BY <1>8, LocksOfIs, LockPositions
<1>11. LocksOf(p, u)' = LocksIn(orders', markets, p, u)
  BY <1>2, LocksOfIs
<1>12. LocksOf(p, u) = LocksIn(orders, markets, p, u)
  BY LocksOfIs
<1> QED
  BY <1>5, <1>6, <1>7, <1>8, <1>9, <1>10, <1>11, <1>12

-----------------------------------------------------------------------------
(* Trades.                                                                 *)

\* The five debits of a trade: cost and refund of player p in token t, cost
\* of player q in token u, and the fees of both.
Debit(v, t, x) == IF v = t THEN x ELSE 0

AfterDebits(f, p, q, t, u, x, y, fee_p, fee_q, r) ==
  LET f1 == TryMinus(f, p, t, x)
      f2 == TryMinus(f1, q, u, y)
      f3 == TryMinus(f2, p, FeeToken, fee_p)
      f4 == TryMinus(f3, q, FeeToken, fee_q)
  IN  TryMinus(f4, p, t, r)

IsTrade(f, p, q, t, u, x, y, fee_p, fee_q, r) ==
  /\ f \in [Pids -> [TokenIdxs -> Int]]
  /\ p \in Pids /\ q \in Pids /\ p # q /\ t \in TokenIdxs /\ u \in TokenIdxs
  /\ x \in Nat /\ y \in Nat /\ fee_p \in Nat /\ fee_q \in Nat /\ r \in Nat

\* Of a player whose positions cover his part of the five none is dropped.
LEMMA FiveDebits ==
  ASSUME NEW f, NEW p, NEW q, NEW t, NEW u, NEW x, NEW y,
         NEW fee_p, NEW fee_q, NEW r,
         IsTrade(f, p, q, t, u, x, y, fee_p, fee_q, r),
         NEW v \in TokenIdxs
  PROVE  LET after == AfterDebits(f, p, q, t, u, x, y, fee_p, fee_q, r)
         IN  /\ Debit(v, t, x + r) + Debit(v, FeeToken, fee_p) <= f[p][v] =>
                  after[p][v] =
                    f[p][v] - Debit(v, t, x + r) - Debit(v, FeeToken, fee_p)
             /\ Debit(v, u, y) + Debit(v, FeeToken, fee_q) <= f[q][v] =>
                  after[q][v] =
                    f[q][v] - Debit(v, u, y) - Debit(v, FeeToken, fee_q)
             /\ \A w \in Pids \ {p, q} : after[w][v] = f[w][v]
<1> DEFINE f1 == TryMinus(f, p, t, x)
           f2 == TryMinus(f1, q, u, y)
           f3 == TryMinus(f2, p, FeeToken, fee_p)
           f4 == TryMinus(f3, q, FeeToken, fee_q)
           f5 == TryMinus(f4, p, t, r)
<1>0. /\ FeeToken \in TokenIdxs
      /\ f \in [Pids -> [TokenIdxs -> Int]]
      /\ p \in Pids /\ q \in Pids /\ p # q /\ t \in TokenIdxs /\ u \in TokenIdxs
      /\ x \in Nat /\ y \in Nat /\ fee_p \in Nat /\ fee_q \in Nat /\ r \in Nat
  BY TokenAssumption DEF IsTrade
<1> SUFFICES ASSUME NEW w \in Pids
             PROVE  /\ w = p /\ Debit(v, t, x + r) + Debit(v, FeeToken, fee_p)
                                  <= f[w][v] =>
                         f5[w][v] = f[w][v] - Debit(v, t, x + r)
                                      - Debit(v, FeeToken, fee_p)
                    /\ w = q /\ Debit(v, u, y) + Debit(v, FeeToken, fee_q)
                                  <= f[w][v] =>
                         f5[w][v] = f[w][v] - Debit(v, u, y)
                                      - Debit(v, FeeToken, fee_q)
                    /\ w # p /\ w # q => f5[w][v] = f[w][v]
  <2> HIDE DEF f5
  <2> QED
    BY <1>0 DEF AfterDebits, f5, f4, f3, f2, f1
<1>1. /\ f1 \in [Pids -> [TokenIdxs -> Int]]
      /\ f1[w][v] = IF w = p /\ v = t /\ f[w][v] >= x THEN f[w][v] - x
                    ELSE f[w][v]
  BY <1>0 DEF TryMinus
<1> HIDE DEF f1
<1>2. /\ f2 \in [Pids -> [TokenIdxs -> Int]]
      /\ f2[w][v] = IF w = q /\ v = u /\ f1[w][v] >= y THEN f1[w][v] - y
                    ELSE f1[w][v]
  BY <1>0, <1>1 DEF TryMinus
<1> HIDE DEF f2
<1>3. /\ f3 \in [Pids -> [TokenIdxs -> Int]]
      /\ f3[w][v] = IF w = p /\ v = FeeToken /\ f2[w][v] >= fee_p
                    THEN f2[w][v] - fee_p ELSE f2[w][v]
  BY <1>0, <1>2 DEF TryMinus
<1> HIDE DEF f3
<1>4. /\ f4 \in [Pids -> [TokenIdxs -> Int]]
      /\ f4[w][v] = IF w = q /\ v = FeeToken /\ f3[w][v] >= fee_q
                    THEN f3[w][v] - fee_q ELSE f3[w][v]
  BY <1>0, <1>3 DEF TryMinus
<1> HIDE DEF f4
<1>5. f5[w][v] = IF w = p /\ v = t /\ f4[w][v] >= r THEN f4[w][v] - r
                 ELSE f4[w][v]
  BY <1>0, <1>4 DEF TryMinus
<1> HIDE DEF f5
<1>6. f[w][v] \in Int
  BY <1>0
<1>7. ASSUME w = p,
             Debit(v, t, x + r) + Debit(v, FeeToken, fee_p) <= f[w][v]
      PROVE  f5[w][v] = f[w][v] - Debit(v, t, x + r) - Debit(v, FeeToken, fee_p)
  BY <1>0, <1>1, <1>2, <1>3, <1>4, <1>5, <1>6, <1>7 DEF Debit
<1>8. ASSUME w = q, Debit(v, u, y) + Debit(v, FeeToken, fee_q) <= f[w][v]
      PROVE  f5[w][v] = f[w][v] - Debit(v, u, y) - Debit(v, FeeToken, fee_q)
  BY <1>0, <1>1, <1>2, <1>3, <1>4, <1>5, <1>6, <1>8 DEF Debit
<1>9. ASSUME w # p, w # q PROVE f5[w][v] = f[w][v]
  BY <1>0, <1>1, <1>2, <1>3, <1>4, <1>5, <1>9
<1> QED
  BY <1>7, <1>8, <1>9

\* What a trade takes from the locks of order o: its cost, its refund and its
\* fee.
LEMMA ExecutedLock ==
  ASSUME NEW o \in OrderType, NEW e, NEW cost \in Nat,
         e.pid = o.pid, e.flag = o.flag, e.market_id = o.market_id,
         e.lock_balance = o.lock_balance - cost, e.lock_fee = 0,
         o.status # STATUS_CANCEL, NEW m, NEW p, NEW t
  PROVE  LockTerm(e, m, p, t) =
           LockTerm(o, m, p, t)
             - (IF p = o.pid
                THEN Debit(t, PayToken(o.flag, m), cost)
                       + Debit(t, FeeToken, o.lock_fee)
                ELSE 0)
<1>1. o.lock_balance \in Nat /\ o.lock_fee \in Nat
  BY DEF OrderType, U64
<1> QED
  BY <1>1 DEF LockTerm, Debit

\* A trade takes from the locks of a careful side what his order locked for
\* it, all of it: none of the ignored results of dec_lock_balance is FALSE.
LEMMA LocksAfterTrade ==
  ASSUME TypeOK, TypeOK', LockAccounting, NEW signer \in Pids,
         NEW a_id, NEW b_id,
         NEW a_amount \in TradeAmounts, NEW b_amount \in TradeAmounts,
         AddTrade(signer, a_id, b_id, a_amount, b_amount)
  PROVE  LET a == orders[a_id]
             b == orders[b_id]
             m == markets[a.market_id]
             r == Refund(Executed(a, a_amount, a_amount, b_amount))
         IN  /\ r \in Nat
             /\ Careful(a.pid) => \A v \in TokenIdxs :
                  /\ Debit(v, m.token_a, a_amount + r)
                       + Debit(v, FeeToken, a.lock_fee)
                       <= lock_balance[a.pid][v]
                  /\ lock_balance'[a.pid][v] =
                       lock_balance[a.pid][v] - Debit(v, m.token_a, a_amount + r)
                         - Debit(v, FeeToken, a.lock_fee)
             /\ Careful(b.pid) => \A v \in TokenIdxs :
                  /\ Debit(v, m.token_b, b_amount)
                       + Debit(v, FeeToken, b.lock_fee)
                       <= lock_balance[b.pid][v]
                  /\ lock_balance'[b.pid][v] =
                       lock_balance[b.pid][v] - Debit(v, m.token_b, b_amount)
                         - Debit(v, FeeToken, b.lock_fee)
             /\ \A p \in Pids \ {a.pid, b.pid}, v \in TokenIdxs :
                  lock_balance'[p][v] = lock_balance[p][v]
<1> DEFINE a == orders[a_id]
           b == orders[b_id]
           m == markets[a.market_id]
           ea == Executed(a, a_amount, a_amount, b_amount)
           r == Refund(ea)
<1>1. a_amount \in U64 /\ b_amount \in U64 /\ a_amount \in Nat /\ b_amount \in Nat
  BY InputAssumption DEF U64
<1>2. /\ a_id \in DOMAIN orders /\ b_id \in DOMAIN orders
      /\ CanTrade(a, b, a_amount, b_amount)
      /\ lock_balance' = TradeLocks(a, b, m, a_amount, b_amount)
  BY DEF AddTrade
<1>3. /\ a \in OrderType /\ b \in OrderType /\ m \in MarketType
      /\ a.pid \in Pids /\ b.pid \in Pids /\ a.pid # b.pid
      /\ m.token_a \in TokenIdxs /\ m.token_b \in TokenIdxs
      /\ a.lock_balance >= a_amount /\ b.lock_balance >= b_amount
  BY <1>1, <1>2, CanTradeFacts
<1>4. /\ b.market_id = a.market_id
      /\ PayToken(a.flag, m) = m.token_a /\ PayToken(b.flag, m) = m.token_b
      /\ a.status # STATUS_CANCEL /\ b.status # STATUS_CANCEL
  BY <1>2 DEF CanTrade, PayToken, is_buy, is_sell, FLAG_BUY, FLAG_SELL,
              is_live, STATUS_LIVE, STATUS_PARTIAL_MATCH, STATUS_CANCEL
<1> HIDE DEF a, b, m
<1>5. /\ ea.lock_balance = a.lock_balance - a_amount
      /\ r \in Nat /\ r <= ea.lock_balance
  BY <1>1, <1>3, ExecutedType
<1> HIDE DEF ea, r
<1>6. ASSUME NEW v \in TokenIdxs
      PROVE  /\ Careful(a.pid) =>
                  Debit(v, m.token_a, a_amount + r) + Debit(v, FeeToken, a.lock_fee)
                    <= lock_balance[a.pid][v]
             /\ Careful(b.pid) =>
                  Debit(v, m.token_b, b_amount) + Debit(v, FeeToken, b.lock_fee)
                    <= lock_balance[b.pid][v]
  <2>1. /\ Careful(a.pid) =>
             lock_balance[a.pid][v] = LocksIn(orders, markets, a.pid, v)
        /\ Careful(b.pid) =>
             lock_balance[b.pid][v] = LocksIn(orders, markets, b.pid, v)
    BY <1>3, LocksOfIs DEF LockAccounting
  <2>2. /\ LockTerm(a, m, a.pid, v) <= LocksIn(orders, markets, a.pid, v)
        /\ LockTerm(b, m, b.pid, v) <= LocksIn(orders, markets, b.pid, v)
    <3>1. Book(orders)
      BY BooksOfStep
    <3> QED
      BY <1>2, <1>4, <3>1, LockTermBound DEF a, b, m
  <2>3. /\ a.lock_balance \in Nat /\ a.lock_fee \in Nat
        /\ b.lock_balance \in Nat /\ b.lock_fee \in Nat
    BY <1>3 DEF OrderType, U64
  <2>4. /\ Debit(v, m.token_a, a_amount + r) + Debit(v, FeeToken, a.lock_fee)
             <= LockTerm(a, m, a.pid, v)
        /\ Debit(v, m.token_b, b_amount) + Debit(v, FeeToken, b.lock_fee)
             <= LockTerm(b, m, b.pid, v)
    BY <1>1, <1>3, <1>4, <1>5, <2>3 DEF LockTerm, Debit
  <2>5. /\ lock_balance[a.pid][v] \in Int /\ lock_balance[b.pid][v] \in Int
    BY <1>3, LockPositions
  <2>6. /\ Debit(v, m.token_a, a_amount + r) + Debit(v, FeeToken, a.lock_fee) \in Nat
        /\ Debit(v, m.token_b, b_amount) + Debit(v, FeeToken, b.lock_fee) \in Nat
        /\ LockTerm(a, m, a.pid, v) \in Nat /\ LockTerm(b, m, b.pid, v) \in Nat
    BY <1>1, <1>5, <2>3 DEF LockTerm, Debit
  <2>7. CASE Careful(a.pid) /\ Careful(b.pid)
    BY <2>1, <2>2, <2>4, <2>5, <2>6, <2>7
  <2>8. CASE Careful(a.pid) /\ ~Careful(b.pid)
    BY <2>1, <2>2, <2>4, <2>5, <2>6, <2>8
  <2>9. CASE ~Careful(a.pid) /\ Careful(b.pid)
    BY <2>1, <2>2, <2>4, <2>5, <2>6, <2>9
  <2>10. CASE ~Careful(a.pid) /\ ~Careful(b.pid)
    BY <2>10
  <2> QED
    BY <2>7, <2>8, <2>9, <2>10
<1>7. ASSUME NEW v \in TokenIdxs
      PROVE  /\ Debit(v, m.token_a, a_amount + r) + Debit(v, FeeToken, a.lock_fee)
                  <= lock_balance[a.pid][v] =>
                  lock_balance'[a.pid][v] =
                    lock_balance[a.pid][v] - Debit(v, m.token_a, a_amount + r)
                      - Debit(v, FeeToken, a.lock_fee)
             /\ Debit(v, m.token_b, b_amount) + Debit(v, FeeToken, b.lock_fee)
                  <= lock_balance[b.pid][v] =>
                  lock_balance'[b.pid][v] =
                    lock_balance[b.pid][v] - Debit(v, m.token_b, b_amount)
                      - Debit(v, FeeToken, b.lock_fee)
             /\ \A p \in Pids \ {a.pid, b.pid} :
                  lock_balance'[p][v] = lock_balance[p][v]
  <2>1. a.lock_fee \in Nat /\ b.lock_fee \in Nat
    BY <1>3 DEF OrderType, U64
  <2>2. lock_balance \in [Pids -> [TokenIdxs -> Int]]
    BY LockPositions
  <2>3. lock_balance' = AfterDebits(lock_balance, a.pid, b.pid, m.token_a,
                                    m.token_b, a_amount, b_amount,
                                    a.lock_fee, b.lock_fee, r)
    BY <1>2 DEF TradeLocks, AfterDebits, r, ea
  <2>4. IsTrade(lock_balance, a.pid, b.pid, m.token_a, m.token_b,
                a_amount, b_amount, a.lock_fee, b.lock_fee, r)
    BY <1>1, <1>3, <1>5, <2>1, <2>2 DEF IsTrade
  <2> QED
    BY <2>3, <2>4, FiveDebits
<1>8. /\ Careful(a.pid) => \A v \in TokenIdxs :
           /\ Debit(v, m.token_a, a_amount + r) + Debit(v, FeeToken, a.lock_fee)
                <= lock_balance[a.pid][v]
           /\ lock_balance'[a.pid][v] =
                lock_balance[a.pid][v] - Debit(v, m.token_a, a_amount + r)
                  - Debit(v, FeeToken, a.lock_fee)
      /\ Careful(b.pid) => \A v \in TokenIdxs :
           /\ Debit(v, m.token_b, b_amount) + Debit(v, FeeToken, b.lock_fee)
                <= lock_balance[b.pid][v]
           /\ lock_balance'[b.pid][v] =
                lock_balance[b.pid][v] - Debit(v, m.token_b, b_amount)
                  - Debit(v, FeeToken, b.lock_fee)
  BY <1>6, <1>7
<1> QED
  BY <1>5, <1>7, <1>8 DEF a, b, m, r, ea

LEMMA LocksTraded ==
  ASSUME TypeOK, TypeOK', LockAccounting, NEW signer \in Pids,
         NEW a_id, NEW b_id,
         NEW a_amount \in TradeAmounts, NEW b_amount \in TradeAmounts,
         AddTrade(signer, a_id, b_id, a_amount, b_amount)
  PROVE  LockAccounting'
<1> DEFINE a == orders[a_id]
           b == orders[b_id]
           m == markets[a.market_id]
           ea == Executed(a, a_amount, a_amount, b_amount)
           eb == Executed(b, b_amount, a_amount, b_amount)
           r == Refund(ea)
<1>1. a_amount \in U64 /\ b_amount \in U64 /\ a_amount \in Nat /\ b_amount \in Nat
  BY InputAssumption DEF U64
<1>2. /\ a_id \in DOMAIN orders /\ b_id \in DOMAIN orders
      /\ CanTrade(a, b, a_amount, b_amount)
      /\ lock_balance' = TradeLocks(a, b, m, a_amount, b_amount)
      /\ markets' = [markets EXCEPT
                       ![a.market_id].last_deal_price = TradePrice(a, b)]
  BY DEF AddTrade
<1>3. /\ a \in OrderType /\ b \in OrderType /\ m \in MarketType
      /\ a.pid \in Pids /\ b.pid \in Pids /\ a.pid # b.pid
      /\ m.token_a \in TokenIdxs /\ m.token_b \in TokenIdxs
      /\ a.lock_balance >= a_amount /\ b.lock_balance >= b_amount
      /\ a.market_id \in 1 .. Len(markets)
  BY <1>1, <1>2, CanTradeFacts
<1>4. /\ b.market_id = a.market_id
      /\ PayToken(a.flag, m) = m.token_a /\ PayToken(b.flag, m) = m.token_b
      /\ a.status # STATUS_CANCEL /\ b.status # STATUS_CANCEL
  BY <1>2 DEF CanTrade, PayToken, is_buy, is_sell, FLAG_BUY, FLAG_SELL,
              is_live, STATUS_LIVE, STATUS_PARTIAL_MATCH, STATUS_CANCEL
<1>5. /\ orders'[a_id] = Released(ea) /\ orders'[b_id] = eb
      /\ a_id # b_id /\ Len(orders') = Len(orders)
      /\ \A i \in DOMAIN orders :
           i # a_id /\ i # b_id => orders'[i] = orders[i]
  BY TradedOrders
<1> HIDE DEF a, b, m
<1>6. /\ ea \in OrderType /\ ea.pid = a.pid /\ ea.flag = a.flag
      /\ ea.market_id = a.market_id
      /\ ea.lock_balance = a.lock_balance - a_amount /\ ea.lock_fee = 0
      /\ r \in Nat /\ r <= ea.lock_balance
  BY <1>1, <1>3, ExecutedType
<1>7. /\ eb \in OrderType /\ eb.pid = b.pid /\ eb.flag = b.flag
      /\ eb.market_id = b.market_id
      /\ eb.lock_balance = b.lock_balance - b_amount /\ eb.lock_fee = 0
  BY <1>1, <1>3, ExecutedType
<1> DEFINE ra == Released(ea)
<1>8. /\ ra.pid = a.pid /\ ra.flag = a.flag /\ ra.market_id = a.market_id
      /\ ra.lock_balance = a.lock_balance - (a_amount + r) /\ ra.lock_fee = 0
  <2>1. ra = [ea EXCEPT !.lock_balance = ea.lock_balance - r]
    BY DEF Released
  <2>2. a.lock_balance \in Nat
    BY <1>3 DEF OrderType, U64
  <2> HIDE DEF ra, ea, r
  <2> QED
    BY <1>1, <1>6, <2>1, <2>2 DEF OrderType
<1> HIDE DEF ra, ea, eb, r
<1>9. SameTokens(markets, markets')
  <2>1. markets \in Seq(MarketType)
    BY DEF TypeOK, ListingsType
  <2>2. \A i \in DOMAIN markets : markets[i] \in MarketType
    BY <2>1, LenProperties, ElementOfSeq
  <2> QED
    BY <1>2, <2>2 DEF SameTokens, MarketType
<1> SUFFICES ASSUME NEW p \in Pids, Careful(p)', NEW t \in TokenIdxs
             PROVE  lock_balance'[p][t] = LocksOf(p, t)'
  BY DEF LockAccounting
<1> Careful(p)
  BY SidesTraded, CarefulBefore
<1>10. LocksIn(orders', markets, p, t) =
         LocksIn(orders, markets, p, t)
           - LockTerm(a, m, p, t) + LockTerm(ra, m, p, t)
           - LockTerm(b, m, p, t) + LockTerm(eb, m, p, t)
  <2>1. Book(orders) /\ Book(orders')
    BY BooksOfStep
  <2>2. LocksIn(orders', markets, p, t) =
          LocksIn(orders, markets, p, t)
            - LockTerm(orders[a_id], markets[orders[a_id].market_id], p, t)
            + LockTerm(orders'[a_id], markets[orders'[a_id].market_id], p, t)
            - LockTerm(orders[b_id], markets[orders[b_id].market_id], p, t)
            + LockTerm(orders'[b_id], markets[orders'[b_id].market_id], p, t)
    <3>1. /\ a_id \in DOMAIN orders /\ b_id \in DOMAIN orders /\ a_id # b_id
          /\ Len(orders') = Len(orders)
          /\ \A i \in DOMAIN orders :
               i # a_id /\ i # b_id => orders'[i] = orders[i]
      BY <1>2, <1>5
    <3> QED
      <4>1. Replaced(orders, orders', a_id, b_id)
        BY <2>1, <3>1 DEF Replaced
      <4> QED
        BY <4>1, LocksInUpdateTwo
  <2> QED
    BY <1>4, <1>5, <1>7, <1>8, <2>2 DEF a, b, m, ra
<1>11. /\ LockTerm(ra, m, p, t) =
             LockTerm(a, m, p, t)
               - (IF p = a.pid THEN Debit(t, m.token_a, a_amount + r)
                                      + Debit(t, FeeToken, a.lock_fee)
                  ELSE 0)
       /\ LockTerm(eb, m, p, t) =
             LockTerm(b, m, p, t)
               - (IF p = b.pid THEN Debit(t, m.token_b, b_amount)
                                      + Debit(t, FeeToken, b.lock_fee)
                  ELSE 0)
  <2>1. a_amount + r \in Nat
    BY <1>1, <1>6
  <2> QED
    BY <1>1, <1>3, <1>4, <1>7, <1>8, <2>1, ExecutedLock
<1>12. lock_balance'[p][t] =
         CASE p = a.pid -> lock_balance[p][t] - Debit(t, m.token_a, a_amount + r)
                             - Debit(t, FeeToken, a.lock_fee)
           [] p = b.pid -> lock_balance[p][t] - Debit(t, m.token_b, b_amount)
                             - Debit(t, FeeToken, b.lock_fee)
           [] OTHER -> lock_balance[p][t]
  <2>1. /\ Careful(a.pid) =>
             lock_balance'[a.pid][t] =
               lock_balance[a.pid][t] - Debit(t, m.token_a, a_amount + r)
                 - Debit(t, FeeToken, a.lock_fee)
        /\ Careful(b.pid) =>
             lock_balance'[b.pid][t] =
               lock_balance[b.pid][t] - Debit(t, m.token_b, b_amount)
                 - Debit(t, FeeToken, b.lock_fee)
        /\ p \notin {a.pid, b.pid} => lock_balance'[p][t] = lock_balance[p][t]
    BY LocksAfterTrade DEF a, b, m, r, ea
  <2> QED
    BY <1>3, <2>1
<1>13. lock_balance[p][t] = LocksIn(orders, markets, p, t)
  BY LocksOfIs DEF LockAccounting
<1>14. LocksOf(p, t)' = LocksIn(orders', markets, p, t)
  <2>1. LocksIn(orders', markets', p, t) = LocksIn(orders', markets, p, t)
    <3>1. \A i \in DOMAIN orders' : orders'[i].market_id \in DOMAIN markets
      <4>1. \A i \in DOMAIN orders : orders[i].market_id \in DOMAIN markets
        BY BooksOfStep
      <4>2. DOMAIN orders' = DOMAIN orders
        BY <1>5, BooksOfStep DEF Book
      <4> QED
        BY <1>2, <1>4, <1>5, <1>7, <1>8, <4>1, <4>2 DEF a, b, ra
    <3> QED
      BY <1>9, <3>1, BooksOfStep, LocksInSame
  <2> QED
    BY <2>1, LocksOfIs
<1>15. /\ LockTerm(a, m, p, t) \in Int /\ LockTerm(b, m, p, t) \in Int
       /\ lock_balance[p][t] \in Int
       /\ Debit(t, m.token_a, a_amount + r) \in Int
       /\ Debit(t, FeeToken, a.lock_fee) \in Int
       /\ Debit(t, m.token_b, b_amount) \in Int
       /\ Debit(t, FeeToken, b.lock_fee) \in Int
  <2>1. HasAmounts(a) /\ HasAmounts(b)
    BY <1>3 DEF OrderType, U64, HasAmounts
  <2>2. LockTerm(a, m, p, t) \in Nat /\ LockTerm(b, m, p, t) \in Nat
    BY <2>1, LockTermType
  <2> QED
    BY <1>1, <1>6, <2>1, <2>2, LockPositions DEF Debit, HasAmounts
<1>16. lock_balance'[p][t] = LocksIn(orders', markets, p, t)
  <2>1. CASE p = a.pid
    BY <1>3, <1>10, <1>11, <1>12, <1>13, <1>15, <2>1
  <2>2. CASE p = b.pid
    BY <1>3, <1>10, <1>11, <1>12, <1>13, <1>15, <2>2
  <2>3. CASE p # a.pid /\ p # b.pid
    BY <1>10, <1>11, <1>12, <1>13, <1>15, <2>3
  <2> QED
    BY <2>1, <2>2, <2>3
<1> QED
  BY <1>14, <1>16

-----------------------------------------------------------------------------
(* Every step, and the specification.                                      *)

\* The operations on players, listings and money keep orders and locks, and
\* no market ever changes its tokens.
LEMMA SameTokensKept ==
  ASSUME TypeOK
  PROVE  /\ markets' = markets => SameTokens(markets, markets')
         /\ \A m : markets' = Append(markets, m) => SameTokens(markets, markets')
         /\ \A i, s : markets' = [markets EXCEPT ![i].status = s]
                      => SameTokens(markets, markets')
<1>1. /\ markets \in Seq(MarketType) /\ DOMAIN markets = 1 .. Len(markets)
      /\ \A i \in DOMAIN markets : markets[i] \in MarketType
  BY LenProperties, ElementOfSeq DEF TypeOK, ListingsType
<1>2. \A m : markets' = Append(markets, m) => SameTokens(markets, markets')
  BY <1>1, AppendProperties DEF SameTokens
<1>3. \A i, s : markets' = [markets EXCEPT ![i].status = s]
                 => SameTokens(markets, markets')
  BY <1>1 DEF SameTokens, MarketType
<1> QED
  BY <1>2, <1>3 DEF SameTokens

LEMMA LimitOrderLocks ==
  ASSUME TypeOK, TypeOK', LockAccounting, NEW pid \in Pids, NEW market_id,
         NEW flag \in Flags, NEW price, NEW amount,
         AddLimitOrder(pid, market_id, flag, price, amount)
  PROVE  LockAccounting'
<1> DEFINE cost == LimitCost(flag, price, amount)
           t == PayToken(flag, markets[market_id])
           order == NewOrder(TYPE_LIMIT, pid, market_id, flag, cost, price,
                             amount, 0)
<1>1. market_id \in DOMAIN markets /\ PlaceOrder(pid, t, cost, order)
  BY DEF AddLimitOrder, CanLoad
<1>2. t \in TokenIdxs
  BY <1>1, PayTokenType
<1>3. /\ order.pid = pid /\ order.lock_balance = cost /\ order.lock_fee = Fee
      /\ order.status = STATUS_LIVE
      /\ ~Turned(order) => PayToken(order.flag, markets[order.market_id]) = t
  <2>1. flag \in U64
    BY InputAssumption
  <2>2. ~Turned(order) => \A mk : PayToken(order.flag, mk) = PayToken(flag, mk)
    <3> HIDE DEF cost
    <3> QED
      BY <2>1, ByteOfBuy
  <2>3. order.market_id = market_id
    BY DEF NewOrder
  <2>4. ~Turned(order) => PayToken(order.flag, markets[order.market_id]) = t
    <3> HIDE DEF order, cost
    <3> QED
      BY <2>2, <2>3
  <2> QED
    BY <2>4 DEF NewOrder
<1> HIDE DEF cost, t, order
<1> QED
  BY <1>1, <1>2, <1>3, LocksPlaced

LEMMA MarketOrderLocks ==
  ASSUME TypeOK, TypeOK', LockAccounting, NEW pid \in Pids, NEW market_id,
         NEW flag \in Flags, NEW b_amount, NEW a_amount,
         AddMarketOrder(pid, market_id, flag, b_amount, a_amount)
  PROVE  LockAccounting'
<1> DEFINE last == markets[market_id].last_deal_price
           cost == MarketCost(flag, last, b_amount, a_amount)
           t == PayToken(flag, markets[market_id])
           order == NewOrder(TYPE_MARKET, pid, market_id, flag, cost, 0,
                             b_amount, a_amount)
<1>1. market_id \in DOMAIN markets /\ PlaceOrder(pid, t, cost, order)
  BY DEF AddMarketOrder, CanLoad
<1>2. t \in TokenIdxs
  BY <1>1, PayTokenType
<1>3. /\ order.pid = pid /\ order.lock_balance = cost /\ order.lock_fee = Fee
      /\ order.status = STATUS_LIVE
      /\ ~Turned(order) => PayToken(order.flag, markets[order.market_id]) = t
  <2>1. flag \in U64
    BY InputAssumption
  <2>2. ~Turned(order) => \A mk : PayToken(order.flag, mk) = PayToken(flag, mk)
    <3> HIDE DEF cost
    <3> QED
      BY <2>1, ByteOfBuy
  <2>3. order.market_id = market_id
    BY DEF NewOrder
  <2>4. ~Turned(order) => PayToken(order.flag, markets[order.market_id]) = t
    <3> HIDE DEF order, cost
    <3> QED
      BY <2>2, <2>3
  <2> QED
    BY <2>4 DEF NewOrder
<1> HIDE DEF last, cost, t, order
<1> QED
  BY <1>1, <1>2, <1>3, LocksPlaced

LEMMA InitLocks == Init => LockAccounting
<1> SUFFICES ASSUME Init, NEW p \in Pids, NEW t \in TokenIdxs
             PROVE  lock_balance[p][t] = LocksOf(p, t)
  BY DEF LockAccounting
<1>1. orders = <<>> /\ lock_balance[p][t] = 0
  BY DEF Init
<1>2. LocksOf(p, t) = 0
  BY <1>1, SumToEquations DEF LocksOf
<1> QED
  BY <1>1, <1>2

LEMMA NextLocks ==
  TypeOK /\ TypeOK' /\ LockAccounting /\ [Next]_vars => LockAccounting'
<1> SUFFICES ASSUME TypeOK, TypeOK', LockAccounting, [Next]_vars
             PROVE  LockAccounting'
  OBVIOUS
<1>1. CASE \E pid \in Pids : RegisterPlayer(pid)
  BY <1>1, LocksFrame, SameTokensKept DEF RegisterPlayer, listings
<1>2. CASE \E pid \in Pids, idx \in TokenIdxs, address \in Addresses :
             AddToken(pid, idx, address) \/ UpdateToken(pid, idx, address)
  BY <1>2, LocksFrame, SameTokensKept DEF AddToken, UpdateToken, StoreToken
<1>3. CASE \E pid \in Pids, token_a, token_b \in TokenIdxs, price \in Prices :
             AddMarket(pid, token_a, token_b, price)
  BY <1>3, LocksFrame, SameTokensKept DEF AddMarket
<1>4. CASE \E pid \in Pids, market_id \in 1 .. MaxMarkets :
             CloseMarket(pid, market_id)
  BY <1>4, LocksFrame, SameTokensKept DEF CloseMarket
<1>5. CASE \E signer, pid \in Pids, idx \in TokenIdxs, amount \in MoveAmounts :
             \/ Deposit(signer, pid, idx, amount)
             \/ Transfer(signer, pid, idx, amount)
  BY <1>5, LocksFrame, SameTokensKept DEF Deposit, Transfer, listings
<1>6. CASE \E pid \in Pids, idx \in TokenIdxs, amount \in MoveAmounts :
             Withdraw(pid, idx, amount)
  BY <1>6, LocksFrame, SameTokensKept DEF Withdraw, listings
<1>7. CASE FlushSettlement
  BY <1>7, LocksFrame, SameTokensKept DEF FlushSettlement, accounts, listings
<1>8. CASE \E pid \in Pids, market_id \in 1 .. MaxMarkets, flag \in Flags :
             \/ \E price \in Prices, amount \in LimitAmounts :
                  AddLimitOrder(pid, market_id, flag, price, amount)
             \/ \E b_amount, a_amount \in MarketAmounts :
                  AddMarketOrder(pid, market_id, flag, b_amount, a_amount)
  BY <1>8, LimitOrderLocks, MarketOrderLocks
<1>9. CASE \E pid \in Pids, order_id \in 1 .. MaxOrders :
             CancelOrder(pid, order_id)
  BY <1>9, LocksCancelled
<1>10. CASE \E signer \in Pids, a_id, b_id \in 1 .. MaxOrders,
               a_amount, b_amount \in TradeAmounts :
              AddTrade(signer, a_id, b_id, a_amount, b_amount)
  BY <1>10, LocksTraded
<1>11. CASE UNCHANGED vars
  BY <1>11, LocksFrame, SameTokensKept DEF vars, accounts, listings
<1> QED
  BY <1>1, <1>2, <1>3, <1>4, <1>5, <1>6, <1>7, <1>8, <1>9, <1>10, <1>11
  DEF Next

\* Nothing a position keeps locked is orphaned or released twice: after any
\* sequence of orders, trades and cancellations of any players, with any flags,
\* the lock_balance of a careful player is the sum of what his orders lock.
THEOREM LocksCorrect == Spec => []LockAccounting
<1>1. Init => LockAccounting
  BY InitLocks
<1>2. TypeOK /\ TypeOK' /\ LockAccounting /\ [Next]_vars => LockAccounting'
  BY NextLocks
<1>3. Spec => []TypeOK
  BY TypeCorrect
<1> QED
  BY <1>1, <1>2, <1>3, PTL DEF Spec

-----------------------------------------------------------------------------
(* Exchange as a bank.                                                     *)

BP == INSTANCE BankProofs WITH
  NumPlayers <- NumPids, Tokens <- TokenIdxs, Capacity <- MaxU64,
  Amounts <- MoveAmounts \cup TradeAmounts,
  held <- [p \in Pids |->
             [t \in TokenIdxs |-> balance[p][t] + lock_balance[p][t]]],
  fees <- total_fee, credited <- deposited, debited <- withdrawn

\* The holdings of the bank that the exchange is.
HeldBy(p, t) == balance[p][t] + lock_balance[p][t]
Wealth == [p \in Pids |-> [t \in TokenIdxs |-> HeldBy(p, t)]]

\* A lock_fee is the fee of its order or spent.
FeeKnown == \A i \in DOMAIN orders : orders[i].lock_fee \in {0, Fee}

BankInv ==
  /\ TypeOK /\ LockAccounting /\ FeeKnown
  /\ CarefulTrades => BP!Sound

-----------------------------------------------------------------------------
(* The constants and the types of that bank.                               *)

LEMMA PositionsOfTypeOK ==
  ASSUME TypeOK
  PROVE  /\ balance \in [Pids -> [TokenIdxs -> Int]]
         /\ lock_balance \in [Pids -> [TokenIdxs -> Int]]
         /\ \A p \in Pids, t \in TokenIdxs :
              balance[p][t] \in Nat /\ lock_balance[p][t] \in Nat
BY WidthAssumption DEF TypeOK, AccountsType, U64

LEMMA BankConstantsHold == BP!BankConstants /\ MaxU64 \in Int
BY PidsAssumption, WidthAssumption, TokenAssumption, ConfigAssumption,
   InputAssumption DEF BP!BankConstants, U64

LEMMA BankTypeHolds == TypeOK => BP!BankType
<1> SUFFICES ASSUME TypeOK PROVE BP!BankType
  OBVIOUS
<1>1. [p \in Pids |-> [t \in TokenIdxs |-> balance[p][t] + lock_balance[p][t]]]
        \in [Pids -> [TokenIdxs -> Nat]]
  BY PositionsOfTypeOK
<1>2. total_fee \in Nat
  BY WidthAssumption DEF TypeOK, CountersType, U64
<1> QED
  BY <1>1, <1>2 DEF BP!BankType, BP!Players, Pids, TypeOK, SettlementType

\* The three copies of the sums that the instances bring are one.
LEMMA SameSums ==
  ASSUME NEW f, NEW n
  PROVE  Bank!SumTo(f, n) = SumTo(f, n) /\ BP!SumTo(f, n) = SumTo(f, n)
<1>1. /\ Bank!PartialSums(f) = PartialSums(f)
      /\ BP!PartialSums(f) = PartialSums(f)
  BY DEF Bank!PartialSums, BP!PartialSums, PartialSums
<1> QED
  BY <1>1 DEF Bank!SumTo, BP!SumTo, SumTo

\* The bank of module Exchange is the one that BankProofs is about.
LEMMA SameBank ==
  /\ Bank!Next => BP!Next
  /\ BP!Init => Bank!Init
  /\ Bank!bank_vars = BP!bank_vars
<1>1. ASSUME NEW p, NEW q, NEW fee_p, NEW fee_q, Bank!Settle(p, q, fee_p, fee_q)
      PROVE  BP!Settle(p, q, fee_p, fee_q)
  BY <1>1 DEF Bank!Settle, Bank!Arrives, Bank!Part, Bank!Players,
              BP!Settle, BP!Arrives, BP!Part, BP!Players
<1>2. ASSUME NEW p, NEW q, NEW t, NEW n
      PROVE  /\ Bank!Credit(p, t, n) => BP!Credit(p, t, n)
             /\ Bank!Debit(p, t, n) => BP!Debit(p, t, n)
             /\ Bank!Move(p, q, t, n) => BP!Move(p, q, t, n)
  BY DEF Bank!Credit, Bank!Debit, Bank!Move, BP!Credit, BP!Debit, BP!Move
<1>3. Bank!Players = BP!Players
  BY DEF Bank!Players, BP!Players
<1>4. Bank!Next => BP!Next
  BY <1>1, <1>2, <1>3 DEF Bank!Next, BP!Next
<1>5. BP!Init => Bank!Init
  <2>1. ASSUME NEW t PROVE Bank!Total(t) = BP!Total(t)
    BY SameSums DEF Bank!Total, Bank!FeesIn, Bank!Players,
           BP!Total, BP!FeesIn, BP!Players
  <2>2. BP!BankType => Bank!BankType
    BY DEF Bank!BankType, Bank!Players, BP!BankType, BP!Players
  <2> QED
    BY <2>1, <2>2 DEF Bank!Init, BP!Init
<1>6. Bank!bank_vars = BP!bank_vars
  BY DEF Bank!bank_vars, BP!bank_vars
<1> QED
  BY <1>4, <1>5, <1>6

\* Two players and the fees fit u64 when all that was deposited does.
LEMMA TwoFitU64 ==
  ASSUME TypeOK, BP!Sound, NEW p \in Pids, NEW q \in Pids, p # q,
         NEW t \in TokenIdxs, deposited[t] <= MaxU64
  PROVE  HeldBy(p, t) + HeldBy(q, t) + (IF t = FeeToken THEN total_fee ELSE 0)
           <= MaxU64
<1>1. BP!BankConstants /\ BP!BankType /\ MaxU64 \in Int
  BY BankConstantsHold, BankTypeHolds
<1>2. p \in BP!Players /\ q \in BP!Players
  BY DEF BP!Players, Pids
<1>3. BP!Total(t) = deposited[t] /\ deposited[t] \in Nat
  BY DEF BP!Sound, TypeOK, SettlementType
<1>4. Wealth[p][t] + Wealth[q][t] + BP!FeesIn(t) <= BP!Total(t)
  BY <1>1, <1>2, BP!TwoFit DEF Wealth, HeldBy
<1>5. Wealth[p][t] = HeldBy(p, t) /\ Wealth[q][t] = HeldBy(q, t)
  BY DEF Wealth
<1>6. HeldBy(p, t) \in Nat /\ HeldBy(q, t) \in Nat /\ total_fee \in Nat
  BY PositionsOfTypeOK, WidthAssumption DEF HeldBy, TypeOK, CountersType, U64
<1> QED
  BY <1>1, <1>3, <1>4, <1>5, <1>6 DEF BP!FeesIn
-----------------------------------------------------------------------------
(* The operations that move nothing between players.                       *)

NothingMoves ==
  /\ \A p \in Pids, t \in TokenIdxs : HeldBy(p, t)' = HeldBy(p, t)
  /\ UNCHANGED <<total_fee, deposited, withdrawn>>

LEMMA NothingMovesStutters == NothingMoves => UNCHANGED Bank!bank_vars
BY DEF NothingMoves, HeldBy, Bank!bank_vars

LEMMA FrameMovesNothing ==
  UNCHANGED <<balance, lock_balance, total_fee, deposited, withdrawn>>
    => NothingMoves
BY DEF NothingMoves, HeldBy

\* Placing an order moves its cost and its fee from the available balance to
\* the locked one.
LEMMA PlacingMovesNothing ==
  ASSUME TypeOK, NEW pid \in Pids, NEW t \in TokenIdxs, NEW cost \in Int,
         NEW order, PlaceOrder(pid, t, cost, order)
  PROVE  NothingMoves
<1> DEFINE bal == Minus(balance, pid, t, cost)
           lock == Plus(lock_balance, pid, t, cost)
<1>1. /\ balance' = Minus(bal, pid, FeeToken, Fee)
      /\ lock_balance' = Plus(lock, pid, FeeToken, Fee)
      /\ UNCHANGED <<total_fee, deposited, withdrawn>>
  BY DEF PlaceOrder, history
<1>2. Fee \in Int /\ FeeToken \in TokenIdxs
  BY ConfigAssumption, TokenAssumption DEF U64
<1>3. /\ bal \in [Pids -> [TokenIdxs -> Int]]
      /\ lock \in [Pids -> [TokenIdxs -> Int]]
  BY PositionsOfTypeOK DEF Minus, Plus
<1>4. ASSUME NEW p \in Pids, NEW u \in TokenIdxs
      PROVE  bal[p][u] + lock[p][u] = balance[p][u] + lock_balance[p][u]
  BY PositionsOfTypeOK DEF Minus, Plus
<1> HIDE DEF bal, lock
<1>5. ASSUME NEW p \in Pids, NEW u \in TokenIdxs
      PROVE  balance'[p][u] + lock_balance'[p][u] = bal[p][u] + lock[p][u]
  BY <1>1, <1>2, <1>3 DEF Minus, Plus
<1> QED
  BY <1>1, <1>4, <1>5 DEF NothingMoves, HeldBy

\* Cancelling moves them back.
LEMMA CancellingMovesNothing ==
  ASSUME TypeOK, NEW pid \in Pids, NEW order_id, CancelOrder(pid, order_id)
  PROVE  NothingMoves
<1> DEFINE o == orders[order_id]
           t == OrderToken(o)
           bal == Plus(balance, o.pid, t, o.lock_balance)
           lock == Minus(lock_balance, o.pid, t, o.lock_balance)
<1>1. /\ balance' = Plus(bal, o.pid, FeeToken, o.lock_fee)
      /\ lock_balance' = Minus(lock, o.pid, FeeToken, o.lock_fee)
      /\ UNCHANGED <<total_fee, deposited, withdrawn>>
  BY DEF CancelOrder, Unlocked, history
<1>2. /\ o.pid \in Pids /\ t \in TokenIdxs /\ FeeToken \in TokenIdxs
      /\ o.lock_balance \in Int /\ o.lock_fee \in Int
  <2>1. order_id \in DOMAIN orders
    BY DEF CancelOrder
  <2>2. o \in OrderType /\ t \in TokenIdxs
    BY <2>1, OrderAt
  <2> QED
    BY <2>2, TokenAssumption, WidthAssumption DEF OrderType, U64
<1> HIDE DEF o, t
<1>3. /\ bal \in [Pids -> [TokenIdxs -> Int]]
      /\ lock \in [Pids -> [TokenIdxs -> Int]]
  BY <1>2, PositionsOfTypeOK DEF Minus, Plus
<1>4. ASSUME NEW p \in Pids, NEW u \in TokenIdxs
      PROVE  bal[p][u] + lock[p][u] = balance[p][u] + lock_balance[p][u]
  BY <1>2, PositionsOfTypeOK DEF Minus, Plus
<1> HIDE DEF bal, lock
<1>5. ASSUME NEW p \in Pids, NEW u \in TokenIdxs
      PROVE  balance'[p][u] + lock_balance'[p][u] = bal[p][u] + lock[p][u]
  BY <1>1, <1>2, <1>3 DEF Minus, Plus
<1> QED
  BY <1>1, <1>4, <1>5 DEF NothingMoves, HeldBy

-----------------------------------------------------------------------------
(* The operations that move money.                                         *)

LEMMA MoveAmountsAreNat ==
  /\ MoveAmounts \subseteq Nat /\ TradeAmounts \subseteq Nat
  /\ MoveAmounts \subseteq MoveAmounts \cup TradeAmounts
BY InputAssumption, WidthAssumption DEF U64

\* An update of the holdings, point by point.
Updated(w2, w, p, t, n) ==
  /\ w \in [Pids -> [TokenIdxs -> Int]]
  /\ p \in Pids /\ t \in TokenIdxs /\ n \in Int
  /\ \A r \in Pids, u \in TokenIdxs :
       w2[r][u] = IF r = p /\ u = t THEN w[r][u] + n ELSE w[r][u]

LEMMA WealthUpdate ==
  ASSUME NEW w, NEW p, NEW t, NEW n, Updated(Wealth', w, p, t, n)
  PROVE  /\ Wealth' = [w EXCEPT ![p][t] = @ + n]
         /\ Wealth' = [w EXCEPT ![p][t] = @ - (0 - n)]
<1>1. Wealth' = [r \in Pids |-> [u \in TokenIdxs |-> Wealth'[r][u]]]
  BY DEF Wealth
<1>2. w[p][t] + n = w[p][t] - (0 - n)
  BY DEF Updated
<1>3. Wealth' = [w EXCEPT ![p][t] = @ + n]
  BY <1>1 DEF Updated
<1> QED
  BY <1>2, <1>3

LEMMA DepositCredits ==
  ASSUME TypeOK, NEW signer \in Pids, NEW p \in Pids, NEW t \in TokenIdxs,
         NEW n \in MoveAmounts, Deposit(signer, p, t, n)
  PROVE  Bank!Credit(p, t, n)
<1>1. /\ balance' = [balance EXCEPT ![p][t] = @ + n]
      /\ lock_balance' = lock_balance
      /\ deposited' = [deposited EXCEPT ![t] = @ + n]
      /\ total_fee' = total_fee /\ withdrawn' = withdrawn
  BY DEF Deposit, Plus
<1>2. n \in Int
  BY MoveAmountsAreNat
<1>3. Wealth' = [Wealth EXCEPT ![p][t] = @ + n]
  <2>1. Wealth \in [Pids -> [TokenIdxs -> Int]]
    BY PositionsOfTypeOK DEF Wealth, HeldBy
  <2>2. \A r \in Pids, u \in TokenIdxs :
          Wealth'[r][u] = IF r = p /\ u = t THEN Wealth[r][u] + n
                          ELSE Wealth[r][u]
    BY <1>1, <1>2, PositionsOfTypeOK DEF Wealth, HeldBy
  <2>3. Updated(Wealth', Wealth, p, t, n)
    BY <1>2, <2>1, <2>2 DEF Updated
  <2> QED
    BY <2>3, WealthUpdate
<1> QED
  BY <1>1, <1>3 DEF Bank!Credit, Wealth, HeldBy

LEMMA WithdrawDebits ==
  ASSUME TypeOK, NEW p \in Pids, NEW t \in TokenIdxs,
         NEW n \in MoveAmounts, Withdraw(p, t, n)
  PROVE  Bank!Debit(p, t, n)
<1>1. /\ balance' = [balance EXCEPT ![p][t] = @ - n]
      /\ lock_balance' = lock_balance
      /\ withdrawn' = [withdrawn EXCEPT ![t] = @ + n]
      /\ total_fee' = total_fee /\ deposited' = deposited
      /\ n <= balance[p][t]
  BY DEF Withdraw, Minus, CanDebit
<1>2. n \in Int
  BY MoveAmountsAreNat
<1>3. Wealth' = [Wealth EXCEPT ![p][t] = @ - n]
  <2>1. Wealth \in [Pids -> [TokenIdxs -> Int]]
    BY PositionsOfTypeOK DEF Wealth, HeldBy
  <2>2. \A r \in Pids, u \in TokenIdxs :
          Wealth'[r][u] = IF r = p /\ u = t THEN Wealth[r][u] + (0 - n)
                          ELSE Wealth[r][u]
    BY <1>1, <1>2, PositionsOfTypeOK DEF Wealth, HeldBy
  <2>3. Updated(Wealth', Wealth, p, t, 0 - n)
    BY <1>2, <2>1, <2>2 DEF Updated
  <2>4. Wealth' = [Wealth EXCEPT ![p][t] = @ - (0 - (0 - n))]
    BY <2>3, WealthUpdate
  <2>5. 0 - (0 - n) = n
    BY <1>2
  <2> QED
    BY <2>4, <2>5
<1>4. n <= Wealth[p][t]
  BY <1>1, <1>2, PositionsOfTypeOK DEF Wealth, HeldBy
<1> QED
  BY <1>1, <1>3, <1>4 DEF Bank!Debit, Wealth, HeldBy

LEMMA TransferMoves ==
  ASSUME TypeOK, NEW p \in Pids, NEW q \in Pids, NEW t \in TokenIdxs,
         NEW n \in MoveAmounts, Transfer(p, q, t, n)
  PROVE  Bank!Move(p, q, t, n)
<1> DEFINE bal == Minus(balance, p, t, n)
<1>1. /\ balance' = Plus(bal, q, t, n)
      /\ lock_balance' = lock_balance
      /\ UNCHANGED <<total_fee, deposited, withdrawn>>
      /\ n <= balance[p][t] /\ p # q
  BY DEF Transfer, CanDebit, history
<1>2. n \in Int
  BY MoveAmountsAreNat
<1>3. /\ bal \in [Pids -> [TokenIdxs -> Int]]
      /\ \A r \in Pids, u \in TokenIdxs :
           bal[r][u] = IF r = p /\ u = t THEN balance[r][u] - n
                       ELSE balance[r][u]
  BY <1>2, PositionsOfTypeOK DEF Minus
<1> HIDE DEF bal
<1>4. \A r \in Pids, u \in TokenIdxs :
        balance'[r][u] = IF r = q /\ u = t THEN bal[r][u] + n ELSE bal[r][u]
  BY <1>1, <1>2, <1>3 DEF Plus
<1> DEFINE less == [Wealth EXCEPT ![p][t] = @ - n]
<1>5. /\ Wealth \in [Pids -> [TokenIdxs -> Int]]
      /\ n <= Wealth[p][t]
  BY <1>1, <1>2, PositionsOfTypeOK DEF Wealth, HeldBy
<1>6. /\ less \in [Pids -> [TokenIdxs -> Int]]
      /\ \A r \in Pids, u \in TokenIdxs :
           less[r][u] = IF r = p /\ u = t THEN balance[r][u] + lock_balance[r][u] - n
                        ELSE balance[r][u] + lock_balance[r][u]
  <2>1. /\ less \in [Pids -> [TokenIdxs -> Int]]
        /\ \A r \in Pids, u \in TokenIdxs :
             less[r][u] = IF r = p /\ u = t THEN Wealth[r][u] - n
                          ELSE Wealth[r][u]
    BY <1>2, <1>5
  <2> QED
    BY <2>1, <1>2, PositionsOfTypeOK DEF Wealth, HeldBy
<1> HIDE DEF less
<1>7. \A r \in Pids, u \in TokenIdxs :
        Wealth'[r][u] = IF r = q /\ u = t THEN less[r][u] + n ELSE less[r][u]
  BY <1>1, <1>2, <1>3, <1>4, <1>6, PositionsOfTypeOK DEF Wealth, HeldBy
<1>8. Wealth' = [less EXCEPT ![q][t] = @ + n]
  <2>1. Updated(Wealth', less, q, t, n)
    BY <1>2, <1>6, <1>7 DEF Updated
  <2> QED
    BY <2>1, WealthUpdate
<1> QED
  BY <1>1, <1>5, <1>8 DEF Bank!Move, Wealth, HeldBy, less

-----------------------------------------------------------------------------
(* Trades.                                                                 *)

RefundFits(a, m, b_amount, r) ==
  balance[a.pid][m.token_a] + Debit(m.token_a, m.token_b, b_amount) + r
    <= MaxU64

\* What a trade adds to the available balances, with the refund unless it
\* would leave u64.
BalanceAfterTrade(a, b, m, a_amount, b_amount, r, p, t) ==
  CASE p = a.pid -> balance[p][t] + Debit(t, m.token_b, b_amount)
                      + (IF RefundFits(a, m, b_amount, r)
                         THEN Debit(t, m.token_a, r) ELSE 0)
    [] p = b.pid -> balance[p][t] + Debit(t, m.token_a, a_amount)
    [] OTHER -> balance[p][t]

LEMMA BalancesAfterTrade ==
  ASSUME TypeOK, NEW a, NEW b, NEW m, NEW a_amount \in Nat, NEW b_amount \in Nat,
         a.pid \in Pids, b.pid \in Pids, a.pid # b.pid,
         m.token_a \in TokenIdxs, m.token_b \in TokenIdxs,
         NEW r \in Nat, r = Refund(Executed(a, a_amount, a_amount, b_amount)),
         NEW p \in Pids, NEW t \in TokenIdxs
  PROVE  TradeBalances(a, b, m, a_amount, b_amount)[p][t] =
           BalanceAfterTrade(a, b, m, a_amount, b_amount, r, p, t)
<1> SUFFICES TradeBalances(a, b, m, a_amount, b_amount)[p][t] =
               CASE p = a.pid -> balance[p][t] + Debit(t, m.token_b, b_amount)
                                   + (IF RefundFits(a, m, b_amount, r)
                                      THEN Debit(t, m.token_a, r) ELSE 0)
                 [] p = b.pid -> balance[p][t] + Debit(t, m.token_a, a_amount)
                 [] OTHER -> balance[p][t]
  BY DEF BalanceAfterTrade
<1> DEFINE first == Plus(balance, b.pid, m.token_a, a_amount)
           second == Plus(first, a.pid, m.token_b, b_amount)
           last == TryPlus(second, a.pid, m.token_a, r)
<1>1. a_amount \in Int /\ b_amount \in Int /\ r \in Int
  OBVIOUS
<1>2. /\ first \in [Pids -> [TokenIdxs -> Int]]
      /\ \A w \in Pids, v \in TokenIdxs :
           first[w][v] = IF w = b.pid /\ v = m.token_a
                         THEN balance[w][v] + a_amount ELSE balance[w][v]
  BY <1>1, PositionsOfTypeOK DEF Plus
<1> HIDE DEF first
<1>3. /\ second \in [Pids -> [TokenIdxs -> Int]]
      /\ \A w \in Pids, v \in TokenIdxs :
           second[w][v] = IF w = a.pid /\ v = m.token_b
                          THEN first[w][v] + b_amount ELSE first[w][v]
  BY <1>1, <1>2 DEF Plus
<1> HIDE DEF second
<1>4. last[p][t] = IF p = a.pid /\ t = m.token_a
                   THEN IF second[p][t] + r <= MaxU64 THEN second[p][t] + r
                        ELSE second[p][t]
                   ELSE second[p][t]
  BY <1>1, <1>3 DEF TryPlus
<1> HIDE DEF last
<1>5. TradeBalances(a, b, m, a_amount, b_amount) = last
  BY DEF TradeBalances, TradeProceeds, last, second, first
<1>6. /\ balance[p][t] \in Int /\ balance[a.pid][m.token_a] \in Int
      /\ second[a.pid][m.token_a] =
           balance[a.pid][m.token_a] + Debit(m.token_a, m.token_b, b_amount)
  BY <1>2, <1>3, PositionsOfTypeOK DEF Debit
<1>7. CASE p = a.pid
  BY <1>1, <1>2, <1>3, <1>4, <1>5, <1>6, <1>7 DEF Debit, RefundFits
<1>8. CASE p = b.pid
  BY <1>1, <1>2, <1>3, <1>4, <1>5, <1>6, <1>8 DEF Debit, RefundFits
<1>9. CASE p # a.pid /\ p # b.pid
  BY <1>2, <1>3, <1>4, <1>5, <1>9
<1> QED
  BY <1>7, <1>8, <1>9

\* A sum of fees wraps to less, or not at all.
LEMMA WrapAtMost ==
  ASSUME NEW x \in Nat
  PROVE  Wrap(x) \in 0 .. x /\ (x <= MaxU64 => Wrap(x) = x)
<1>1. MaxU64 + 1 \in Nat /\ MaxU64 + 1 > 0
  BY WidthAssumption
<1> DEFINE d == MaxU64 + 1
<1>2. x % d \in Nat /\ x % d <= x /\ (x < d => x % d = x)
  <2> HIDE DEF d
  <2> QED
    BY <1>1 DEF d
<1> QED
  BY <1>2, WidthAssumption DEF Wrap

\* A trade of careful players is one settlement between them: what its eight
\* positions gain and lose adds up to one exchange and the two fees, whichever
\* of them are one.
LEMMA TradeSettles ==
  ASSUME BankInv, TypeOK', CarefulTrades, CarefulTrades', NEW signer \in Pids, NEW a_id, NEW b_id,
         NEW a_amount \in TradeAmounts, NEW b_amount \in TradeAmounts,
         AddTrade(signer, a_id, b_id, a_amount, b_amount)
  PROVE  \E p, q \in Pids, fee_p, fee_q \in {0, Fee} :
           Bank!Settle(p, q, fee_p, fee_q)
<1> DEFINE a == orders[a_id]
           b == orders[b_id]
           m == markets[a.market_id]
           r == Refund(Executed(a, a_amount, a_amount, b_amount))
<1>0. TypeOK /\ LockAccounting /\ FeeKnown /\ BP!Sound
  BY DEF BankInv
<1>1. /\ a_amount \in U64 /\ b_amount \in U64
      /\ a_amount \in Nat /\ b_amount \in Nat
      /\ a_amount \in Int /\ b_amount \in Int
  BY InputAssumption, MoveAmountsAreNat DEF U64
<1>2. /\ a_id \in DOMAIN orders /\ b_id \in DOMAIN orders
      /\ CanTrade(a, b, a_amount, b_amount)
      /\ balance' = TradeBalances(a, b, m, a_amount, b_amount)
      /\ total_fee' = Wrap(total_fee + TradeFees(a, b))
      /\ deposited' = deposited /\ withdrawn' = withdrawn
  BY DEF AddTrade, history
<1>3. /\ a \in OrderType /\ b \in OrderType
      /\ a.pid \in Pids /\ b.pid \in Pids /\ a.pid # b.pid
      /\ m.token_a \in TokenIdxs /\ m.token_b \in TokenIdxs
  BY <1>0, <1>1, <1>2, CanTradeFacts
<1>4. a.lock_fee \in {0, Fee} /\ b.lock_fee \in {0, Fee}
  BY <1>0, <1>2 DEF FeeKnown
<1>5. /\ r \in Nat
      /\ \A v \in TokenIdxs :
           /\ Debit(v, m.token_a, a_amount + r) + Debit(v, FeeToken, a.lock_fee)
                <= lock_balance[a.pid][v]
           /\ Debit(v, m.token_b, b_amount) + Debit(v, FeeToken, b.lock_fee)
                <= lock_balance[b.pid][v]
      /\ \A p \in Pids, t \in TokenIdxs :
           lock_balance'[p][t] =
             CASE p = a.pid ->
                    lock_balance[p][t] - Debit(t, m.token_a, a_amount + r)
                      - Debit(t, FeeToken, a.lock_fee)
               [] p = b.pid ->
                    lock_balance[p][t] - Debit(t, m.token_b, b_amount)
                      - Debit(t, FeeToken, b.lock_fee)
               [] OTHER -> lock_balance[p][t]
  <2>1. Careful(a.pid) /\ Careful(b.pid)
    <3> DEFINE tr == [a_order_id |-> a_id, b_order_id |-> b_id,
                      a_actual_amount |-> a_amount, b_actual_amount |-> b_amount]
    <3>1. trades' = Append(trades, tr)
      BY DEF AddTrade
    <3>2. tr.a_order_id = a_id /\ tr.b_order_id = b_id
      OBVIOUS
    <3>3. SidesKept
      BY <1>0, SidesTraded
    <3> HIDE DEF tr
    <3> QED
      BY <1>0, <1>2, <3>1, <3>2, <3>3, TradersAreCareful
  <2> HIDE DEF a, b, m, r
  <2>2. /\ r \in Nat
        /\ \A v \in TokenIdxs :
             /\ Debit(v, m.token_a, a_amount + r) + Debit(v, FeeToken, a.lock_fee)
                  <= lock_balance[a.pid][v]
             /\ lock_balance'[a.pid][v] =
                  lock_balance[a.pid][v] - Debit(v, m.token_a, a_amount + r)
                    - Debit(v, FeeToken, a.lock_fee)
             /\ Debit(v, m.token_b, b_amount) + Debit(v, FeeToken, b.lock_fee)
                  <= lock_balance[b.pid][v]
             /\ lock_balance'[b.pid][v] =
                  lock_balance[b.pid][v] - Debit(v, m.token_b, b_amount)
                    - Debit(v, FeeToken, b.lock_fee)
        /\ \A p \in Pids \ {a.pid, b.pid}, v \in TokenIdxs :
             lock_balance'[p][v] = lock_balance[p][v]
    BY <1>0, <2>1, LocksAfterTrade DEF a, b, m, r
  <2>3. ASSUME NEW p \in Pids, NEW t \in TokenIdxs
        PROVE  lock_balance'[p][t] =
             CASE p = a.pid ->
                    lock_balance[p][t] - Debit(t, m.token_a, a_amount + r)
                      - Debit(t, FeeToken, a.lock_fee)
               [] p = b.pid ->
                    lock_balance[p][t] - Debit(t, m.token_b, b_amount)
                      - Debit(t, FeeToken, b.lock_fee)
               [] OTHER -> lock_balance[p][t]
    BY <1>3, <2>1, <2>2
  <2> QED
    BY <2>1, <2>2, <2>3
<1> DEFINE kept == RefundFits(a, m, b_amount, r)
<1>6. \A p \in Pids, t \in TokenIdxs :
        balance'[p][t] =
          CASE p = a.pid -> balance[p][t] + Debit(t, m.token_b, b_amount)
                              + (IF kept THEN Debit(t, m.token_a, r) ELSE 0)
            [] p = b.pid -> balance[p][t] + Debit(t, m.token_a, a_amount)
            [] OTHER -> balance[p][t]
  <2> TAKE p \in Pids, t \in TokenIdxs
  <2>1. r \in Nat /\ r = Refund(Executed(a, a_amount, a_amount, b_amount))
    BY <1>5
  <2> HIDE DEF a, b, m, r, kept
  <2>2. TradeBalances(a, b, m, a_amount, b_amount)[p][t] =
          BalanceAfterTrade(a, b, m, a_amount, b_amount, r, p, t)
    BY <1>0, <1>1, <1>3, <2>1, BalancesAfterTrade
  <2> QED
    BY <1>2, <2>2 DEF BalanceAfterTrade, kept
<1> HIDE DEF a, b, m, r
<1>7. a.lock_fee \in Nat /\ b.lock_fee \in Nat /\ total_fee \in Nat
  <2>1. Fee \in Nat
    BY ConfigAssumption, WidthAssumption DEF U64
  <2>2. total_fee \in Nat
    BY <1>0, WidthAssumption DEF U64, TypeOK, CountersType
  <2> QED
    BY <1>4, <2>1, <2>2
<1>8. deposited[m.token_a] <= MaxU64 => kept
  <2> SUFFICES ASSUME deposited[m.token_a] <= MaxU64 PROVE kept
    OBVIOUS
  <2> DEFINE t == m.token_a
  <2>1. HeldBy(a.pid, t) + HeldBy(b.pid, t)
          + (IF t = FeeToken THEN total_fee ELSE 0) <= MaxU64
    BY <1>0, <1>3, TwoFitU64
  <2>2. /\ balance[a.pid][t] \in Nat /\ lock_balance[a.pid][t] \in Nat
        /\ balance[b.pid][t] \in Nat /\ lock_balance[b.pid][t] \in Nat
        /\ MaxU64 \in Nat
    BY <1>0, <1>3, PositionsOfTypeOK, WidthAssumption
  <2>3. /\ Debit(t, t, a_amount + r) + Debit(t, FeeToken, a.lock_fee)
             <= lock_balance[a.pid][t]
        /\ Debit(t, m.token_b, b_amount) + Debit(t, FeeToken, b.lock_fee)
             <= lock_balance[b.pid][t]
    BY <1>3, <1>5
  <2> HIDE DEF t
  <2>4. balance[a.pid][t] + Debit(t, m.token_b, b_amount) + r <= MaxU64
    BY <1>1, <1>5, <1>7, <2>1, <2>2, <2>3 DEF HeldBy, Debit
  <2> QED
    BY <2>4 DEF t, RefundFits
<1> HIDE DEF kept
<1>9. ASSUME NEW t \in TokenIdxs
      PROVE  /\ Wealth'[a.pid][t] \in
                  0 .. HeldBy(a.pid, t) - Debit(t, m.token_a, a_amount)
                         + Debit(t, m.token_b, b_amount)
                         - Debit(t, FeeToken, a.lock_fee)
             /\ deposited[t] <= MaxU64 =>
                  Wealth'[a.pid][t] =
                    HeldBy(a.pid, t) - Debit(t, m.token_a, a_amount)
                      + Debit(t, m.token_b, b_amount)
                      - Debit(t, FeeToken, a.lock_fee)
  <2>1. /\ balance[a.pid][t] \in Nat /\ lock_balance[a.pid][t] \in Nat
    BY <1>0, <1>3, PositionsOfTypeOK
  <2>2. balance'[a.pid][t] =
          balance[a.pid][t] + Debit(t, m.token_b, b_amount)
            + (IF kept THEN Debit(t, m.token_a, r) ELSE 0)
    BY <1>3, <1>6
  <2>3. /\ lock_balance'[a.pid][t] =
             lock_balance[a.pid][t] - Debit(t, m.token_a, a_amount + r)
               - Debit(t, FeeToken, a.lock_fee)
        /\ Debit(t, m.token_a, a_amount + r) + Debit(t, FeeToken, a.lock_fee)
             <= lock_balance[a.pid][t]
    BY <1>3, <1>5
  <2>4. /\ Debit(t, m.token_a, a_amount + r) =
             Debit(t, m.token_a, a_amount) + Debit(t, m.token_a, r)
        /\ Debit(t, m.token_a, a_amount) \in Nat /\ Debit(t, m.token_a, r) \in Nat
        /\ Debit(t, m.token_b, b_amount) \in Nat
        /\ Debit(t, FeeToken, a.lock_fee) \in Nat
    BY <1>1, <1>5, <1>7 DEF Debit
  <2>5. ~kept => t # m.token_a \/ ~(deposited[t] <= MaxU64)
    BY <1>8
  <2>6. t # m.token_a => Debit(t, m.token_a, r) = 0
    BY DEF Debit
  <2>7. Wealth'[a.pid][t] = balance'[a.pid][t] + lock_balance'[a.pid][t]
    BY <1>3 DEF Wealth, HeldBy
  <2> QED
    BY <2>1, <2>2, <2>3, <2>4, <2>5, <2>6, <2>7 DEF HeldBy
<1>10. ASSUME NEW t \in TokenIdxs
       PROVE  Wealth'[b.pid][t] =
                HeldBy(b.pid, t) + Debit(t, m.token_a, a_amount)
                  - Debit(t, m.token_b, b_amount)
                  - Debit(t, FeeToken, b.lock_fee)
  <2>1. /\ balance[b.pid][t] \in Nat /\ lock_balance[b.pid][t] \in Nat
    BY <1>0, <1>3, PositionsOfTypeOK
  <2>2. /\ balance'[b.pid][t] =
             balance[b.pid][t] + Debit(t, m.token_a, a_amount)
        /\ lock_balance'[b.pid][t] =
             lock_balance[b.pid][t] - Debit(t, m.token_b, b_amount)
               - Debit(t, FeeToken, b.lock_fee)
    BY <1>3, <1>5, <1>6
  <2>3. /\ Debit(t, m.token_a, a_amount) \in Nat
        /\ Debit(t, m.token_b, b_amount) \in Nat
        /\ Debit(t, FeeToken, b.lock_fee) \in Nat
    BY <1>1, <1>7 DEF Debit
  <2>4. Wealth'[b.pid][t] = balance'[b.pid][t] + lock_balance'[b.pid][t]
    BY <1>3 DEF Wealth, HeldBy
  <2> QED
    BY <2>1, <2>2, <2>3, <2>4 DEF HeldBy
<1>11. \A p \in Pids \ {a.pid, b.pid} : Wealth'[p] = Wealth[p]
  <2> SUFFICES ASSUME NEW p \in Pids, p # a.pid, p # b.pid
               PROVE  Wealth'[p] = Wealth[p]
    OBVIOUS
  <2>1. \A t \in TokenIdxs : HeldBy(p, t)' = HeldBy(p, t)
    BY <1>5, <1>6 DEF HeldBy
  <2> QED
    BY <2>1 DEF Wealth
<1>12. /\ total_fee' \in 0 .. total_fee + a.lock_fee + b.lock_fee
       /\ deposited[FeeToken] <= MaxU64 =>
            total_fee' = total_fee + a.lock_fee + b.lock_fee
  <2> DEFINE x == total_fee + a.lock_fee + b.lock_fee
  <2>1. x \in Nat /\ total_fee' = Wrap(x)
    BY <1>2, <1>7 DEF TradeFees
  <2>2. deposited[FeeToken] <= MaxU64 => x <= MaxU64
    <3> SUFFICES ASSUME deposited[FeeToken] <= MaxU64 PROVE x <= MaxU64
      OBVIOUS
    <3>1. FeeToken \in TokenIdxs /\ MaxU64 \in Nat
      BY TokenAssumption, WidthAssumption
    <3>2. HeldBy(a.pid, FeeToken) + HeldBy(b.pid, FeeToken) + total_fee <= MaxU64
      BY <1>0, <1>3, <3>1, TwoFitU64
    <3>3. /\ balance[a.pid][FeeToken] \in Nat
          /\ lock_balance[a.pid][FeeToken] \in Nat
          /\ balance[b.pid][FeeToken] \in Nat
          /\ lock_balance[b.pid][FeeToken] \in Nat
      BY <1>0, <1>3, <3>1, PositionsOfTypeOK
    <3>4. /\ Debit(FeeToken, m.token_a, a_amount + r) + a.lock_fee
               <= lock_balance[a.pid][FeeToken]
          /\ Debit(FeeToken, m.token_b, b_amount) + b.lock_fee
               <= lock_balance[b.pid][FeeToken]
      BY <1>5, <3>1 DEF Debit
    <3>5. /\ Debit(FeeToken, m.token_a, a_amount + r) \in Nat
          /\ Debit(FeeToken, m.token_b, b_amount) \in Nat
      BY <1>1, <1>5 DEF Debit
    <3> QED
      BY <1>7, <3>1, <3>2, <3>3, <3>4, <3>5 DEF HeldBy
  <2> HIDE DEF x
  <2>3. total_fee' \in 0 .. x /\ (deposited[FeeToken] <= MaxU64 => total_fee' = x)
    BY <2>1, <2>2, WrapAtMost
  <2>4. x = total_fee + a.lock_fee + b.lock_fee
    BY DEF x
  <2> QED
    BY <2>3, <2>4
<1>13. Wealth' \in [Bank!Players -> [TokenIdxs -> Nat]]
  <2>1. /\ balance' \in [Pids -> [TokenIdxs -> Nat]]
        /\ lock_balance' \in [Pids -> [TokenIdxs -> Nat]]
    BY WidthAssumption DEF TypeOK, AccountsType, U64
  <2> QED
    BY <2>1 DEF Wealth, HeldBy, Bank!Players, Pids
<1>14. ASSUME NEW t \in TokenIdxs
       PROVE  /\ Bank!Arrives(Wealth'[a.pid][t],
                    Wealth[a.pid][t] - Bank!Part(t, m.token_a, a_amount)
                      + Bank!Part(t, m.token_b, b_amount)
                      - Bank!Part(t, FeeToken, a.lock_fee), t)
              /\ Wealth'[b.pid][t] =
                    Wealth[b.pid][t] + Bank!Part(t, m.token_a, a_amount)
                      - Bank!Part(t, m.token_b, b_amount)
                      - Bank!Part(t, FeeToken, b.lock_fee)
  <2>1. /\ Wealth[a.pid][t] = HeldBy(a.pid, t)
        /\ Wealth[b.pid][t] = HeldBy(b.pid, t)
    BY <1>3 DEF Wealth, HeldBy
  <2>2. ASSUME NEW u, NEW n PROVE Bank!Part(t, u, n) = Debit(t, u, n)
    BY DEF Bank!Part, Debit
  <2> QED
    BY <1>9, <1>10, <2>1, <2>2 DEF Bank!Arrives
<1>15. Bank!Arrives(total_fee', total_fee + a.lock_fee + b.lock_fee, FeeToken)
  BY <1>12 DEF Bank!Arrives
<1>16. /\ a_amount \in MoveAmounts \cup TradeAmounts
       /\ b_amount \in MoveAmounts \cup TradeAmounts
  OBVIOUS
<1>17. \A p \in Bank!Players \ {a.pid, b.pid} : Wealth'[p] = Wealth[p]
  BY <1>11 DEF Bank!Players, Pids
<1>18. \E ta, tb \in TokenIdxs, x, y \in MoveAmounts \cup TradeAmounts :
          \A t \in TokenIdxs :
            /\ Bank!Arrives(Wealth'[a.pid][t],
                  Wealth[a.pid][t] - Bank!Part(t, ta, x) + Bank!Part(t, tb, y)
                    - Bank!Part(t, FeeToken, a.lock_fee), t)
            /\ Wealth'[b.pid][t] =
                  Wealth[b.pid][t] + Bank!Part(t, ta, x) - Bank!Part(t, tb, y)
                    - Bank!Part(t, FeeToken, b.lock_fee)
  BY <1>3, <1>14, <1>16
<1>19. PICK p \in Pids, q \in Pids, fee_p \in {0, Fee}, fee_q \in {0, Fee} :
         p = a.pid /\ q = b.pid /\ fee_p = a.lock_fee /\ fee_q = b.lock_fee
  BY <1>3, <1>4
<1>20. /\ p # q
       /\ \A w \in Bank!Players \ {p, q} : Wealth'[w] = Wealth[w]
  BY <1>3, <1>17, <1>19
<1>21. Bank!Arrives(total_fee', total_fee + fee_p + fee_q, FeeToken)
  BY <1>15, <1>19 DEF Bank!Arrives
<1>22. \E ta, tb \in TokenIdxs, x, y \in MoveAmounts \cup TradeAmounts :
          \A t \in TokenIdxs :
            /\ Bank!Arrives(Wealth'[p][t],
                  Wealth[p][t] - Bank!Part(t, ta, x) + Bank!Part(t, tb, y)
                    - Bank!Part(t, FeeToken, fee_p), t)
            /\ Wealth'[q][t] =
                  Wealth[q][t] + Bank!Part(t, ta, x) - Bank!Part(t, tb, y)
                    - Bank!Part(t, FeeToken, fee_q)
  <2>1. PICK ta \in TokenIdxs, tb \in TokenIdxs,
             x \in MoveAmounts \cup TradeAmounts,
             y \in MoveAmounts \cup TradeAmounts :
          \A t \in TokenIdxs :
            /\ Bank!Arrives(Wealth'[a.pid][t],
                  Wealth[a.pid][t] - Bank!Part(t, ta, x) + Bank!Part(t, tb, y)
                    - Bank!Part(t, FeeToken, a.lock_fee), t)
            /\ Wealth'[b.pid][t] =
                  Wealth[b.pid][t] + Bank!Part(t, ta, x) - Bank!Part(t, tb, y)
                    - Bank!Part(t, FeeToken, b.lock_fee)
    BY <1>18
  <2>2. ASSUME NEW t \in TokenIdxs
        PROVE  /\ Bank!Arrives(Wealth'[p][t],
                    Wealth[p][t] - Bank!Part(t, ta, x) + Bank!Part(t, tb, y)
                      - Bank!Part(t, FeeToken, fee_p), t)
               /\ Wealth'[q][t] =
                    Wealth[q][t] + Bank!Part(t, ta, x) - Bank!Part(t, tb, y)
                      - Bank!Part(t, FeeToken, fee_q)
    BY <1>19, <2>1 DEF Bank!Arrives
  <2> QED
    BY <2>2
<1>23. Bank!Settle(p, q, fee_p, fee_q)
  BY <1>2, <1>13, <1>20, <1>21, <1>22 DEF Bank!Settle, Wealth, HeldBy
<1> QED
  BY <1>23

-----------------------------------------------------------------------------
(* What becomes of the fees of the orders.                                 *)

LEMMA FeesPlaced ==
  ASSUME TypeOK, FeeKnown, NEW order, order.lock_fee = Fee,
         orders' = Append(orders, order)
  PROVE  FeeKnown'
<1>1. orders \in Seq(OrderType)
  BY DEF TypeOK
<1>2. /\ DOMAIN orders' = 1 .. Len(orders) + 1 /\ DOMAIN orders = 1 .. Len(orders)
      /\ \A i \in DOMAIN orders : orders'[i] = orders[i]
      /\ orders'[Len(orders) + 1] = order
      /\ Len(orders) \in Nat
  BY <1>1, AppendProperties, LenProperties
<1>3. \A i \in DOMAIN orders' : i \in DOMAIN orders \/ i = Len(orders) + 1
  BY <1>2
<1> QED
  BY <1>2, <1>3 DEF FeeKnown

LEMMA FeesCancelled ==
  ASSUME TypeOK, FeeKnown, NEW pid, NEW order_id, CancelOrder(pid, order_id)
  PROVE  FeeKnown'
<1>1. /\ order_id \in DOMAIN orders
      /\ orders' = [orders EXCEPT ![order_id] = Cancelled(orders[order_id])]
  BY DEF CancelOrder
<1>2. Cancelled(orders[order_id]).lock_fee = orders[order_id].lock_fee
  <2>1. orders[order_id] \in OrderType
    BY <1>1, OrderAt
  <2> QED
    BY <2>1 DEF Cancelled, OrderType
<1> QED
  BY <1>1, <1>2 DEF FeeKnown

LEMMA FeesTraded ==
  ASSUME TypeOK, TypeOK', FeeKnown, NEW signer \in Pids, NEW a_id, NEW b_id,
         NEW a_amount \in TradeAmounts, NEW b_amount \in TradeAmounts,
         AddTrade(signer, a_id, b_id, a_amount, b_amount)
  PROVE  FeeKnown'
<1> DEFINE a == orders[a_id]
           b == orders[b_id]
           ea == Executed(a, a_amount, a_amount, b_amount)
           eb == Executed(b, b_amount, a_amount, b_amount)
<1>1. a_amount \in U64 /\ b_amount \in U64
  BY InputAssumption
<1>2. /\ a_id \in DOMAIN orders /\ b_id \in DOMAIN orders
      /\ CanTrade(a, b, a_amount, b_amount)
  BY DEF AddTrade
<1>3. /\ orders'[a_id] = Released(ea) /\ orders'[b_id] = eb
      /\ Len(orders') = Len(orders)
      /\ \A i \in DOMAIN orders :
           i # a_id /\ i # b_id => orders'[i] = orders[i]
  BY TradedOrders
<1>4. /\ a \in OrderType /\ b \in OrderType
      /\ a.lock_balance >= a_amount /\ b.lock_balance >= b_amount
  BY <1>1, <1>2, CanTradeFacts
<1> HIDE DEF a, b
<1>5. ea \in OrderType /\ ea.lock_fee = 0 /\ eb.lock_fee = 0
  BY <1>1, <1>4, ExecutedType
<1> HIDE DEF ea, eb
<1>6. Released(ea).lock_fee = 0
  BY <1>5 DEF Released, OrderType
<1>7. DOMAIN orders' = DOMAIN orders
  BY <1>3, LenProperties DEF TypeOK
<1> QED
  BY <1>3, <1>5, <1>6, <1>7 DEF FeeKnown

-----------------------------------------------------------------------------
(* Every step.                                                             *)

\* What a step is to the bank, and what it leaves of the fees.
BankStep ==
  /\ [CarefulTrades' => Bank!Next]_(Bank!bank_vars)
  /\ FeeKnown'

LEMMA MoneyIsNext ==
  ASSUME NEW p \in Pids, NEW q \in Pids, NEW t \in TokenIdxs,
         NEW n \in MoveAmounts,
         Bank!Credit(p, t, n) \/ Bank!Debit(p, t, n) \/ Bank!Move(p, q, t, n)
  PROVE  Bank!Next
<1>1. p \in Bank!Players /\ q \in Bank!Players
  BY DEF Bank!Players, Pids
<1>2. n \in MoveAmounts \cup TradeAmounts
  OBVIOUS
<1> QED
  BY <1>1, <1>2 DEF Bank!Next

LEMMA StutterStep == NothingMoves /\ FeeKnown' => BankStep
BY NothingMovesStutters DEF BankStep

LEMMA OrdersKeptStep ==
  FeeKnown /\ UNCHANGED orders /\ NothingMoves => BankStep
BY StutterStep DEF FeeKnown

LEMMA LimitOrderStep ==
  ASSUME TypeOK, FeeKnown, NEW pid \in Pids, NEW market_id,
         NEW flag \in Flags, NEW price \in Prices, NEW amount \in LimitAmounts,
         AddLimitOrder(pid, market_id, flag, price, amount)
  PROVE  BankStep
<1> DEFINE cost == LimitCost(flag, price, amount)
           t == PayToken(flag, markets[market_id])
           order == NewOrder(TYPE_LIMIT, pid, market_id, flag, cost, price,
                             amount, 0)
<1>1. market_id \in DOMAIN markets /\ PlaceOrder(pid, t, cost, order)
  BY DEF AddLimitOrder, CanLoad
<1>2. t \in TokenIdxs
  BY <1>1, PayTokenType
<1>3. price \in Nat /\ amount \in Nat
  BY InputAssumption, WidthAssumption DEF U64
<1>4. cost \in Int
  BY <1>3, MulDivType DEF LimitCost
<1>5. order.lock_fee = Fee
  BY DEF NewOrder
<1> HIDE DEF cost, t, order
<1>6. NothingMoves
  BY <1>1, <1>2, <1>4, PlacingMovesNothing
<1>7. FeeKnown'
  BY <1>1, <1>5, FeesPlaced DEF PlaceOrder
<1> QED
  BY <1>6, <1>7, StutterStep

LEMMA MarketOrderStep ==
  ASSUME TypeOK, FeeKnown, NEW pid \in Pids, NEW market_id,
         NEW flag \in Flags, NEW b_amount \in MarketAmounts,
         NEW a_amount \in MarketAmounts,
         AddMarketOrder(pid, market_id, flag, b_amount, a_amount)
  PROVE  BankStep
<1> DEFINE last == markets[market_id].last_deal_price
           cost == MarketCost(flag, last, b_amount, a_amount)
           t == PayToken(flag, markets[market_id])
           order == NewOrder(TYPE_MARKET, pid, market_id, flag, cost, 0,
                             b_amount, a_amount)
<1>1. market_id \in DOMAIN markets /\ PlaceOrder(pid, t, cost, order)
  BY DEF AddMarketOrder, CanLoad
<1>2. t \in TokenIdxs
  BY <1>1, PayTokenType
<1>3. order.lock_fee = Fee
  BY DEF NewOrder
<1>4. cost \in Int
  <2>1. b_amount \in Nat /\ a_amount \in Nat
    BY InputAssumption, WidthAssumption DEF U64
  <2>2. last \in Nat
    <3>1. markets[market_id] \in MarketType
      BY <1>1, LenProperties, ElementOfSeq DEF TypeOK, ListingsType
    <3> QED
      BY <3>1, WidthAssumption DEF MarketType, U64
  <2>3. flag = FLAG_SELL /\ b_amount = 0 => last # 0
    BY DEF AddMarketOrder
  <2> HIDE DEF last
  <2> QED
    BY <2>1, <2>2, <2>3, MarketCostType
<1> HIDE DEF last, cost, t, order
<1>5. NothingMoves
  BY <1>1, <1>2, <1>4, PlacingMovesNothing
<1>6. FeeKnown'
  BY <1>1, <1>3, FeesPlaced DEF PlaceOrder
<1> QED
  BY <1>5, <1>6, StutterStep

\* Every transaction is one step of the bank or none, or the trade of a player
\* who is not careful.
LEMMA NextIsBankStep == BankInv /\ TypeOK' /\ [Next]_vars => BankStep
<1> SUFFICES ASSUME BankInv, TypeOK', [Next]_vars PROVE BankStep
  OBVIOUS
<1>0. TypeOK /\ FeeKnown
  BY DEF BankInv
<1>1. CASE \E pid \in Pids : RegisterPlayer(pid)
  BY <1>0, <1>1, FrameMovesNothing, OrdersKeptStep DEF RegisterPlayer, history
<1>2. CASE \E pid \in Pids, idx \in TokenIdxs, address \in Addresses :
             AddToken(pid, idx, address) \/ UpdateToken(pid, idx, address)
  BY <1>0, <1>2, FrameMovesNothing, OrdersKeptStep
  DEF AddToken, UpdateToken, StoreToken, history
<1>3. CASE \E pid \in Pids, token_a, token_b \in TokenIdxs, price \in Prices :
             AddMarket(pid, token_a, token_b, price)
  BY <1>0, <1>3, FrameMovesNothing, OrdersKeptStep DEF AddMarket, history
<1>4. CASE \E pid \in Pids, market_id \in 1 .. MaxMarkets :
             CloseMarket(pid, market_id)
  BY <1>0, <1>4, FrameMovesNothing, OrdersKeptStep DEF CloseMarket, history
<1>5. CASE \E signer, pid \in Pids, idx \in TokenIdxs, amount \in MoveAmounts :
             \/ Deposit(signer, pid, idx, amount)
             \/ Transfer(signer, pid, idx, amount)
  <2>1. PICK signer \in Pids, pid \in Pids, idx \in TokenIdxs,
             amount \in MoveAmounts :
          Deposit(signer, pid, idx, amount) \/ Transfer(signer, pid, idx, amount)
    BY <1>5
  <2>2. Bank!Credit(pid, idx, amount) \/ Bank!Move(signer, pid, idx, amount)
    BY <1>0, <2>1, DepositCredits, TransferMoves
  <2>3. Bank!Next
    BY <2>2, MoneyIsNext
  <2>4. orders' = orders
    BY <2>1 DEF Deposit, Transfer
  <2> QED
    BY <1>0, <2>3, <2>4 DEF BankStep, FeeKnown
<1>6. CASE \E pid \in Pids, idx \in TokenIdxs, amount \in MoveAmounts :
             Withdraw(pid, idx, amount)
  <2>1. PICK pid \in Pids, idx \in TokenIdxs, amount \in MoveAmounts :
          Withdraw(pid, idx, amount)
    BY <1>6
  <2>2. Bank!Debit(pid, idx, amount)
    BY <1>0, <2>1, WithdrawDebits
  <2>3. Bank!Next
    BY <2>2, MoneyIsNext
  <2>4. orders' = orders
    BY <2>1 DEF Withdraw
  <2> QED
    BY <1>0, <2>3, <2>4 DEF BankStep, FeeKnown
<1>7. CASE FlushSettlement
  BY <1>0, <1>7, FrameMovesNothing, OrdersKeptStep
  DEF FlushSettlement, accounts
<1>8. CASE \E pid \in Pids, market_id \in 1 .. MaxMarkets, flag \in Flags :
             \/ \E price \in Prices, amount \in LimitAmounts :
                  AddLimitOrder(pid, market_id, flag, price, amount)
             \/ \E b_amount, a_amount \in MarketAmounts :
                  AddMarketOrder(pid, market_id, flag, b_amount, a_amount)
  BY <1>0, <1>8, LimitOrderStep, MarketOrderStep
<1>9. CASE \E pid \in Pids, order_id \in 1 .. MaxOrders :
             CancelOrder(pid, order_id)
  BY <1>0, <1>9, CancellingMovesNothing, FeesCancelled, StutterStep
<1>10. CASE \E signer \in Pids, a_id, b_id \in 1 .. MaxOrders,
               a_amount, b_amount \in TradeAmounts :
              AddTrade(signer, a_id, b_id, a_amount, b_amount)
  <2>1. PICK signer \in Pids, a_id \in 1 .. MaxOrders, b_id \in 1 .. MaxOrders,
             a_amount \in TradeAmounts, b_amount \in TradeAmounts :
          AddTrade(signer, a_id, b_id, a_amount, b_amount)
    BY <1>10
  <2>2. ASSUME CarefulTrades'
        PROVE  \E p, q \in Bank!Players, fee_p, fee_q \in {0, Fee} :
                 Bank!Settle(p, q, fee_p, fee_q)
    <3>1. CarefulTrades
      BY <1>0, <2>2, CarefulTradesBefore
    <3> QED
      BY <2>1, <2>2, <3>1, TradeSettles DEF Bank!Players, Pids
  <2>3. CarefulTrades' => Bank!Next
    BY <2>2 DEF Bank!Next
  <2>4. FeeKnown'
    BY <1>0, <2>1, FeesTraded
  <2> QED
    BY <2>3, <2>4 DEF BankStep
<1>11. CASE UNCHANGED vars
  BY <1>0, <1>11, FrameMovesNothing, OrdersKeptStep DEF vars, accounts, history
<1> QED
  BY <1>1, <1>2, <1>3, <1>4, <1>5, <1>6, <1>7, <1>8, <1>9, <1>10, <1>11
  DEF Next

-----------------------------------------------------------------------------
(* The theorems.                                                           *)

LEMMA InitIsBankInit == Init => Bank!Init /\ BankInv
<1> SUFFICES ASSUME Init PROVE Bank!Init /\ BankInv
  OBVIOUS
<1>1. TypeOK /\ LockAccounting
  BY InitType, InitLocks
<1>2. FeeKnown
  BY DEF Init, FeeKnown
<1>3. ASSUME NEW t \in TokenIdxs PROVE BP!Total(t) = deposited[t]
  <2> DEFINE f == [p \in Pids |-> Wealth[p][t]]
  <2>1. \A p \in 1 .. NumPids : f[p] = 0
    BY DEF Init, Wealth, HeldBy, Pids
  <2> HIDE DEF f
  <2>2. SumTo(f, NumPids) = 0
    BY <2>1, SumToZeros, PidsAssumption
  <2>3. BP!SumTo(f, NumPids) = 0
    BY <2>2, SameSums
  <2>4. BP!Total(t) = BP!SumTo(f, NumPids) + BP!FeesIn(t) + withdrawn[t]
    BY DEF BP!Total, BP!Players, f, Wealth, HeldBy, Pids
  <2>5. BP!FeesIn(t) = 0 /\ withdrawn[t] = 0 /\ deposited[t] = 0
    BY DEF Init, BP!FeesIn
  <2> QED
    BY <2>3, <2>4, <2>5
<1>4. BP!BankType
  BY <1>1, BankTypeHolds
<1>5. BP!Init
  BY <1>3, <1>4 DEF BP!Init
<1>6. BP!Sound
  <2> SUFFICES ASSUME NEW t \in TokenIdxs
               PROVE  /\ BP!Total(t) <= deposited[t]
                      /\ deposited[t] <= MaxU64 => BP!Total(t) = deposited[t]
    BY DEF BP!Sound
  <2>1. deposited[t] \in Int
    BY DEF Init
  <2> QED
    BY <1>3, <2>1
<1> QED
  BY <1>1, <1>2, <1>5, <1>6, SameBank DEF BankInv

LEMMA BankInvKept ==
  BankInv /\ TypeOK' /\ LockAccounting' /\ [Next]_vars => BankInv'
<1> SUFFICES ASSUME BankInv, TypeOK', LockAccounting', [Next]_vars
             PROVE  BankInv'
  OBVIOUS
<1>1. BankStep
  BY NextIsBankStep
<1>2. ASSUME CarefulTrades' PROVE BP!Sound'
  <2>1. BP!BankConstants /\ BP!BankType /\ BP!Sound /\ MaxU64 \in Int
    BY <1>2, BankConstantsHold, BankTypeHolds, CarefulTradesBefore DEF BankInv
  <2>2. CASE Bank!Next
    <3>1. BP!Next
      BY <2>2, SameBank
    <3> QED
      BY <2>1, <3>1, BP!NextSound
  <2>3. CASE UNCHANGED Bank!bank_vars
    BY <2>1, <2>3 DEF Bank!bank_vars, BP!Sound, BP!Total, BP!FeesIn
  <2> QED
    BY <1>1, <1>2, <2>2, <2>3 DEF BankStep
<1> QED
  BY <1>1, <1>2 DEF BankInv, BankStep

\* The locks of careful players are accounted for, every lock_fee is the fee or
\* spent, and the bank is sound until a player who is not careful trades:
\* together inductive.
THEOREM BankInvariant == Spec => []BankInv
<1>1. Init => BankInv
  BY InitIsBankInit
<1>2. BankInv /\ TypeOK' /\ LockAccounting' /\ [Next]_vars => BankInv'
  BY BankInvKept
<1> QED
  BY <1>1, <1>2, TypeCorrect, LocksCorrect, PTL DEF Spec

\* The exchange implements the bank: whatever orders, markets and locks do,
\* from outside every transaction is a deposit, a withdrawal, a transfer, the
\* settlement of one trade, or nothing, until a player trades who has placed an
\* order that its byte turned.
THEOREM BankRefined == Spec => ActsAsABank
<1>1. Init => Bank!Init
  BY InitIsBankInit
<1>2. BankInv /\ TypeOK' /\ [Next]_vars
        => [CarefulTrades' => Bank!Next]_(Bank!bank_vars)
  BY NextIsBankStep DEF BankStep
<1> QED
  BY <1>1, <1>2, TypeCorrect, BankInvariant, PTL
  DEF Spec, ActsAsABank

\* What the exchange accounts for is the bank's total.
LEMMA AccountedIsTotal ==
  ASSUME TypeOK, NEW t \in TokenIdxs PROVE Accounted(t) = BP!Total(t)
<1> DEFINE f == [p \in Pids |-> Wealth[p][t]]
           g == [p \in Pids |-> balance[p][t] + lock_balance[p][t]]
<1>1. \A p \in 1 .. NumPids : f[p] = g[p]
  BY DEF Wealth, HeldBy, Pids
<1>2. BP!Total(t) = BP!SumTo(f, NumPids) + BP!FeesIn(t) + withdrawn[t]
  BY DEF BP!Total, BP!Players, Wealth, HeldBy, Pids
<1>3. Accounted(t) = SumTo(g, NumPids) + FeesHeld(t) + withdrawn[t]
  BY DEF Accounted, Held
<1> HIDE DEF f, g
<1>4. SumTo(f, NumPids) = SumTo(g, NumPids)
  BY <1>1, SumToSameTerms, PidsAssumption
<1> QED
  BY <1>2, <1>3, <1>4, SameSums DEF BP!FeesIn, FeesHeld

\* Whatever the supply, no transaction creates tokens while only careful players
\* trade: neither the wrapping sums nor the results that the code ignores.
THEOREM NoMintCorrect == Spec => []NoMint
<1>1. BankInv => NoMint
  BY AccountedIsTotal DEF BankInv, BP!Sound, NoMint
<1> QED
  BY <1>1, BankInvariant, PTL

SupplyBounded == \A t \in TokenIdxs : deposited[t] <= MaxSupply

LEMMA SupplyKept == TypeOK /\ SupplyBounded /\ [Next]_vars => SupplyBounded'
<1> SUFFICES ASSUME TypeOK, SupplyBounded, [Next]_vars PROVE SupplyBounded'
  OBVIOUS
<1>1. ASSUME NEW signer, NEW pid, NEW idx \in TokenIdxs, NEW amount,
             Deposit(signer, pid, idx, amount)
      PROVE  SupplyBounded'
  BY <1>1 DEF Deposit, SupplyBounded, TypeOK, SettlementType
<1>2. ASSUME deposited' = deposited PROVE SupplyBounded'
  BY <1>2 DEF SupplyBounded
<1>3. CASE \E signer, pid \in Pids, idx \in TokenIdxs, amount \in MoveAmounts :
             \/ Deposit(signer, pid, idx, amount)
             \/ Transfer(signer, pid, idx, amount)
  BY <1>1, <1>2, <1>3 DEF Transfer, history
<1>4. CASE \/ \E pid \in Pids : RegisterPlayer(pid)
           \/ \E pid \in Pids, idx \in TokenIdxs, address \in Addresses :
                AddToken(pid, idx, address) \/ UpdateToken(pid, idx, address)
           \/ \E pid \in Pids, token_a, token_b \in TokenIdxs, price \in Prices :
                AddMarket(pid, token_a, token_b, price)
           \/ \E pid \in Pids, market_id \in 1 .. MaxMarkets :
                CloseMarket(pid, market_id)
           \/ \E pid \in Pids, idx \in TokenIdxs, amount \in MoveAmounts :
                Withdraw(pid, idx, amount)
           \/ FlushSettlement
  BY <1>2, <1>4 DEF RegisterPlayer, AddToken, UpdateToken, StoreToken,
                    AddMarket, CloseMarket, Withdraw, FlushSettlement, history
<1>5. CASE \E pid \in Pids, market_id \in 1 .. MaxMarkets, flag \in Flags :
             \/ \E price \in Prices, amount \in LimitAmounts :
                  AddLimitOrder(pid, market_id, flag, price, amount)
             \/ \E b_amount, a_amount \in MarketAmounts :
                  AddMarketOrder(pid, market_id, flag, b_amount, a_amount)
  BY <1>2, <1>5 DEF AddLimitOrder, AddMarketOrder, PlaceOrder, history
<1>6. CASE \/ \E pid \in Pids, order_id \in 1 .. MaxOrders :
                CancelOrder(pid, order_id)
           \/ \E signer \in Pids, a_id, b_id \in 1 .. MaxOrders,
                 a_amount, b_amount \in TradeAmounts :
                AddTrade(signer, a_id, b_id, a_amount, b_amount)
  <2>1. ASSUME NEW pid \in Pids, NEW order_id \in 1 .. MaxOrders,
               CancelOrder(pid, order_id)
        PROVE  deposited' = deposited
    BY <2>1 DEF CancelOrder, history
  <2>2. ASSUME NEW signer \in Pids, NEW a_id \in 1 .. MaxOrders,
               NEW b_id \in 1 .. MaxOrders, NEW a_amount \in TradeAmounts,
               NEW b_amount \in TradeAmounts,
               AddTrade(signer, a_id, b_id, a_amount, b_amount)
        PROVE  deposited' = deposited
    BY <2>2 DEF AddTrade, history
  <2> QED
    BY <1>2, <1>6, <2>1, <2>2
<1>7. CASE UNCHANGED vars
  BY <1>2, <1>7 DEF vars, history
<1> QED
  BY <1>3, <1>4, <1>5, <1>6, <1>7 DEF Next

\* While the supply of a token fits u64 and only careful players trade, nothing
\* of it is ever lost either.
THEOREM ConservationCorrect == Spec => []Conservation
<1>1. Init => SupplyBounded
  BY WidthAssumption DEF Init, SupplyBounded
<1>2. TypeOK /\ SupplyBounded /\ [Next]_vars => SupplyBounded'
  BY SupplyKept
<1>3. BankInv /\ SupplyBounded => Conservation
  <2> SUFFICES ASSUME BankInv, SupplyBounded, MaxSupply <= MaxU64, CarefulTrades,
                      NEW t \in TokenIdxs
               PROVE  Accounted(t) = deposited[t]
    BY DEF Conservation
  <2>1. deposited[t] \in Nat /\ deposited[t] <= MaxSupply
    BY DEF BankInv, TypeOK, SettlementType, SupplyBounded
  <2>2. deposited[t] <= MaxU64
    BY <2>1, WidthAssumption
  <2> QED
    BY <2>2, AccountedIsTotal DEF BankInv, BP!Sound
<1> QED
  BY <1>1, <1>2, <1>3, TypeCorrect, BankInvariant, PTL DEF Spec


-----------------------------------------------------------------------------
(* Nonces.                                                                 *)

SignedByOne ==
  \/ nonce' = nonce /\ counter' = counter
  \/ /\ counter' = counter + 1
     /\ \E p \in Pids : nonce' = [nonce EXCEPT ![p] = @ + 1]

LEMMA CommitSigns ==
  ASSUME NEW pid \in Pids, Commit(pid) PROVE SignedByOne
BY DEF Commit, SignedByOne

\* Storing the depositor's record, then the admin's, is one increment of the
\* admin's nonce even when they are the same record.
LEMMA DepositSigns ==
  ASSUME TypeOK, NEW signer \in Pids, NEW pid \in Pids,
         NEW idx \in TokenIdxs, NEW amount \in MoveAmounts,
         Deposit(signer, pid, idx, amount)
  PROVE  SignedByOne
<1>1. nonce \in [Pids -> Nat] /\ Admin \in Pids
  BY PidsAssumption DEF TypeOK, AccountsType
<1>2. nonce' = [nonce EXCEPT ![Admin] = nonce[Admin] + 1]
  BY <1>1 DEF Deposit, DepositNonces
<1>3. counter' = counter + 1
  BY DEF Deposit
<1> QED
  BY <1>1, <1>2, <1>3 DEF SignedByOne

LEMMA NextSigns == TypeOK /\ [Next]_vars => SignedByOne \/ UNCHANGED vars
<1> SUFFICES ASSUME TypeOK, Next PROVE SignedByOne
  OBVIOUS
<1>1. CASE \E pid \in Pids : RegisterPlayer(pid)
  BY <1>1, CommitSigns DEF RegisterPlayer
<1>2. CASE \E pid \in Pids, idx \in TokenIdxs, address \in Addresses :
             AddToken(pid, idx, address) \/ UpdateToken(pid, idx, address)
  BY <1>2, CommitSigns DEF AddToken, UpdateToken, StoreToken
<1>3. CASE \E pid \in Pids, token_a, token_b \in TokenIdxs, price \in Prices :
             AddMarket(pid, token_a, token_b, price)
  BY <1>3, CommitSigns DEF AddMarket
<1>4. CASE \E pid \in Pids, market_id \in 1 .. MaxMarkets :
             CloseMarket(pid, market_id)
  BY <1>4, CommitSigns DEF CloseMarket
<1>5. CASE \E signer, pid \in Pids, idx \in TokenIdxs, amount \in MoveAmounts :
             \/ Deposit(signer, pid, idx, amount)
             \/ Transfer(signer, pid, idx, amount)
  BY <1>5, CommitSigns, DepositSigns DEF Transfer
<1>6. CASE \E pid \in Pids, idx \in TokenIdxs, amount \in MoveAmounts :
             Withdraw(pid, idx, amount)
  BY <1>6, CommitSigns DEF Withdraw
<1>7. CASE FlushSettlement
  BY <1>7 DEF FlushSettlement, accounts, SignedByOne
<1>8. CASE \E pid \in Pids, market_id \in 1 .. MaxMarkets, flag \in Flags :
             \/ \E price \in Prices, amount \in LimitAmounts :
                  AddLimitOrder(pid, market_id, flag, price, amount)
             \/ \E b_amount, a_amount \in MarketAmounts :
                  AddMarketOrder(pid, market_id, flag, b_amount, a_amount)
  BY <1>8, CommitSigns DEF AddLimitOrder, AddMarketOrder, PlaceOrder
<1>9. CASE \E pid \in Pids, order_id \in 1 .. MaxOrders :
             CancelOrder(pid, order_id)
  BY <1>9, CommitSigns DEF CancelOrder
<1>10. CASE \E signer \in Pids, a_id, b_id \in 1 .. MaxOrders,
               a_amount, b_amount \in TradeAmounts :
              AddTrade(signer, a_id, b_id, a_amount, b_amount)
  BY <1>10, CommitSigns DEF AddTrade
<1> QED
  BY <1>1, <1>2, <1>3, <1>4, <1>5, <1>6, <1>7, <1>8, <1>9, <1>10 DEF Next

\* No transaction can be replayed: each accepted one raises one player's nonce
\* by one, whoever deposits to whom.
THEOREM OneSignerCorrect == Spec => OneSigner
<1>1. TypeOK /\ [Next]_vars
        => [\/ nonce' = nonce /\ counter' = counter
            \/ /\ counter' = counter + 1
               /\ \E p \in Pids : nonce' = [nonce EXCEPT ![p] = @ + 1]]_vars
  BY NextSigns DEF SignedByOne
<1> QED
  BY <1>1, TypeCorrect, PTL DEF Spec, OneSigner

-----------------------------------------------------------------------------
(* Finished orders.                                                        *)

FinishedStay ==
  \A i \in DOMAIN orders : Finished(orders[i]) => orders'[i] = orders[i]

LEMMA AppendStays ==
  ASSUME TypeOK, NEW o, orders' = Append(orders, o) PROVE FinishedStay
BY AppendProperties, LenProperties DEF FinishedStay, TypeOK

\* Only live orders are cancelled or traded.
LEMMA LiveIsNotFinished == \A o : is_live(o) => ~Finished(o)
BY DEF is_live, Finished, STATUS_LIVE, STATUS_PARTIAL_MATCH, STATUS_MATCH,
       STATUS_CANCEL

LEMMA CancelStays ==
  ASSUME TypeOK, NEW pid, NEW order_id, CancelOrder(pid, order_id)
  PROVE  FinishedStay
BY LiveIsNotFinished DEF CancelOrder, FinishedStay

LEMMA TradeStays ==
  ASSUME TypeOK, TypeOK', NEW signer, NEW a_id, NEW b_id, NEW a_amount,
         NEW b_amount, AddTrade(signer, a_id, b_id, a_amount, b_amount)
  PROVE  FinishedStay
<1>1. is_live(orders[a_id]) /\ is_live(orders[b_id])
  BY DEF AddTrade, CanTrade
<1>2. \A i \in DOMAIN orders : i # a_id /\ i # b_id => orders'[i] = orders[i]
  BY TradedOrders
<1> QED
  BY <1>1, <1>2, LiveIsNotFinished DEF FinishedStay

LEMMA NextStays == TypeOK /\ TypeOK' /\ [Next]_vars => FinishedStay
<1> SUFFICES ASSUME TypeOK, TypeOK', [Next]_vars PROVE FinishedStay
  OBVIOUS
<1>0. ASSUME orders' = orders PROVE FinishedStay
  BY <1>0 DEF FinishedStay
<1>1. CASE \E pid \in Pids : RegisterPlayer(pid)
  BY <1>0, <1>1 DEF RegisterPlayer
<1>2. CASE \E pid \in Pids, idx \in TokenIdxs, address \in Addresses :
             AddToken(pid, idx, address) \/ UpdateToken(pid, idx, address)
  BY <1>0, <1>2 DEF AddToken, UpdateToken, StoreToken
<1>3. CASE \E pid \in Pids, token_a, token_b \in TokenIdxs, price \in Prices :
             AddMarket(pid, token_a, token_b, price)
  BY <1>0, <1>3 DEF AddMarket
<1>4. CASE \E pid \in Pids, market_id \in 1 .. MaxMarkets :
             CloseMarket(pid, market_id)
  BY <1>0, <1>4 DEF CloseMarket
<1>5. CASE \E signer, pid \in Pids, idx \in TokenIdxs, amount \in MoveAmounts :
             \/ Deposit(signer, pid, idx, amount)
             \/ Transfer(signer, pid, idx, amount)
  BY <1>0, <1>5 DEF Deposit, Transfer
<1>6. CASE \E pid \in Pids, idx \in TokenIdxs, amount \in MoveAmounts :
             Withdraw(pid, idx, amount)
  BY <1>0, <1>6 DEF Withdraw
<1>7. CASE FlushSettlement
  BY <1>0, <1>7 DEF FlushSettlement
<1>8. CASE \E pid \in Pids, market_id \in 1 .. MaxMarkets, flag \in Flags :
             \/ \E price \in Prices, amount \in LimitAmounts :
                  AddLimitOrder(pid, market_id, flag, price, amount)
             \/ \E b_amount, a_amount \in MarketAmounts :
                  AddMarketOrder(pid, market_id, flag, b_amount, a_amount)
  BY <1>8, AppendStays DEF AddLimitOrder, AddMarketOrder, PlaceOrder
<1>9. CASE \E pid \in Pids, order_id \in 1 .. MaxOrders :
             CancelOrder(pid, order_id)
  BY <1>9, CancelStays
<1>10. CASE \E signer \in Pids, a_id, b_id \in 1 .. MaxOrders,
               a_amount, b_amount \in TradeAmounts :
              AddTrade(signer, a_id, b_id, a_amount, b_amount)
  BY <1>10, TradeStays
<1>11. CASE UNCHANGED vars
  BY <1>0, <1>11 DEF vars
<1> QED
  BY <1>1, <1>2, <1>3, <1>4, <1>5, <1>6, <1>7, <1>8, <1>9, <1>10, <1>11 DEF Next

\* A matched or cancelled order is never traded, cancelled or changed again.
THEOREM TerminalIsFinalCorrect == Spec => TerminalIsFinal
<1>1. TypeOK /\ TypeOK' /\ [Next]_vars
        => [\A i \in DOMAIN orders :
              Finished(orders[i]) => orders'[i] = orders[i]]_vars
  BY NextStays DEF FinishedStay
<1> QED
  BY <1>1, TypeCorrect, PTL DEF Spec, TerminalIsFinal
-----------------------------------------------------------------------------
(* An overwritten market never comes back.                                 *)

\* The action of LostWithItsMarket.
LostStay ==
  \A i \in DOMAIN orders :
    Overwritten(orders[i].market_id) =>
      orders'[i] = orders[i] /\ Overwritten(orders[i].market_id)'

\* It is enough that the orders of such a market are left alone, and that no
\* market is stored under the index of one that exists.
LEMMA LostByParts ==
  ASSUME TypeOK, TypeOK',
         \A i \in DOMAIN orders :
           Overwritten(orders[i].market_id) => orders'[i] = orders[i],
         \A m \in DOMAIN markets \cap TokenIdxs :
           tokens'[m] = MarketRecord => tokens[m] = MarketRecord
  PROVE  LostStay
<1>1. ASSUME NEW i \in DOMAIN orders, Overwritten(orders[i].market_id)
      PROVE  orders[i].market_id \in DOMAIN markets \cap TokenIdxs
  <2>1. orders[i] \in OrderType
    BY DEF TypeOK
  <2>2. orders[i].market_id \in DOMAIN markets
    BY <2>1 DEF OrderType
  <2> QED
    BY <1>1, <2>2 DEF Overwritten
<1> QED
  BY <1>1 DEF LostStay, Overwritten

\* Neither kind of order changes that waits in an overwritten market.
LEMMA CannotLoad ==
  ASSUME NEW m, Overwritten(m) PROVE ~CanLoad(m)
BY DEF Overwritten, CanLoad

LEMMA CancelLost ==
  ASSUME TypeOK, TypeOK', NEW pid, NEW order_id, CancelOrder(pid, order_id)
  PROVE  LostStay
<1>1. CanLoad(orders[order_id].market_id) /\ tokens' = tokens
  BY DEF CancelOrder, listings
<1>2. \A i \in DOMAIN orders : i # order_id => orders'[i] = orders[i]
  BY DEF CancelOrder
<1> QED
  BY <1>1, <1>2, CannotLoad, LostByParts

LEMMA TradeLost ==
  ASSUME TypeOK, TypeOK', NEW signer, NEW a_id, NEW b_id, NEW a_amount,
         NEW b_amount, AddTrade(signer, a_id, b_id, a_amount, b_amount)
  PROVE  LostStay
<1>1. /\ CanLoad(orders[a_id].market_id)
      /\ orders[a_id].market_id = orders[b_id].market_id
      /\ tokens' = tokens
  BY DEF AddTrade, CanTrade
<1>2. \A i \in DOMAIN orders : i # a_id /\ i # b_id => orders'[i] = orders[i]
  BY TradedOrders
<1> QED
  BY <1>1, <1>2, CannotLoad, LostByParts

LEMMA AppendLost ==
  ASSUME TypeOK, TypeOK', NEW o, orders' = Append(orders, o), tokens' = tokens
  PROVE  LostStay
<1>1. \A i \in DOMAIN orders : orders'[i] = orders[i]
  BY AppendProperties, LenProperties DEF TypeOK
<1> QED
  BY <1>1, LostByParts

LEMMA NextLost == TypeOK /\ TypeOK' /\ [Next]_vars => LostStay
<1> SUFFICES ASSUME TypeOK, TypeOK', [Next]_vars PROVE LostStay
  OBVIOUS
<1>0. ASSUME orders' = orders, tokens' = tokens PROVE LostStay
  BY <1>0, LostByParts
<1>1. CASE \E pid \in Pids : RegisterPlayer(pid)
  BY <1>0, <1>1 DEF RegisterPlayer, listings
<1>2. CASE \E pid \in Pids, idx \in TokenIdxs, address \in Addresses :
             AddToken(pid, idx, address) \/ UpdateToken(pid, idx, address)
  <2>1. PICK pid \in Pids, idx \in TokenIdxs, address \in Addresses :
          StoreToken(pid, idx, address)
    BY <1>2 DEF AddToken, UpdateToken
  <2>2. /\ orders' = orders
        /\ tokens' = [tokens EXCEPT ![idx] = address]
        /\ address # MarketRecord
    BY <2>1, TokenAssumption DEF StoreToken
  <2>3. \A m \in TokenIdxs :
          tokens'[m] = MarketRecord => tokens[m] = MarketRecord
    BY <2>2 DEF TypeOK, ListingsType
  <2> QED
    BY <2>2, <2>3, LostByParts
<1>3. CASE \E pid \in Pids, token_a, token_b \in TokenIdxs, price \in Prices :
             AddMarket(pid, token_a, token_b, price)
  <2>1. orders' = orders /\ tokens' = MarketStored(Len(markets) + 1)
    BY <1>3 DEF AddMarket
  <2>2. \A m \in DOMAIN markets : m # Len(markets) + 1
    BY LenProperties DEF TypeOK, ListingsType
  <2>3. \A m \in DOMAIN markets \cap TokenIdxs :
          tokens'[m] = MarketRecord => tokens[m] = MarketRecord
    BY <2>1, <2>2 DEF MarketStored
  <2> QED
    BY <2>1, <2>3, LostByParts
<1>4. CASE \E pid \in Pids, market_id \in 1 .. MaxMarkets :
             CloseMarket(pid, market_id)
  BY <1>0, <1>4 DEF CloseMarket
<1>5. CASE \E signer, pid \in Pids, idx \in TokenIdxs, amount \in MoveAmounts :
             \/ Deposit(signer, pid, idx, amount)
             \/ Transfer(signer, pid, idx, amount)
  BY <1>0, <1>5 DEF Deposit, Transfer, listings
<1>6. CASE \E pid \in Pids, idx \in TokenIdxs, amount \in MoveAmounts :
             Withdraw(pid, idx, amount)
  BY <1>0, <1>6 DEF Withdraw, listings
<1>7. CASE FlushSettlement
  BY <1>0, <1>7 DEF FlushSettlement, listings
<1>8. CASE \E pid \in Pids, market_id \in 1 .. MaxMarkets, flag \in Flags :
             \/ \E price \in Prices, amount \in LimitAmounts :
                  AddLimitOrder(pid, market_id, flag, price, amount)
             \/ \E b_amount, a_amount \in MarketAmounts :
                  AddMarketOrder(pid, market_id, flag, b_amount, a_amount)
  BY <1>8, AppendLost DEF AddLimitOrder, AddMarketOrder, PlaceOrder, listings
<1>9. CASE \E pid \in Pids, order_id \in 1 .. MaxOrders :
             CancelOrder(pid, order_id)
  BY <1>9, CancelLost
<1>10. CASE \E signer \in Pids, a_id, b_id \in 1 .. MaxOrders,
               a_amount, b_amount \in TradeAmounts :
              AddTrade(signer, a_id, b_id, a_amount, b_amount)
  BY <1>10, TradeLost
<1>11. CASE UNCHANGED vars
  BY <1>0, <1>11 DEF vars, listings
<1> QED
  BY <1>1, <1>2, <1>3, <1>4, <1>5, <1>6, <1>7, <1>8, <1>9, <1>10, <1>11 DEF Next

\* The orders of a market that UpdateToken has overwritten are never traded or
\* cancelled, for ever.
THEOREM LostWithItsMarketCorrect == Spec => LostWithItsMarket
<1>1. TypeOK /\ TypeOK' /\ [Next]_vars
        => [\A i \in DOMAIN orders :
              Overwritten(orders[i].market_id) =>
                orders'[i] = orders[i] /\ Overwritten(orders[i].market_id)']_vars
  BY NextLost DEF LostStay
<1> QED
  BY <1>1, TypeCorrect, PTL DEF Spec, LostWithItsMarket

-----------------------------------------------------------------------------
(* The four things a step can do to orders, trades and collected fees.     *)

BooksKept == UNCHANGED <<orders, trades, total_fee>>

\* An order as it is first stored.
Fresh(o) ==
  /\ o \in OrderType
  /\ o.status = STATUS_LIVE /\ o.already_deal_amount = 0 /\ o.lock_fee = Fee
  /\ o.asked = FLAG_BUY => is_buy(o)
  /\ is_limit_order(o) =>
       o.lock_balance = LimitCost(o.asked, o.price, o.b_token_amount)
  /\ is_market_order(o) =>
       /\ o.b_token_amount = 0 \/ o.a_token_amount = 0
       /\ is_sell(o) /\ o.b_token_amount # 0 =>
            o.lock_balance \in {0, o.b_token_amount}

PlacedNow(o) ==
  /\ Fresh(o)
  /\ orders' = Append(orders, o)
  /\ UNCHANGED <<trades, total_fee>>

CancelledNow(i) ==
  /\ i \in DOMAIN orders /\ is_live(orders[i])
  /\ orders' = [orders EXCEPT ![i] = Cancelled(orders[i])]
  /\ UNCHANGED <<trades, total_fee>>

TradeOf(a_id, b_id, a_amount, b_amount) ==
  [a_order_id |-> a_id, b_order_id |-> b_id,
   a_actual_amount |-> a_amount, b_actual_amount |-> b_amount]

TradedNow(a_id, b_id, a_amount, b_amount) ==
  LET a == orders[a_id]
      b == orders[b_id]
  IN  /\ a_id \in DOMAIN orders /\ b_id \in DOMAIN orders /\ a_id # b_id
      /\ a_amount \in U64 /\ b_amount \in U64
      /\ CanTrade(a, b, a_amount, b_amount)
      /\ Len(orders') = Len(orders)
      /\ \A i \in DOMAIN orders : i # a_id /\ i # b_id => orders'[i] = orders[i]
      /\ orders'[a_id] = Released(Executed(a, a_amount, a_amount, b_amount))
      /\ orders'[b_id] = Executed(b, b_amount, a_amount, b_amount)
      /\ trades' = Append(trades, TradeOf(a_id, b_id, a_amount, b_amount))
      /\ total_fee' = Wrap(total_fee + TradeFees(a, b))

BooksStep ==
  \/ BooksKept
  \/ \E o : PlacedNow(o)
  \/ \E i : CancelledNow(i)
  \/ \E a_id, b_id, a_amount, b_amount :
       TradedNow(a_id, b_id, a_amount, b_amount)

\* What is appended is an order.
LEMMA AppendedIsOrder ==
  ASSUME TypeOK, TypeOK', NEW o, orders' = Append(orders, o), markets' = markets
  PROVE  o \in OrderType
<1>1. orders \in Seq(OrderType) /\ orders' \in Seq(OrderType')
  BY DEF TypeOK
<1>2. Len(orders) + 1 \in 1 .. Len(orders') /\ orders'[Len(orders) + 1] = o
  BY <1>1, AppendProperties, LenProperties
<1>3. o \in OrderType'
  BY <1>1, <1>2, ElementOfSeq
<1> QED
  BY <1>3 DEF OrderType

LEMMA LimitOrderPlaced ==
  ASSUME TypeOK, TypeOK', NEW pid, NEW market_id, NEW flag \in Flags, NEW price,
         NEW amount, AddLimitOrder(pid, market_id, flag, price, amount)
  PROVE  BooksStep
<1> DEFINE cost == LimitCost(flag, price, amount)
           o == NewOrder(TYPE_LIMIT, pid, market_id, flag, cost, price, amount, 0)
<1>1. /\ orders' = Append(orders, o) /\ markets' = markets
      /\ UNCHANGED <<trades, total_fee>>
  BY DEF AddLimitOrder, PlaceOrder, listings
<1>2. /\ o.type_ = TYPE_LIMIT /\ o.status = STATUS_LIVE /\ o.asked = flag
      /\ o.lock_balance = cost /\ o.lock_fee = Fee /\ o.price = price
      /\ o.b_token_amount = amount /\ o.already_deal_amount = 0
  BY DEF NewOrder
<1>5. o.asked = FLAG_BUY => is_buy(o)
  <2>1. flag \in U64
    BY InputAssumption
  <2> HIDE DEF cost
  <2> QED
    BY <2>1, ByteOfBuy DEF is_buy
<1> HIDE DEF o
<1>3. o \in OrderType
  BY <1>1, AppendedIsOrder
<1>4. Fresh(o)
  BY <1>2, <1>3, <1>5 DEF Fresh, is_market_order, TYPE_LIMIT, TYPE_MARKET
<1> QED
  BY <1>1, <1>4 DEF PlacedNow, BooksStep

LEMMA MarketOrderPlaced ==
  ASSUME TypeOK, TypeOK', NEW pid, NEW market_id, NEW flag \in Flags, NEW b_amount,
         NEW a_amount, AddMarketOrder(pid, market_id, flag, b_amount, a_amount)
  PROVE  BooksStep
<1> DEFINE cost == MarketCost(flag, markets[market_id].last_deal_price,
                              b_amount, a_amount)
           o == NewOrder(TYPE_MARKET, pid, market_id, flag, cost, 0,
                         b_amount, a_amount)
<1>1. /\ b_amount = 0 \/ a_amount = 0
      /\ orders' = Append(orders, o) /\ markets' = markets
      /\ UNCHANGED <<trades, total_fee>>
  BY DEF AddMarketOrder, PlaceOrder, listings
<1>2. flag # FLAG_BUY /\ b_amount # 0 => cost \in {0, b_amount}
  BY DEF MarketCost, FLAG_SELL, FLAG_BUY
<1>6. o.asked = FLAG_BUY => is_buy(o)
  <2>1. flag \in U64
    BY InputAssumption
  <2> HIDE DEF cost
  <2> QED
    BY <2>1, ByteOfBuy DEF is_buy
<1>3. /\ o.type_ = TYPE_MARKET /\ o.status = STATUS_LIVE /\ o.asked = flag
      /\ o.lock_balance = cost /\ o.lock_fee = Fee
      /\ o.b_token_amount = b_amount /\ o.a_token_amount = a_amount
      /\ o.already_deal_amount = 0
  BY DEF NewOrder
<1> HIDE DEF o, cost
<1>4. o \in OrderType
  BY <1>1, AppendedIsOrder
<1>5. Fresh(o)
  BY <1>1, <1>2, <1>3, <1>4, <1>6
  DEF Fresh, is_limit_order, is_sell, is_buy, TYPE_LIMIT, TYPE_MARKET,
      FLAG_SELL, FLAG_BUY
<1> QED
  BY <1>1, <1>5 DEF PlacedNow, BooksStep

LEMMA TradeIsTraded ==
  ASSUME TypeOK, TypeOK', NEW signer, NEW a_id, NEW b_id,
         NEW a_amount \in TradeAmounts, NEW b_amount \in TradeAmounts,
         AddTrade(signer, a_id, b_id, a_amount, b_amount)
  PROVE  TradedNow(a_id, b_id, a_amount, b_amount)
<1>1. a_amount \in U64 /\ b_amount \in U64
  BY InputAssumption
<1>2. /\ CanTrade(orders[a_id], orders[b_id], a_amount, b_amount)
      /\ trades' = Append(trades, TradeOf(a_id, b_id, a_amount, b_amount))
      /\ total_fee' = Wrap(total_fee + TradeFees(orders[a_id], orders[b_id]))
  BY DEF AddTrade, TradeOf
<1>3. /\ a_id \in DOMAIN orders /\ b_id \in DOMAIN orders /\ a_id # b_id
      /\ Len(orders') = Len(orders)
      /\ \A i \in DOMAIN orders : i # a_id /\ i # b_id => orders'[i] = orders[i]
      /\ orders'[a_id] =
           Released(Executed(orders[a_id], a_amount, a_amount, b_amount))
      /\ orders'[b_id] = Executed(orders[b_id], b_amount, a_amount, b_amount)
  BY TradedOrders
<1> QED
  BY <1>1, <1>2, <1>3 DEF TradedNow

\* The invariants below have one case for each of the four, and not for each
\* of the fourteen transactions.
LEMMA EveryStep == TypeOK /\ TypeOK' /\ [Next]_vars => BooksStep
<1> SUFFICES ASSUME TypeOK, TypeOK', [Next]_vars PROVE BooksStep
  OBVIOUS
<1>0. BooksKept => BooksStep
  BY DEF BooksStep
<1>1. CASE \/ \E pid \in Pids : RegisterPlayer(pid)
           \/ \E pid \in Pids, idx \in TokenIdxs, address \in Addresses :
                AddToken(pid, idx, address) \/ UpdateToken(pid, idx, address)
           \/ \E pid \in Pids, token_a, token_b \in TokenIdxs, price \in Prices :
                AddMarket(pid, token_a, token_b, price)
           \/ \E pid \in Pids, market_id \in 1 .. MaxMarkets :
                CloseMarket(pid, market_id)
           \/ \E pid \in Pids, idx \in TokenIdxs, amount \in MoveAmounts :
                Withdraw(pid, idx, amount)
           \/ FlushSettlement
           \/ UNCHANGED vars
  BY <1>0, <1>1
  DEF RegisterPlayer, AddToken, UpdateToken, StoreToken, AddMarket, Withdraw,
      CloseMarket, FlushSettlement, vars, BooksKept
<1>2. CASE \E signer, pid \in Pids, idx \in TokenIdxs, amount \in MoveAmounts :
             \/ Deposit(signer, pid, idx, amount)
             \/ Transfer(signer, pid, idx, amount)
  BY <1>0, <1>2 DEF Deposit, Transfer, BooksKept
<1>3. CASE \E pid \in Pids, market_id \in 1 .. MaxMarkets, flag \in Flags :
             \/ \E price \in Prices, amount \in LimitAmounts :
                  AddLimitOrder(pid, market_id, flag, price, amount)
             \/ \E b_amount, a_amount \in MarketAmounts :
                  AddMarketOrder(pid, market_id, flag, b_amount, a_amount)
  BY <1>3, LimitOrderPlaced, MarketOrderPlaced
<1>4. ASSUME NEW pid \in Pids, NEW order_id \in 1 .. MaxOrders,
             CancelOrder(pid, order_id)
      PROVE  BooksStep
  <2>1. CancelledNow(order_id)
    BY <1>4 DEF CancelOrder, CancelledNow
  <2> QED
    BY <2>1 DEF BooksStep
<1>5. ASSUME NEW signer \in Pids, NEW a_id \in 1 .. MaxOrders,
             NEW b_id \in 1 .. MaxOrders, NEW a_amount \in TradeAmounts,
             NEW b_amount \in TradeAmounts,
             AddTrade(signer, a_id, b_id, a_amount, b_amount)
      PROVE  BooksStep
  BY <1>5, TradeIsTraded DEF BooksStep
<1> QED
  BY <1>1, <1>2, <1>3, <1>4, <1>5 DEF Next

-----------------------------------------------------------------------------
(* What a step makes of an order.                                          *)

\* What an order asked for never changes.
SameTerms(o, n) ==
  /\ n.type_ = o.type_ /\ n.pid = o.pid /\ n.market_id = o.market_id
  /\ n.flag = o.flag /\ n.asked = o.asked /\ n.price = o.price
  /\ n.b_token_amount = o.b_token_amount /\ n.a_token_amount = o.a_token_amount

\* Order n is order o after a trade of `deal` of its size.
Advanced(o, n, deal) ==
  /\ SameTerms(o, n)
  /\ n.lock_fee = 0
  /\ n.already_deal_amount = Wrap(o.already_deal_amount + deal)
  /\ n.status = IF n.b_token_amount = n.already_deal_amount
                THEN STATUS_MATCH ELSE STATUS_PARTIAL_MATCH

LEMMA ExecutedAdvances ==
  ASSUME NEW o \in OrderType, NEW cost \in U64, NEW a_amount \in U64,
         NEW b_amount \in U64, o.lock_balance >= cost
  PROVE  LET e == Executed(o, cost, a_amount, b_amount)
             deal == DealAmount(o, a_amount, b_amount)
         IN  /\ Advanced(o, e, deal)
             /\ e.lock_balance = o.lock_balance - cost
             /\ Advanced(o, Released(e), deal)
             /\ Released(e).lock_balance =
                  IF Released(e).status = STATUS_MATCH THEN 0
                  ELSE o.lock_balance - cost
<1> DEFINE deal == DealAmount(o, a_amount, b_amount)
           w == Wrap(o.already_deal_amount + deal)
           x == [o EXCEPT !.lock_balance = @ - cost,
                          !.already_deal_amount = w,
                          !.lock_fee = 0]
           e == Executed(o, cost, a_amount, b_amount)
<1>1. e = update_status(x)
  BY DEF Executed
<1>2. /\ SameTerms(o, x) /\ x.lock_balance = o.lock_balance - cost
      /\ x.lock_fee = 0 /\ x.already_deal_amount = w
      /\ e \in OrderType
  BY ExecutedType DEF OrderType, SameTerms
<1> HIDE DEF deal, e
<1>3. /\ SameTerms(x, e) /\ e.lock_balance = x.lock_balance
      /\ e.lock_fee = x.lock_fee
      /\ e.already_deal_amount = x.already_deal_amount
      /\ e.status = IF e.b_token_amount = e.already_deal_amount
                    THEN STATUS_MATCH ELSE STATUS_PARTIAL_MATCH
  <2>1. e = [x EXCEPT !.status = IF x.b_token_amount = x.already_deal_amount
                                 THEN STATUS_MATCH ELSE STATUS_PARTIAL_MATCH]
    BY <1>1 DEF update_status
  <2> DEFINE s == IF x.b_token_amount = x.already_deal_amount
                  THEN STATUS_MATCH ELSE STATUS_PARTIAL_MATCH
  <2>2. e = [x EXCEPT !.status = s]
    BY <2>1
  <2> HIDE DEF s, w
  <2>3. /\ SameTerms(x, e) /\ e.lock_balance = x.lock_balance
        /\ e.lock_fee = x.lock_fee
        /\ e.already_deal_amount = x.already_deal_amount
        /\ e.status = s
    BY <2>2 DEF SameTerms, OrderType
  <2> QED
    BY <2>3 DEF s, SameTerms
<1> HIDE DEF x, w
<1>4. Advanced(o, e, deal) /\ e.lock_balance = o.lock_balance - cost
  BY <1>2, <1>3 DEF Advanced, SameTerms, w
<1>5. /\ SameTerms(e, Released(e))
      /\ Released(e).lock_fee = e.lock_fee
      /\ Released(e).already_deal_amount = e.already_deal_amount
      /\ Released(e).status = e.status
      /\ Released(e).lock_balance = e.lock_balance - Refund(e)
  BY <1>2 DEF Released, SameTerms, OrderType
<1>6. e.lock_balance \in Nat
  BY <1>2 DEF OrderType, U64
<1>7. Released(e).lock_balance =
        IF Released(e).status = STATUS_MATCH THEN 0 ELSE o.lock_balance - cost
  BY <1>4, <1>5, <1>6 DEF Refund
<1>8. Advanced(o, Released(e), deal)
  BY <1>4, <1>5 DEF Advanced, SameTerms
<1> QED
  BY <1>4, <1>7, <1>8 DEF e, deal

\* The orders after an order was placed.
LEMMA PlacedOrders ==
  ASSUME TypeOK, NEW o, PlacedNow(o)
  PROVE  /\ Len(orders) \in Nat /\ Len(orders') = Len(orders) + 1
         /\ DOMAIN orders = 1 .. Len(orders)
         /\ DOMAIN orders' = DOMAIN orders \cup {Len(orders) + 1}
         /\ \A i \in DOMAIN orders : orders'[i] = orders[i]
         /\ orders'[Len(orders) + 1] = o
<1>1. orders \in Seq(OrderType)
  BY DEF TypeOK
<1>2. /\ Len(orders') = Len(orders) + 1 /\ Len(orders) \in Nat
      /\ DOMAIN orders' = 1 .. Len(orders) + 1 /\ DOMAIN orders = 1 .. Len(orders)
      /\ \A i \in DOMAIN orders : orders'[i] = orders[i]
      /\ orders'[Len(orders) + 1] = o
  BY <1>1, AppendProperties, LenProperties DEF PlacedNow
<1> QED
  BY <1>2

\* The orders after one was cancelled.
LEMMA CancelledOrders ==
  ASSUME TypeOK, NEW i, CancelledNow(i)
  PROVE  /\ i \in DOMAIN orders /\ is_live(orders[i])
         /\ DOMAIN orders' = DOMAIN orders /\ Len(orders') = Len(orders)
         /\ \A j \in DOMAIN orders : j # i => orders'[j] = orders[j]
         /\ SameTerms(orders[i], orders'[i])
         /\ orders'[i].status = STATUS_CANCEL /\ orders'[i].lock_balance = 0
         /\ orders'[i].lock_fee = orders[i].lock_fee
         /\ orders'[i].already_deal_amount = orders[i].already_deal_amount
<1>1. /\ i \in DOMAIN orders /\ is_live(orders[i])
      /\ orders' = [orders EXCEPT ![i] = Cancelled(orders[i])]
  BY DEF CancelledNow
<1>2. orders \in Seq(OrderType) /\ orders[i] \in OrderType
  BY <1>1, OrderAt DEF TypeOK
<1>3. Cancelled(orders[i]) \in OrderType
  BY <1>2, CancelledType
<1>4. Len(orders') = Len(orders) /\ orders' \in Seq(OrderType)
  BY <1>1, <1>2, <1>3, ExceptSeq, LenProperties
<1>5. /\ DOMAIN orders' = DOMAIN orders
      /\ orders'[i] = Cancelled(orders[i])
      /\ \A j \in DOMAIN orders : j # i => orders'[j] = orders[j]
  BY <1>1
<1>6. /\ SameTerms(orders[i], orders'[i])
      /\ orders'[i].status = STATUS_CANCEL /\ orders'[i].lock_balance = 0
      /\ orders'[i].lock_fee = orders[i].lock_fee
      /\ orders'[i].already_deal_amount = orders[i].already_deal_amount
  BY <1>2, <1>5 DEF Cancelled, OrderType, SameTerms
<1> QED
  BY <1>1, <1>4, <1>5, <1>6

\* The orders after a trade.
LEMMA TradedEffect ==
  ASSUME TypeOK, TypeOK', NEW a_id, NEW b_id, NEW a_amount, NEW b_amount,
         TradedNow(a_id, b_id, a_amount, b_amount)
  PROVE  LET a == orders[a_id]
             b == orders[b_id]
         IN  /\ a_id \in DOMAIN orders /\ b_id \in DOMAIN orders /\ a_id # b_id
             /\ a_amount \in Nat /\ b_amount \in Nat
             /\ a_amount <= a.lock_balance /\ b_amount <= b.lock_balance
             /\ a \in OrderType /\ b \in OrderType
             /\ is_buy(a) /\ is_sell(b) /\ is_live(a) /\ is_live(b)
             /\ DOMAIN orders' = DOMAIN orders /\ Len(orders') = Len(orders)
             /\ \A i \in DOMAIN orders :
                  i # a_id /\ i # b_id => orders'[i] = orders[i]
             /\ Advanced(a, orders'[a_id], DealAmount(a, a_amount, b_amount))
             /\ orders'[a_id].lock_balance =
                  IF orders'[a_id].status = STATUS_MATCH THEN 0
                  ELSE a.lock_balance - a_amount
             /\ Advanced(b, orders'[b_id], DealAmount(b, a_amount, b_amount))
             /\ orders'[b_id].lock_balance = b.lock_balance - b_amount
<1> DEFINE a == orders[a_id]
           b == orders[b_id]
<1>1. /\ a_id \in DOMAIN orders /\ b_id \in DOMAIN orders /\ a_id # b_id
      /\ a_amount \in U64 /\ b_amount \in U64
      /\ CanTrade(a, b, a_amount, b_amount)
      /\ Len(orders') = Len(orders)
      /\ \A i \in DOMAIN orders : i # a_id /\ i # b_id => orders'[i] = orders[i]
      /\ orders'[a_id] = Released(Executed(a, a_amount, a_amount, b_amount))
      /\ orders'[b_id] = Executed(b, b_amount, a_amount, b_amount)
  BY DEF TradedNow
<1>2. a \in OrderType /\ b \in OrderType
  BY <1>1, OrderAt
<1>3. /\ is_buy(a) /\ is_sell(b) /\ is_live(a) /\ is_live(b)
      /\ a.lock_balance >= a_amount /\ b.lock_balance >= b_amount
  BY <1>1 DEF CanTrade
<1>4. /\ a_amount \in Nat /\ b_amount \in Nat
      /\ a_amount <= a.lock_balance /\ b_amount <= b.lock_balance
  BY <1>1, <1>2, <1>3 DEF U64, OrderType
<1>5. DOMAIN orders' = DOMAIN orders
  BY <1>1, LenProperties DEF TypeOK
<1> HIDE DEF a, b
<1>6. /\ Advanced(a, orders'[a_id], DealAmount(a, a_amount, b_amount))
      /\ orders'[a_id].lock_balance =
           IF orders'[a_id].status = STATUS_MATCH THEN 0
           ELSE a.lock_balance - a_amount
  BY <1>1, <1>2, <1>3, ExecutedAdvances
<1>7. /\ Advanced(b, orders'[b_id], DealAmount(b, a_amount, b_amount))
      /\ orders'[b_id].lock_balance = b.lock_balance - b_amount
  BY <1>1, <1>2, <1>3, ExecutedAdvances
<1> QED
  BY <1>1, <1>2, <1>3, <1>4, <1>5, <1>6, <1>7 DEF a, b

\* The trades after one was added, and who takes part in them.
LEMMA TradesAppended ==
  ASSUME TypeOK, NEW tr, trades' = Append(trades, tr)
  PROVE  /\ Len(trades) \in Nat /\ Len(trades') = Len(trades) + 1
         /\ DOMAIN trades = 1 .. Len(trades)
         /\ DOMAIN trades' = DOMAIN trades \cup {Len(trades) + 1}
         /\ \A k \in DOMAIN trades : trades'[k] = trades[k]
         /\ trades'[Len(trades) + 1] = tr
<1>1. trades \in Seq(TradeType)
  BY DEF TypeOK
<1>2. /\ Len(trades') = Len(trades) + 1 /\ Len(trades) \in Nat
      /\ DOMAIN trades' = 1 .. Len(trades) + 1 /\ DOMAIN trades = 1 .. Len(trades)
      /\ \A k \in DOMAIN trades : trades'[k] = trades[k]
      /\ trades'[Len(trades) + 1] = tr
  BY <1>1, AppendProperties, LenProperties
<1> QED
  BY <1>2

LEMMA TradeAt ==
  ASSUME TypeOK, NEW k \in DOMAIN trades
  PROVE  /\ trades[k].a_order_id \in DOMAIN orders
         /\ trades[k].b_order_id \in DOMAIN orders
         /\ trades[k].a_actual_amount \in Nat /\ trades[k].b_actual_amount \in Nat
<1>1. trades[k] \in TradeType
  BY LenProperties, ElementOfSeq DEF TypeOK
<1> QED
  BY <1>1 DEF TradeType, U64

\* No step changes what a stored order asked for.
LEMMA TermsKept ==
  ASSUME TypeOK, TypeOK', BooksStep
  PROVE  \A i \in DOMAIN orders :
           i \in DOMAIN orders' /\ SameTerms(orders[i], orders'[i])
<1>1. CASE BooksKept
  BY <1>1 DEF BooksKept, SameTerms
<1>2. CASE \E o : PlacedNow(o)
  BY <1>2, PlacedOrders DEF SameTerms
<1>3. CASE \E i : CancelledNow(i)
  BY <1>3, CancelledOrders DEF SameTerms
<1>4. ASSUME NEW a_id, NEW b_id, NEW a_amount, NEW b_amount,
             TradedNow(a_id, b_id, a_amount, b_amount), NEW i \in DOMAIN orders
      PROVE  i \in DOMAIN orders' /\ SameTerms(orders[i], orders'[i])
  <2>1. i \in DOMAIN orders'
    BY <1>4, TradedEffect
  <2>2. CASE i = a_id
    BY <1>4, <2>1, <2>2, TradedEffect DEF Advanced
  <2>3. CASE i = b_id
    BY <1>4, <2>1, <2>3, TradedEffect DEF Advanced
  <2>4. CASE i # a_id /\ i # b_id
    BY <1>4, <2>1, <2>4, TradedEffect DEF SameTerms
  <2> QED
    BY <2>2, <2>3, <2>4
<1> QED
  BY <1>1, <1>2, <1>3, <1>4 DEF BooksStep

-----------------------------------------------------------------------------
(* Limits.                                                                 *)

\* A better price is no less money.
LEMMA MulDivMonotonic ==
  ASSUME NEW x \in Nat, NEW y \in Nat, NEW z \in Nat, x <= y
  PROVE  MulDiv(x, z) <= MulDiv(y, z)
<1>1. ASSUME NEW d \in Nat \ {0}, NEW m \in Nat, NEW n \in Nat, m <= n
      PROVE  m \div d <= n \div d
  <2> DEFINE q == m \div d
             r == n \div d
  <2>1. q \in Nat /\ r \in Nat
    OBVIOUS
  <2>2. d * q <= m
    OBVIOUS
  <2>3. n < d * (r + 1)
    OBVIOUS
  <2> HIDE DEF q, r
  <2>4. d * q < d * (r + 1)
    <3>1. d * q \in Nat /\ d * (r + 1) \in Nat
      BY <2>1
    <3> QED
      BY <1>1, <2>2, <2>3, <3>1
  <2>5. ASSUME r + 1 <= q PROVE FALSE
    <3>1. PICK s \in Nat : q = (r + 1) + s
      <4>1. q - (r + 1) \in Nat
        BY <2>1, <2>5
      <4> QED
        BY <2>1, <4>1
    <3>2. d * q = d * (r + 1) + d * s
      BY <2>1, <3>1
    <3>3. d * s \in Nat /\ d * (r + 1) \in Nat /\ d * q \in Nat
      BY <2>1, <3>1
    <3> QED
      BY <2>4, <3>2, <3>3
  <2> QED
    BY <2>1, <2>5 DEF q, r
<1>2. x * z <= y * z /\ x * z \in Nat /\ y * z \in Nat
  <2>1. PICK s \in Nat : y = x + s
    <3>1. y - x \in Nat /\ y = x + (y - x)
      OBVIOUS
    <3> QED
      BY <3>1
  <2>2. y * z = x * z + s * z
    BY <2>1
  <2>3. x * z \in Nat /\ s * z \in Nat
    BY <2>1
  <2> QED
    BY <2>2, <2>3
<1> QED
  BY <1>1, <1>2, ConfigAssumption DEF MulDiv

\* The price of an accepted trade is within both limits.
LEMMA PriceWithinLimits ==
  ASSUME NEW a \in OrderType, NEW b \in OrderType, NEW a_amount \in U64,
         NEW b_amount \in U64, CanTrade(a, b, a_amount, b_amount)
  PROVE  /\ is_limit_order(a) => a_amount <= MulDiv(a.price, b_amount)
         /\ is_limit_order(b) => a_amount >= MulDiv(b.price, b_amount)
<1>1. /\ MulDiv(TradePrice(a, b), b_amount) = a_amount
      /\ is_limit_order(a) /\ is_limit_order(b) => a.price > b.price
  BY DEF CanTrade, PricesMatch
<1>2. a.price \in Nat /\ b.price \in Nat /\ b_amount \in Nat /\ a_amount \in Nat
  BY DEF OrderType, U64
<1>3. is_limit_order(b) => TradePrice(a, b) = b.price
  BY DEF TradePrice, is_limit_order, is_market_order, TYPE_LIMIT, TYPE_MARKET
<1>4. is_limit_order(a) /\ ~is_limit_order(b) => TradePrice(a, b) = a.price
  BY DEF TradePrice, is_limit_order, is_market_order, OrderType
<1>5. is_limit_order(a) /\ is_limit_order(b)
        => MulDiv(b.price, b_amount) <= MulDiv(a.price, b_amount)
  BY <1>1, <1>2, MulDivMonotonic
<1> QED
  BY <1>1, <1>2, <1>3, <1>4, <1>5

\* What LimitRespected says of one trade, given the two orders.
WithinLimits(tr, a, b) ==
  /\ is_limit_order(a) =>
       tr.a_actual_amount <= MulDiv(a.price, tr.b_actual_amount)
  /\ is_limit_order(b) =>
       tr.a_actual_amount >= MulDiv(b.price, tr.b_actual_amount)

LEMMA LimitsOfSameTerms ==
  ASSUME NEW tr, NEW a, NEW b, NEW c, NEW d, SameTerms(a, c), SameTerms(b, d)
  PROVE  WithinLimits(tr, c, d) <=> WithinLimits(tr, a, b)
BY DEF WithinLimits, SameTerms, is_limit_order

LEMMA LimitsKept == TypeOK /\ TypeOK' /\ LimitRespected /\ BooksStep => LimitRespected'
<1> SUFFICES ASSUME TypeOK, TypeOK', LimitRespected, BooksStep
             PROVE  LimitRespected'
  OBVIOUS
<1>1. \A k \in DOMAIN trades :
        WithinLimits(trades[k], orders'[trades[k].a_order_id],
                     orders'[trades[k].b_order_id])
  <2> TAKE k \in DOMAIN trades
  <2>1. WithinLimits(trades[k], orders[trades[k].a_order_id],
                     orders[trades[k].b_order_id])
    BY DEF LimitRespected, WithinLimits
  <2> QED
    BY <2>1, TradeAt, TermsKept, LimitsOfSameTerms
<1>2. CASE trades' = trades
  BY <1>1, <1>2 DEF LimitRespected, WithinLimits
<1>3. ASSUME NEW a_id, NEW b_id, NEW a_amount, NEW b_amount,
             TradedNow(a_id, b_id, a_amount, b_amount)
      PROVE  LimitRespected'
  <2> DEFINE tr == TradeOf(a_id, b_id, a_amount, b_amount)
             n == Len(trades) + 1
  <2>1. /\ tr.a_order_id = a_id /\ tr.b_order_id = b_id
        /\ tr.a_actual_amount = a_amount /\ tr.b_actual_amount = b_amount
    BY DEF TradeOf
  <2>2. trades' = Append(trades, tr)
    BY <1>3 DEF TradedNow
  <2> HIDE DEF tr
  <2>3. /\ a_id \in DOMAIN orders /\ b_id \in DOMAIN orders
        /\ a_amount \in U64 /\ b_amount \in U64
        /\ CanTrade(orders[a_id], orders[b_id], a_amount, b_amount)
    BY <1>3 DEF TradedNow
  <2>4. WithinLimits(tr, orders[a_id], orders[b_id])
    BY <2>1, <2>3, OrderAt, PriceWithinLimits DEF WithinLimits
  <2>5. WithinLimits(tr, orders'[a_id], orders'[b_id])
    BY <2>3, <2>4, TermsKept, LimitsOfSameTerms
  <2>6. /\ DOMAIN trades' = DOMAIN trades \cup {n} /\ trades'[n] = tr
        /\ \A k \in DOMAIN trades : trades'[k] = trades[k]
    BY <2>2, TradesAppended
  <2> HIDE DEF n
  <2>7. \A k \in DOMAIN trades' :
          WithinLimits(trades'[k], orders'[trades'[k].a_order_id],
                       orders'[trades'[k].b_order_id])
    BY <1>1, <2>1, <2>5, <2>6
  <2> QED
    BY <2>7 DEF LimitRespected, WithinLimits
<1> QED
  BY <1>2, <1>3 DEF BooksStep, BooksKept, PlacedNow, CancelledNow

\* No recorded trade is beyond the limit of a limit order on either side, for
\* every precision, price and amount: add_trade's check of the amounts against
\* one of the two prices is enough for both.
THEOREM LimitRespectedCorrect == Spec => []LimitRespected
<1>1. Init => LimitRespected
  BY DEF Init, LimitRespected
<1>2. TypeOK /\ TypeOK' /\ LimitRespected /\ [Next]_vars => LimitRespected'
  BY EveryStep, LimitsKept
<1> QED
  BY <1>1, <1>2, TypeCorrect, PTL DEF Spec
-----------------------------------------------------------------------------
(* The locks of a live order.                                              *)

\* The share of a careful player's live order in a lock, cost and fee together,
\* is covered.
LEMMA ShareIsLocked ==
  ASSUME TypeOK, LockAccounting, NEW i \in DOMAIN orders, is_live(orders[i]),
         Careful(orders[i].pid), NEW t \in TokenIdxs
  PROVE  LET o == orders[i]
         IN  Debit(t, OrderToken(o), o.lock_balance)
               + Debit(t, FeeToken, o.lock_fee) <= lock_balance[o.pid][t]
<1> DEFINE o == orders[i]
           m == markets[o.market_id]
<1>1. o \in OrderType /\ o.pid \in Pids
  BY OrderAt DEF OrderType
<1>2. Book(orders)
  <2>1. orders \in Seq(OrderType)
    BY DEF TypeOK
  <2>2. \A w \in OrderType : HasAmounts(w)
    BY DEF OrderType, HasAmounts, U64
  <2> QED
    BY <2>1, <2>2, BookIs
<1>3. LockTerm(o, m, o.pid, t) <= LocksIn(orders, markets, o.pid, t)
  BY <1>2, LockTermBound
<1>4. lock_balance[o.pid][t] = LocksIn(orders, markets, o.pid, t)
  BY <1>1, LocksOfIs DEF LockAccounting
<1>5. o.status # STATUS_CANCEL
  BY DEF is_live, STATUS_LIVE, STATUS_PARTIAL_MATCH, STATUS_CANCEL
<1>6. LockTerm(o, m, o.pid, t) = Debit(t, OrderToken(o), o.lock_balance)
                                   + Debit(t, FeeToken, o.lock_fee)
  BY <1>5 DEF LockTerm, Debit, OrderToken
<1> QED
  BY <1>3, <1>4, <1>6

-----------------------------------------------------------------------------
(* Fees.                                                                   *)

LEMMA TradedAfter ==
  ASSUME TypeOK, NEW a_id, NEW b_id, NEW a_amount, NEW b_amount,
         TradedNow(a_id, b_id, a_amount, b_amount), NEW i
  PROVE  Traded(i)' <=> Traded(i) \/ i \in {a_id, b_id}
<1> DEFINE tr == TradeOf(a_id, b_id, a_amount, b_amount)
           n == Len(trades) + 1
<1>1. tr.a_order_id = a_id /\ tr.b_order_id = b_id
  BY DEF TradeOf
<1>2. trades' = Append(trades, tr)
  BY DEF TradedNow
<1> HIDE DEF tr
<1>3. /\ DOMAIN trades' = DOMAIN trades \cup {n} /\ trades'[n] = tr
      /\ \A k \in DOMAIN trades : trades'[k] = trades[k]
  BY <1>2, TradesAppended
<1> HIDE DEF n
<1> QED
  BY <1>1, <1>3 DEF Traded

\* The part of FeeOncePerOrder that says which fees are spent.
FeeOfTraded ==
  \A i \in DOMAIN orders : orders[i].lock_fee = IF Traded(i) THEN 0 ELSE Fee

LEMMA FeeOfTradedKept ==
  TypeOK /\ TypeOK' /\ FeeOfTraded /\ BooksStep => FeeOfTraded'
<1> SUFFICES ASSUME TypeOK, TypeOK', FeeOfTraded, BooksStep PROVE FeeOfTraded'
  OBVIOUS
<1>1. CASE BooksKept
  BY <1>1 DEF BooksKept, FeeOfTraded, Traded
<1>2. ASSUME NEW o, PlacedNow(o) PROVE FeeOfTraded'
  <2>1. /\ DOMAIN orders = 1 .. Len(orders) /\ Len(orders) \in Nat
        /\ DOMAIN orders' = DOMAIN orders \cup {Len(orders) + 1}
        /\ \A i \in DOMAIN orders : orders'[i] = orders[i]
        /\ orders'[Len(orders) + 1] = o
    BY <1>2, PlacedOrders
  <2>2. o.lock_fee = Fee /\ trades' = trades
    BY <1>2 DEF PlacedNow, Fresh
  <2>3. ~Traded(Len(orders) + 1)
    BY <2>1, TradeAt DEF Traded
  <2>4. \A i : Traded(i)' <=> Traded(i)
    BY <2>2 DEF Traded
  <2> QED
    BY <2>1, <2>2, <2>3, <2>4 DEF FeeOfTraded
<1>3. ASSUME NEW i, CancelledNow(i) PROVE FeeOfTraded'
  <2>1. trades' = trades
    BY <1>3 DEF CancelledNow
  <2>2. \A j : Traded(j)' <=> Traded(j)
    BY <2>1 DEF Traded
  <2> QED
    BY <1>3, <2>2, CancelledOrders DEF FeeOfTraded
<1>4. ASSUME NEW a_id, NEW b_id, NEW a_amount, NEW b_amount,
             TradedNow(a_id, b_id, a_amount, b_amount)
      PROVE  FeeOfTraded'
  <2>1. /\ DOMAIN orders' = DOMAIN orders
        /\ \A i \in DOMAIN orders :
             i # a_id /\ i # b_id => orders'[i] = orders[i]
        /\ orders'[a_id].lock_fee = 0 /\ orders'[b_id].lock_fee = 0
    BY <1>4, TradedEffect DEF Advanced
  <2>2. \A i : Traded(i)' <=> Traded(i) \/ i \in {a_id, b_id}
    BY <1>4, TradedAfter
  <2> QED
    BY <2>1, <2>2 DEF FeeOfTraded
<1> QED
  BY <1>1, <1>2, <1>3, <1>4 DEF BooksStep

\* Two careful sides of a trade cannot owe more in fees than u64 has left.
LEMMA FeesFit ==
  ASSUME BankInv, SupplyBounded, MaxSupply <= MaxU64,
         CarefulTrades, CarefulTrades', SidesKept,
         NEW a_id, NEW b_id, NEW a_amount, NEW b_amount,
         TradedNow(a_id, b_id, a_amount, b_amount)
  PROVE  total_fee + TradeFees(orders[a_id], orders[b_id]) \in 0 .. MaxU64
<1> DEFINE a == orders[a_id]
           b == orders[b_id]
<1>1. TypeOK /\ LockAccounting /\ BP!Sound
  BY DEF BankInv
<1>2. /\ a_id \in DOMAIN orders /\ b_id \in DOMAIN orders
      /\ is_live(a) /\ is_live(b) /\ a.pid # b.pid
  BY DEF TradedNow, CanTrade
<1>3. /\ a.pid \in Pids /\ b.pid \in Pids /\ FeeToken \in TokenIdxs
      /\ a.lock_fee \in Nat /\ b.lock_fee \in Nat
      /\ a.lock_balance \in Nat /\ b.lock_balance \in Nat
  <2>1. a \in OrderType /\ b \in OrderType
    BY <1>1, <1>2, OrderAt
  <2> HIDE DEF a, b
  <2> QED
    BY <2>1, TokenAssumption DEF OrderType, U64
<1>4. deposited[FeeToken] <= MaxU64
  BY <1>1, <1>3, WidthAssumption DEF SupplyBounded, TypeOK, SettlementType
<1>5. HeldBy(a.pid, FeeToken) + HeldBy(b.pid, FeeToken) + total_fee <= MaxU64
  BY <1>1, <1>2, <1>3, <1>4, TwoFitU64
<1>10. Careful(a.pid) /\ Careful(b.pid)
  <2> DEFINE tr == TradeOf(a_id, b_id, a_amount, b_amount)
  <2>1. trades' = Append(trades, tr)
    BY DEF TradedNow
  <2>2. tr.a_order_id = a_id /\ tr.b_order_id = b_id
    BY DEF TradeOf
  <2> HIDE DEF tr
  <2> QED
    BY <1>1, <1>2, <2>1, <2>2, TradersAreCareful
<1>6. /\ Debit(FeeToken, OrderToken(a), a.lock_balance)
           + Debit(FeeToken, FeeToken, a.lock_fee) <= lock_balance[a.pid][FeeToken]
      /\ Debit(FeeToken, OrderToken(b), b.lock_balance)
           + Debit(FeeToken, FeeToken, b.lock_fee) <= lock_balance[b.pid][FeeToken]
  BY <1>1, <1>2, <1>3, <1>10, ShareIsLocked
<1>7. /\ balance[a.pid][FeeToken] \in Nat /\ lock_balance[a.pid][FeeToken] \in Nat
      /\ balance[b.pid][FeeToken] \in Nat /\ lock_balance[b.pid][FeeToken] \in Nat
      /\ total_fee \in Nat /\ MaxU64 \in Nat
  BY <1>1, <1>3, PositionsOfTypeOK, WidthAssumption
  DEF TypeOK, CountersType, U64
<1> HIDE DEF a, b
<1>8. /\ a.lock_fee <= lock_balance[a.pid][FeeToken]
      /\ b.lock_fee <= lock_balance[b.pid][FeeToken]
  <2>1. /\ Debit(FeeToken, OrderToken(a), a.lock_balance) \in Nat
        /\ Debit(FeeToken, OrderToken(b), b.lock_balance) \in Nat
        /\ Debit(FeeToken, FeeToken, a.lock_fee) = a.lock_fee
        /\ Debit(FeeToken, FeeToken, b.lock_fee) = b.lock_fee
    BY <1>3 DEF Debit
  <2> QED
    BY <1>3, <1>6, <1>7, <2>1
<1>9. total_fee + (a.lock_fee + b.lock_fee) \in 0 .. MaxU64
  BY <1>3, <1>5, <1>7, <1>8 DEF HeldBy
<1> QED
  BY <1>9 DEF TradeFees, a, b

\* The other part: what is collected and what is still locked.
FeesAddUp == total_fee + LockedFees = Fee * Len(orders)

LEMMA LockedFeesTerms ==
  ASSUME TypeOK
  PROVE  /\ Len(orders) \in Nat /\ DOMAIN orders = 1 .. Len(orders)
         /\ \A i \in DOMAIN orders : orders[i].lock_fee \in Nat
<1>1. Len(orders) \in Nat /\ DOMAIN orders = 1 .. Len(orders)
  BY LenProperties DEF TypeOK
<1>2. \A i \in DOMAIN orders : orders[i] \in OrderType
  BY OrderAt
<1> QED
  BY <1>1, <1>2 DEF OrderType, U64

LEMMA FeesAddUpKept ==
  ASSUME BankInv, TypeOK', SupplyBounded, MaxSupply <= MaxU64, FeesAddUp, BooksStep,
         CarefulTrades, CarefulTrades', SidesKept
  PROVE  FeesAddUp'
<1> DEFINE f == [i \in DOMAIN orders |-> orders[i].lock_fee]
           g == [i \in DOMAIN orders' |-> orders'[i].lock_fee]
           n == Len(orders)
<1>0. TypeOK
  BY DEF BankInv
<1>1. /\ n \in Nat /\ DOMAIN orders = 1 .. n /\ total_fee \in Nat
      /\ \A i \in 1 .. n : f[i] \in Nat /\ f[i] = orders[i].lock_fee
      /\ Fee \in Nat
  BY <1>0, LockedFeesTerms, ConfigAssumption, WidthAssumption
  DEF TypeOK, CountersType, U64
<1>2. LockedFees = SumTo(f, n) /\ LockedFees' = SumTo(g, Len(orders'))
  BY DEF LockedFees
<1>3. SumTo(f, n) \in Nat
  <2> HIDE DEF f, n
  <2> QED
    BY <1>1, SumToNat
<1>4. \A i \in DOMAIN orders' : g[i] = orders'[i].lock_fee
  OBVIOUS
<1>5. total_fee + SumTo(f, n) = Fee * n
  BY <1>2 DEF FeesAddUp
<1>6. FeesAddUp' <=> total_fee' + SumTo(g, Len(orders')) = Fee * Len(orders')
  BY <1>2 DEF FeesAddUp
<1> HIDE DEF f, g
<1>7. CASE BooksKept
  BY <1>7, <1>2, <1>5, <1>6 DEF BooksKept, LockedFees, n
<1>8. ASSUME NEW o, PlacedNow(o) PROVE FeesAddUp'
  <2>1. /\ Len(orders') = n + 1
        /\ DOMAIN orders' = DOMAIN orders \cup {n + 1}
        /\ \A i \in DOMAIN orders : orders'[i] = orders[i]
        /\ orders'[n + 1] = o
    BY <1>0, <1>8, PlacedOrders
  <2>2. o.lock_fee = Fee /\ total_fee' = total_fee
    BY <1>8 DEF PlacedNow, Fresh
  <2> HIDE DEF n
  <2>3. (\A i \in 1 .. n : f[i] = g[i]) /\ g[n + 1] = Fee
    BY <1>1, <1>4, <2>1, <2>2
  <2>4. SumTo(g, n + 1) = SumTo(f, n) + Fee
    BY <1>1, <2>3, SumToAppend
  <2>5. Fee * (n + 1) = Fee * n + Fee
    BY <1>1
  <2> QED
    BY <1>1, <1>3, <1>5, <1>6, <2>1, <2>2, <2>4, <2>5
<1>9. ASSUME NEW i, CancelledNow(i) PROVE FeesAddUp'
  <2>1. /\ Len(orders') = n /\ DOMAIN orders' = DOMAIN orders
        /\ \A j \in DOMAIN orders : orders'[j].lock_fee = orders[j].lock_fee
    BY <1>0, <1>9, CancelledOrders
  <2>2. total_fee' = total_fee
    BY <1>9 DEF CancelledNow
  <2> HIDE DEF n
  <2>3. \A j \in 1 .. n : f[j] = g[j]
    BY <1>1, <1>4, <2>1
  <2>4. SumTo(g, n) = SumTo(f, n)
    BY <1>1, <2>3, SumToSameTerms
  <2> QED
    BY <1>5, <1>6, <2>1, <2>2, <2>4
<1>10. ASSUME NEW a_id, NEW b_id, NEW a_amount, NEW b_amount,
              TradedNow(a_id, b_id, a_amount, b_amount)
       PROVE  FeesAddUp'
  <2>1. /\ a_id \in DOMAIN orders /\ b_id \in DOMAIN orders /\ a_id # b_id
        /\ Len(orders') = n /\ DOMAIN orders' = DOMAIN orders
        /\ \A i \in DOMAIN orders :
             i # a_id /\ i # b_id => orders'[i] = orders[i]
        /\ orders'[a_id].lock_fee = 0 /\ orders'[b_id].lock_fee = 0
    BY <1>0, <1>10, TradedEffect DEF Advanced
  <2>2. total_fee' = total_fee + TradeFees(orders[a_id], orders[b_id])
    <3> DEFINE x == total_fee + TradeFees(orders[a_id], orders[b_id])
    <3>1. x \in 0 .. MaxU64 /\ MaxU64 \in Nat
      BY <1>10, FeesFit, WidthAssumption
    <3>2. total_fee' = Wrap(x)
      BY <1>10 DEF TradedNow
    <3> HIDE DEF x
    <3>3. x \in Nat /\ x <= MaxU64
      BY <3>1
    <3> QED
      BY <3>2, <3>3, WrapAtMost DEF x
  <2> HIDE DEF n
  <2>3. /\ a_id \in 1 .. n /\ b_id \in 1 .. n
        /\ f[a_id] = orders[a_id].lock_fee /\ f[b_id] = orders[b_id].lock_fee
        /\ g[a_id] = 0 /\ g[b_id] = 0
        /\ \A i \in 1 .. n : i # a_id /\ i # b_id => g[i] = f[i]
    BY <1>1, <1>4, <2>1
  <2>4. \A i \in 1 .. n : f[i] \in Int /\ g[i] \in Int
    BY <1>1, <2>3
  <2>5. SumTo(g, n) = SumTo(f, n) - f[a_id] + g[a_id] - f[b_id] + g[b_id]
    <3>1. n \in Nat /\ a_id # b_id
      BY <1>1, <2>1
    <3> QED
      BY <2>3, <2>4, <3>1, SumToUpdateTwo
  <2>6. total_fee' = total_fee + (f[a_id] + f[b_id])
    BY <2>2, <2>3 DEF TradeFees
  <2>7. f[a_id] \in Int /\ f[b_id] \in Int
    BY <2>3, <2>4
  <2>8. SumTo(g, n) = SumTo(f, n) - f[a_id] - f[b_id]
    BY <1>3, <2>3, <2>5, <2>7
  <2>9. total_fee' + SumTo(g, n) = total_fee + SumTo(f, n)
    BY <1>1, <1>3, <2>6, <2>7, <2>8
  <2> QED
    BY <1>5, <1>6, <2>1, <2>9
<1> QED
  BY <1>7, <1>8, <1>9, <1>10 DEF BooksStep

\* The fee of an order is collected by its first trade, once; while the supply
\* of a token fits u64 and only careful players trade, the collected and the
\* locked fees are the fees of all orders ever placed.
THEOREM FeeOncePerOrderCorrect == Spec => []FeeOncePerOrder
<1> DEFINE Fees == MaxSupply <= MaxU64 /\ CarefulTrades => FeesAddUp
<1>1. Init => SupplyBounded /\ FeeOfTraded /\ Fees
  <2> SUFFICES ASSUME Init PROVE SupplyBounded /\ FeeOfTraded /\ FeesAddUp
    OBVIOUS
  <2>1. orders = <<>> /\ trades = <<>> /\ total_fee = 0
    BY DEF Init
  <2>2. Len(orders) = 0 /\ Fee \in Nat
    BY <2>1, ConfigAssumption, WidthAssumption DEF U64
  <2>3. LockedFees = 0
    <3> DEFINE f == [i \in DOMAIN orders |-> orders[i].lock_fee]
    <3>1. LockedFees = SumTo(f, 0)
      BY <2>2 DEF LockedFees
    <3> HIDE DEF f
    <3> QED
      BY <3>1, SumToEquations
  <2>4. FeesAddUp
    BY <2>1, <2>2, <2>3 DEF FeesAddUp
  <2>5. SupplyBounded
    BY WidthAssumption DEF Init, SupplyBounded
  <2> QED
    BY <2>1, <2>4, <2>5 DEF FeeOfTraded
<1>2. TypeOK /\ SupplyBounded /\ [Next]_vars => SupplyBounded'
  BY SupplyKept
<1>3. TypeOK /\ TypeOK' /\ FeeOfTraded /\ [Next]_vars => FeeOfTraded'
  BY EveryStep, FeeOfTradedKept
<1>4. BankInv /\ TypeOK' /\ SupplyBounded /\ Fees /\ [Next]_vars => Fees'
  <2> SUFFICES ASSUME BankInv, TypeOK', SupplyBounded, Fees, [Next]_vars,
                      MaxSupply <= MaxU64, CarefulTrades'
               PROVE  FeesAddUp'
    OBVIOUS
  <2>1. TypeOK
    BY DEF BankInv
  <2>2. CarefulTrades /\ SidesKept /\ BooksStep
    BY <2>1, CarefulTradesBefore, NextKeepsSides, EveryStep
  <2> QED
    BY <2>2, FeesAddUpKept
<1>5. FeeOfTraded /\ Fees => FeeOncePerOrder
  BY DEF FeeOfTraded, FeesAddUp, FeeOncePerOrder
<1> QED
  BY <1>1, <1>2, <1>3, <1>4, <1>5, TypeCorrect, BankInvariant, PTL DEF Spec

-----------------------------------------------------------------------------
(* What trades take from an order and how far they advance it.             *)

SpentIn(tr, i) ==
  CASE tr.a_order_id = i -> tr.a_actual_amount
    [] tr.b_order_id = i -> tr.b_actual_amount
    [] OTHER -> 0

DealtIn(tr, i, o) ==
  IF i \in {tr.a_order_id, tr.b_order_id}
  THEN DealAmount(o, tr.a_actual_amount, tr.b_actual_amount) ELSE 0

LEMMA TradeTerms ==
  ASSUME TypeOK, NEW i, NEW o
  PROVE  /\ Len(trades) \in Nat /\ DOMAIN trades = 1 .. Len(trades)
         /\ \A k \in DOMAIN trades :
              SpentIn(trades[k], i) \in Nat /\ DealtIn(trades[k], i, o) \in Nat
         /\ i \notin DOMAIN orders =>
              \A k \in DOMAIN trades :
                SpentIn(trades[k], i) = 0 /\ DealtIn(trades[k], i, o) = 0
<1>1. Len(trades) \in Nat /\ DOMAIN trades = 1 .. Len(trades)
  BY LenProperties DEF TypeOK
<1> QED
  BY <1>1, TradeAt DEF SpentIn, DealtIn, DealAmount

LEMMA SpentByIs ==
  ASSUME TypeOK, NEW i
  PROVE  /\ SpentBy(i) \in Nat
         /\ i \notin DOMAIN orders => SpentBy(i) = 0
<1> DEFINE f == [k \in DOMAIN trades |-> SpentIn(trades[k], i)]
           n == Len(trades)
<1>1. SpentBy(i) = SumTo(f, n)
  BY DEF SpentBy, SpentIn
<1>2. n \in Nat /\ \A k \in 1 .. n : f[k] \in Nat
  BY TradeTerms
<1>3. i \notin DOMAIN orders => \A k \in 1 .. n : f[k] = 0
  BY TradeTerms
<1> HIDE DEF f, n
<1> QED
  BY <1>1, <1>2, <1>3, SumToNat, SumToZeros

LEMMA DealtByIs ==
  ASSUME TypeOK, NEW i
  PROVE  /\ DealtBy(i) \in Nat
         /\ i \notin DOMAIN orders => DealtBy(i) = 0
<1> DEFINE f == [k \in DOMAIN trades |-> DealtIn(trades[k], i, orders[i])]
           n == Len(trades)
<1>1. DealtBy(i) = SumTo(f, n)
  BY DEF DealtBy, DealtIn
<1>2. n \in Nat /\ \A k \in 1 .. n : f[k] \in Nat
  BY TradeTerms
<1>3. i \notin DOMAIN orders => \A k \in 1 .. n : f[k] = 0
  BY TradeTerms
<1> HIDE DEF f, n
<1> QED
  BY <1>1, <1>2, <1>3, SumToNat, SumToZeros

\* A trade adds its own amounts, and only for its two orders.
LEMMA SpentAfter ==
  ASSUME TypeOK, NEW tr, trades' = Append(trades, tr), NEW i
  PROVE  SpentBy(i)' = SpentBy(i) + SpentIn(tr, i)
<1> DEFINE f == [k \in DOMAIN trades |-> SpentIn(trades[k], i)]
           g == [k \in DOMAIN trades' |-> SpentIn(trades'[k], i)]
           n == Len(trades)
<1>1. SpentBy(i) = SumTo(f, n) /\ SpentBy(i)' = SumTo(g, Len(trades'))
  BY DEF SpentBy, SpentIn
<1>2. /\ n \in Nat /\ Len(trades') = n + 1
      /\ DOMAIN trades = 1 .. n /\ DOMAIN trades' = DOMAIN trades \cup {n + 1}
      /\ \A k \in DOMAIN trades : trades'[k] = trades[k]
      /\ trades'[n + 1] = tr
  BY TradesAppended
<1>3. (\A k \in 1 .. n : f[k] = g[k]) /\ g[n + 1] = SpentIn(tr, i)
  BY <1>2
<1> HIDE DEF f, g, n
<1> QED
  BY <1>1, <1>2, <1>3, SumToAppend

LEMMA DealtAfter ==
  ASSUME TypeOK, TypeOK', NEW tr, trades' = Append(trades, tr),
         NEW i, SameTerms(orders[i], orders'[i])
  PROVE  DealtBy(i)' = DealtBy(i) + DealtIn(tr, i, orders[i])
<1> DEFINE o == orders[i]
           w == orders'[i]
           f == [k \in DOMAIN trades |-> DealtIn(trades[k], i, o)]
           g == [k \in DOMAIN trades' |-> DealtIn(trades'[k], i, w)]
           n == Len(trades)
<1>1. DealtBy(i) = SumTo(f, n) /\ DealtBy(i)' = SumTo(g, Len(trades'))
  BY DEF DealtBy, DealtIn
<1>2. /\ n \in Nat /\ Len(trades') = n + 1
      /\ DOMAIN trades = 1 .. n /\ DOMAIN trades' = DOMAIN trades \cup {n + 1}
      /\ \A k \in DOMAIN trades : trades'[k] = trades[k]
      /\ trades'[n + 1] = tr
  BY TradesAppended
<1>3. \A x : DealtIn(x, i, w) = DealtIn(x, i, o)
  BY DEF SameTerms, DealtIn, DealAmount, is_market_order
<1> HIDE DEF o, w
<1>4. (\A k \in 1 .. n : f[k] = g[k]) /\ g[n + 1] = DealtIn(tr, i, o)
  BY <1>2, <1>3
<1> HIDE DEF f, g, n
<1>5. SumTo(g, n + 1) = SumTo(f, n) + g[n + 1]
  BY <1>2, <1>4, SumToAppend
<1>6. DealtBy(i)' = DealtBy(i) + DealtIn(tr, i, o)
  BY <1>1, <1>2, <1>4, <1>5
<1> QED
  BY <1>6 DEF o

-----------------------------------------------------------------------------
(* Budgets.                                                                *)

Budget(o) == LimitCost(o.asked, o.price, o.b_token_amount)

\* What LimitBudget says of one order and what was spent of it.
WithinBudget(o, spent) ==
  is_limit_order(o) =>
    /\ spent + o.lock_balance <= Budget(o)
    /\ is_live(o) => spent + o.lock_balance = Budget(o)

LEMMA LimitBudgetIs ==
  LimitBudget <=> \A i \in DOMAIN orders : WithinBudget(orders[i], SpentBy(i))
BY DEF LimitBudget, WithinBudget, Budget

\* A live order that pays, and may have something released, stays in budget.
LEMMA BudgetAfterPayment ==
  ASSUME NEW o, NEW n, NEW spent \in Nat, NEW cost \in Nat,
         o.lock_balance \in Nat, cost <= o.lock_balance,
         SameTerms(o, n), is_live(o), WithinBudget(o, spent),
         \/ n.lock_balance = o.lock_balance - cost
         \/ n.lock_balance = 0 /\ ~is_live(n)
  PROVE  WithinBudget(n, spent + cost)
<1>1. Budget(n) = Budget(o) /\ (is_limit_order(n) <=> is_limit_order(o))
  BY DEF SameTerms, Budget, is_limit_order
<1>2. is_limit_order(o) => Budget(o) = spent + o.lock_balance
  BY DEF WithinBudget
<1> QED
  BY <1>1, <1>2 DEF WithinBudget

LEMMA BudgetKept == TypeOK /\ TypeOK' /\ LimitBudget /\ BooksStep => LimitBudget'
<1> SUFFICES ASSUME TypeOK, TypeOK', LimitBudget, BooksStep,
                    NEW j \in DOMAIN orders'
             PROVE  WithinBudget(orders'[j], SpentBy(j)')
  BY DEF LimitBudget, WithinBudget, Budget
<1>1. \A i \in DOMAIN orders : WithinBudget(orders[i], SpentBy(i))
  BY LimitBudgetIs
<1>2. \A i \in DOMAIN orders : orders[i].lock_balance \in Nat
  BY OrderAt DEF OrderType, U64
<1>3. trades' = trades => SpentBy(j)' = SpentBy(j)
  BY DEF SpentBy
<1>4. SpentBy(j) \in Nat /\ (j \notin DOMAIN orders => SpentBy(j) = 0)
  BY SpentByIs
<1>5. CASE BooksKept
  BY <1>1, <1>3, <1>5 DEF BooksKept
<1>6. ASSUME NEW o, PlacedNow(o) PROVE WithinBudget(orders'[j], SpentBy(j)')
  <2>1. /\ DOMAIN orders = 1 .. Len(orders) /\ Len(orders) \in Nat
        /\ DOMAIN orders' = DOMAIN orders \cup {Len(orders) + 1}
        /\ \A i \in DOMAIN orders : orders'[i] = orders[i]
        /\ orders'[Len(orders) + 1] = o
    BY <1>6, PlacedOrders
  <2>2. Fresh(o) /\ SpentBy(j)' = SpentBy(j)
    BY <1>3, <1>6 DEF PlacedNow
  <2>3. o.lock_balance \in Nat
    BY <2>2 DEF Fresh, OrderType, U64
  <2>4. WithinBudget(o, 0)
    BY <2>2, <2>3 DEF WithinBudget, Budget, Fresh
  <2>5. CASE j \in DOMAIN orders
    BY <1>1, <2>1, <2>2, <2>5
  <2>6. CASE j \notin DOMAIN orders
    BY <1>4, <2>1, <2>2, <2>4, <2>6
  <2> QED
    BY <2>5, <2>6
<1>7. ASSUME NEW i, CancelledNow(i) PROVE WithinBudget(orders'[j], SpentBy(j)')
  <2>1. SpentBy(j)' = SpentBy(j) /\ j \in DOMAIN orders
    BY <1>3, <1>7, CancelledOrders DEF CancelledNow
  <2>2. CASE j = i
    <3>1. /\ is_live(orders[j]) /\ SameTerms(orders[j], orders'[j])
          /\ orders'[j].lock_balance = 0
          /\ orders'[j].status = STATUS_CANCEL
      BY <1>7, <2>2, CancelledOrders
    <3>2. ~is_live(orders'[j])
      BY <3>1 DEF is_live, STATUS_CANCEL, STATUS_LIVE, STATUS_PARTIAL_MATCH
    <3>3. WithinBudget(orders'[j], SpentBy(j) + 0)
      BY <1>1, <1>2, <1>4, <2>1, <3>1, <3>2, BudgetAfterPayment
    <3> QED
      BY <1>4, <2>1, <3>3
  <2>3. CASE j # i
    BY <1>1, <1>7, <2>1, <2>3, CancelledOrders
  <2> QED
    BY <2>2, <2>3
<1>8. ASSUME NEW a_id, NEW b_id, NEW a_amount, NEW b_amount,
             TradedNow(a_id, b_id, a_amount, b_amount)
      PROVE  WithinBudget(orders'[j], SpentBy(j)')
  <2> DEFINE tr == TradeOf(a_id, b_id, a_amount, b_amount)
             cost == SpentIn(tr, j)
  <2>1. SpentBy(j)' = SpentBy(j) + cost
    BY <1>8, SpentAfter DEF TradedNow
  <2>2. cost = CASE a_id = j -> a_amount [] b_id = j -> b_amount [] OTHER -> 0
    BY DEF SpentIn, TradeOf
  <2> HIDE DEF cost
  <2>3. j \in DOMAIN orders
    BY <1>8, TradedEffect
  <2>4. STATUS_MATCH \notin {STATUS_LIVE, STATUS_PARTIAL_MATCH}
    BY DEF STATUS_MATCH, STATUS_LIVE, STATUS_PARTIAL_MATCH
  <2>5. CASE j = a_id
    <3>1. /\ cost = a_amount /\ a_amount \in Nat
          /\ a_amount <= orders[j].lock_balance
          /\ is_live(orders[j]) /\ SameTerms(orders[j], orders'[j])
          /\ orders'[j].lock_balance =
               IF orders'[j].status = STATUS_MATCH THEN 0
               ELSE orders[j].lock_balance - a_amount
      BY <1>8, <2>2, <2>5, TradedEffect DEF Advanced
    <3>2. \/ orders'[j].lock_balance = orders[j].lock_balance - cost
          \/ orders'[j].lock_balance = 0 /\ ~is_live(orders'[j])
      BY <2>4, <3>1 DEF is_live
    <3> QED
      BY <1>1, <1>2, <1>4, <2>1, <2>3, <3>1, <3>2, BudgetAfterPayment
  <2>6. CASE j = b_id
    <3>1. a_id # b_id
      BY <1>8 DEF TradedNow
    <3>2. /\ cost = b_amount /\ b_amount \in Nat
          /\ b_amount <= orders[j].lock_balance
          /\ is_live(orders[j]) /\ SameTerms(orders[j], orders'[j])
          /\ orders'[j].lock_balance = orders[j].lock_balance - cost
      BY <1>8, <2>2, <2>6, <3>1, TradedEffect DEF Advanced
    <3> QED
      BY <1>1, <1>2, <1>4, <2>1, <2>3, <3>2, BudgetAfterPayment
  <2>7. CASE j # a_id /\ j # b_id
    <3>1. orders'[j] = orders[j] /\ cost = 0
      BY <1>8, <2>2, <2>3, <2>7, TradedEffect
    <3> QED
      BY <1>1, <1>4, <2>1, <2>3, <3>1
  <2> QED
    BY <2>5, <2>6, <2>7
<1> QED
  BY <1>5, <1>6, <1>7, <1>8 DEF BooksStep

\* A limit order never pays more than it locked when it was placed: spent and
\* still locked make up the whole as long as it lives.
THEOREM LimitBudgetCorrect == Spec => []LimitBudget
<1>1. Init => LimitBudget
  BY DEF Init, LimitBudget
<1>2. TypeOK /\ TypeOK' /\ LimitBudget /\ [Next]_vars => LimitBudget'
  BY EveryStep, BudgetKept
<1> QED
  BY <1>1, <1>2, TypeCorrect, PTL DEF Spec

-----------------------------------------------------------------------------
(* Progress, as a u64.                                                     *)

\* The remainder is the only number below the divisor that is left.
LEMMA RemainderUnique ==
  ASSUME NEW d \in Nat \ {0}, NEW k \in Nat, NEW s \in 0 .. d - 1
  PROVE  ((d * k) + s) % d = s
<1> DEFINE n == (d * k) + s
           q == n \div d
           r == n % d
<1>1. d * k \in Nat
  OBVIOUS
<1>2. n \in Nat
  BY <1>1
<1>3. q \in Nat /\ r \in 0 .. d - 1
  <2> HIDE DEF n
  <2> QED
    BY <1>2
<1>4. n = (d * q) + r
  <2> HIDE DEF n
  <2> QED
    BY <1>2
<1>5. (d * k) + s = (d * q) + r
  BY <1>4
<1> HIDE DEF n, q, r
<1>6. ASSUME NEW x \in Nat, NEW y \in Nat, x < y PROVE (d * x) + d <= d * y
  <2>1. PICK w \in Nat : y = (x + 1) + w
    <3>1. y - (x + 1) \in Nat /\ y = (x + 1) + (y - (x + 1))
      BY <1>6
    <3> QED
      BY <3>1
  <2>2. d * y = (d * x) + d + (d * w)
    BY <2>1
  <2>3. d * w \in Nat /\ d * x \in Nat
    BY <2>1
  <2> QED
    BY <2>2, <2>3
<1>7. d * q \in Nat
  BY <1>3
<1>8. ~(k < q)
  BY <1>1, <1>3, <1>5, <1>6, <1>7
<1>9. ~(q < k)
  BY <1>1, <1>3, <1>5, <1>6, <1>7
<1>10. r = s
  BY <1>1, <1>3, <1>5, <1>7, <1>8, <1>9
<1> QED
  BY <1>10 DEF r, n

LEMMA RemainderOfSum ==
  ASSUME NEW d \in Nat \ {0}, NEW x \in Nat, NEW y \in Nat
  PROVE  ((x % d) + y) % d = (x + y) % d
<1> DEFINE q == x \div d
           r == x % d
           k == (r + y) \div d
           s == (r + y) % d
<1>1. q \in Nat /\ r \in 0 .. d - 1 /\ x = (d * q) + r
  OBVIOUS
<1> HIDE DEF q, r
<1>2. r + y \in Nat
  BY <1>1
<1>3. k \in Nat /\ s \in 0 .. d - 1 /\ r + y = (d * k) + s
  BY <1>2
<1> HIDE DEF k, s
<1>4. d * (q + k) = (d * q) + (d * k)
  BY <1>1, <1>3
<1>5. d * q \in Nat /\ d * k \in Nat /\ q + k \in Nat
  BY <1>1, <1>3
<1>6. x + y = (d * (q + k)) + s
  BY <1>1, <1>3, <1>4, <1>5
<1>7. ((d * (q + k)) + s) % d = s
  BY <1>3, <1>5, RemainderUnique
<1> QED
  BY <1>6, <1>7 DEF s, r

\* Wrapping at every step is wrapping the sum.
LEMMA WrapOfSum ==
  ASSUME NEW x \in Nat, NEW y \in Nat PROVE Wrap(Wrap(x) + y) = Wrap(x + y)
<1> DEFINE d == MaxU64 + 1
<1>1. d \in Nat \ {0}
  BY WidthAssumption
<1> HIDE DEF d
<1>2. ((x % d) + y) % d = (x + y) % d
  BY <1>1, RemainderOfSum
<1> QED
  BY <1>2 DEF Wrap, d

LEMMA DealtKept ==
  TypeOK /\ TypeOK' /\ DealMatchesTrades /\ BooksStep => DealMatchesTrades'
<1> SUFFICES ASSUME TypeOK, TypeOK', DealMatchesTrades, BooksStep,
                    NEW j \in DOMAIN orders'
             PROVE  orders'[j].already_deal_amount = Wrap(DealtBy(j)')
  BY DEF DealMatchesTrades, Wrap
<1>1. \A i \in DOMAIN orders :
        orders[i].already_deal_amount = Wrap(DealtBy(i))
  BY DEF DealMatchesTrades
<1>2. DealtBy(j) \in Nat /\ Wrap(0) = 0
  <2>1. 0 <= MaxU64
    BY WidthAssumption
  <2> QED
    BY <2>1, DealtByIs, WrapAtMost
<1>3. CASE BooksKept
  <2>1. DealtBy(j)' = DealtBy(j)
    BY <1>3 DEF BooksKept, DealtBy, DealAmount, is_market_order
  <2> QED
    BY <1>1, <1>3, <2>1 DEF BooksKept
<1>4. ASSUME NEW o, PlacedNow(o)
      PROVE  orders'[j].already_deal_amount = Wrap(DealtBy(j)')
  <2>1. /\ DOMAIN orders = 1 .. Len(orders) /\ Len(orders) \in Nat
        /\ DOMAIN orders' = DOMAIN orders \cup {Len(orders) + 1}
        /\ \A i \in DOMAIN orders : orders'[i] = orders[i]
        /\ orders'[Len(orders) + 1] = o
    BY <1>4, PlacedOrders
  <2>2. o.already_deal_amount = 0 /\ trades' = trades
    BY <1>4 DEF PlacedNow, Fresh
  <2>3. CASE j \in DOMAIN orders
    <3>1. DealtBy(j)' = DealtBy(j)
      BY <2>1, <2>2, <2>3 DEF DealtBy, DealAmount, is_market_order
    <3> QED
      BY <1>1, <2>1, <2>3, <3>1
  <2>4. CASE j \notin DOMAIN orders
    <3>1. \A k \in DOMAIN trades :
            j \notin {trades[k].a_order_id, trades[k].b_order_id}
      BY <2>4, TradeAt
    <3>2. DealtBy(j)' = 0
      <4> DEFINE g == [k \in DOMAIN trades' |->
                         DealtIn(trades'[k], j, orders'[j])]
                 n == Len(trades)
      <4>1. DealtBy(j)' = SumTo(g, Len(trades'))
        BY DEF DealtBy, DealtIn
      <4>2. n \in Nat /\ DOMAIN trades = 1 .. n
        BY TradeTerms
      <4>3. \A k \in 1 .. n : g[k] = 0
        BY <2>2, <3>1, <4>2 DEF DealtIn
      <4> HIDE DEF g
      <4> QED
        BY <2>2, <4>1, <4>2, <4>3, SumToZeros
    <3> QED
      BY <1>2, <2>1, <2>2, <2>4, <3>2
  <2> QED
    BY <2>3, <2>4
<1>5. ASSUME NEW i, CancelledNow(i)
      PROVE  orders'[j].already_deal_amount = Wrap(DealtBy(j)')
  <2>1. /\ trades' = trades /\ j \in DOMAIN orders
        /\ SameTerms(orders[j], orders'[j])
        /\ orders'[j].already_deal_amount = orders[j].already_deal_amount
    BY <1>5, CancelledOrders DEF CancelledNow, SameTerms
  <2>2. \A x, y : DealAmount(orders'[j], x, y) = DealAmount(orders[j], x, y)
    BY <2>1 DEF SameTerms, DealAmount, is_market_order
  <2>3. DealtBy(j)' = DealtBy(j)
    <3> DEFINE D(o) == SumTo([k \in DOMAIN trades |-> DealtIn(trades[k], j, o)],
                             Len(trades))
    <3>1. DealtBy(j) = D(orders[j]) /\ DealtBy(j)' = D(orders'[j])
      BY <2>1 DEF DealtBy, DealtIn
    <3>2. \A tr : DealtIn(tr, j, orders'[j]) = DealtIn(tr, j, orders[j])
      BY <2>2 DEF DealtIn
    <3> QED
      BY <3>1, <3>2
  <2> QED
    BY <1>1, <2>1, <2>3
<1>6. ASSUME NEW a_id, NEW b_id, NEW a_amount, NEW b_amount,
             TradedNow(a_id, b_id, a_amount, b_amount)
      PROVE  orders'[j].already_deal_amount = Wrap(DealtBy(j)')
  <2> DEFINE tr == TradeOf(a_id, b_id, a_amount, b_amount)
             deal == DealtIn(tr, j, orders[j])
  <2>1. j \in DOMAIN orders /\ a_amount \in Nat /\ b_amount \in Nat
    BY <1>6, TradedEffect
  <2>2. SameTerms(orders[j], orders'[j])
    BY <1>6, <2>1, TermsKept
  <2>3. DealtBy(j)' = DealtBy(j) + deal
    BY <1>6, <2>2, DealtAfter DEF TradedNow
  <2>4. deal = IF j \in {a_id, b_id}
               THEN DealAmount(orders[j], a_amount, b_amount) ELSE 0
    BY DEF DealtIn, TradeOf
  <2>5. deal \in Nat
    BY <2>1, <2>4 DEF DealAmount
  <2> HIDE DEF deal
  <2>6. CASE j \in {a_id, b_id}
    <3>1. orders'[j].already_deal_amount =
            Wrap(orders[j].already_deal_amount + deal)
      BY <1>6, <2>4, <2>6, TradedEffect DEF Advanced
    <3>2. orders'[j].already_deal_amount = Wrap(Wrap(DealtBy(j)) + deal)
      BY <1>1, <2>1, <3>1
    <3> QED
      BY <1>2, <2>3, <2>5, <3>2, WrapOfSum
  <2>7. CASE j \notin {a_id, b_id}
    <3>1. orders'[j] = orders[j] /\ DealtBy(j)' = DealtBy(j)
      BY <1>2, <1>6, <2>1, <2>3, <2>4, <2>7, TradedEffect
    <3> QED
      BY <1>1, <2>1, <3>1
  <2> QED
    BY <2>6, <2>7
<1> QED
  BY <1>3, <1>4, <1>5, <1>6 DEF BooksStep

\* The progress of an order is the sum of its trades modulo the width of u64,
\* also when some of the additions wrap.
THEOREM DealMatchesTradesCorrect == Spec => []DealMatchesTrades
<1>1. Init => DealMatchesTrades
  BY DEF Init, DealMatchesTrades
<1>2. TypeOK /\ TypeOK' /\ DealMatchesTrades /\ [Next]_vars
        => DealMatchesTrades'
  BY EveryStep, DealtKept
<1> QED
  BY <1>1, <1>2, TypeCorrect, PTL DEF Spec

-----------------------------------------------------------------------------
(* Finished orders keep nothing locked.                                    *)

\* NothingStranded alone does not last: that a complete fill leaves a seller
\* nothing locked follows only from what is left of a live sell order, which
\* is what it keeps locked, if it ever locked anything.
Covers(o) ==
  is_sell(o) /\ ~SizedInProceeds(o) =>
    /\ is_market_order(o) => o.a_token_amount = 0
    /\ is_live(o) =>
         \/ is_market_order(o) /\ o.lock_balance = 0
         \/ o.lock_balance + o.already_deal_amount = o.b_token_amount

SellsAreCovered == \A i \in DOMAIN orders : Covers(orders[i])

NothingLeft(o) == Finished(o) /\ ~SizedInProceeds(o) => o.lock_balance = 0

LEMMA FreshIsCovered == ASSUME NEW o, Fresh(o) PROVE Covers(o) /\ NothingLeft(o)
<1>1. /\ o \in OrderType /\ o.status = STATUS_LIVE /\ o.already_deal_amount = 0
      /\ o.asked = FLAG_BUY => is_buy(o)
      /\ is_limit_order(o) =>
           o.lock_balance = LimitCost(o.asked, o.price, o.b_token_amount)
      /\ is_market_order(o) =>
           /\ o.b_token_amount = 0 \/ o.a_token_amount = 0
           /\ is_sell(o) /\ o.b_token_amount # 0 =>
                o.lock_balance \in {0, o.b_token_amount}
  BY DEF Fresh
<1>2. o.lock_balance \in Nat /\ o.b_token_amount \in Nat
  BY <1>1 DEF OrderType, U64
<1>3. is_limit_order(o) \/ is_market_order(o)
  BY <1>1 DEF OrderType, is_limit_order, is_market_order
<1>4. is_sell(o) => ~is_buy(o) /\ o.asked # FLAG_BUY
  BY <1>1 DEF is_sell, is_buy, FLAG_SELL, FLAG_BUY
<1>5. ASSUME is_sell(o), ~SizedInProceeds(o)
      PROVE  /\ is_market_order(o) => o.a_token_amount = 0
             /\ \/ is_market_order(o) /\ o.lock_balance = 0
                \/ o.lock_balance = o.b_token_amount
  <2>1. is_market_order(o) => o.b_token_amount # 0
    BY <1>4, <1>5 DEF SizedInProceeds
  <2> QED
    BY <1>1, <1>3, <1>4, <1>5, <2>1 DEF LimitCost
<1>6. ~Finished(o)
  BY <1>1 DEF Finished, STATUS_LIVE, STATUS_MATCH, STATUS_CANCEL
<1> QED
  BY <1>1, <1>2, <1>5, <1>6 DEF Covers, NothingLeft

\* The seller's side of a trade: its progress does not wrap, and is complete
\* when nothing is locked any more.
LEMMA SellerIsCovered ==
  ASSUME NEW o \in OrderType, NEW n, NEW a_amount \in Nat, NEW b_amount \in Nat,
         is_sell(o), is_live(o), Covers(o), b_amount <= o.lock_balance,
         Advanced(o, n, DealAmount(o, a_amount, b_amount)),
         n.lock_balance = o.lock_balance - b_amount
  PROVE  Covers(n) /\ NothingLeft(n)
<1>1. /\ is_sell(n) <=> is_sell(o)
      /\ is_market_order(n) <=> is_market_order(o)
      /\ SizedInProceeds(n) <=> SizedInProceeds(o)
      /\ n.b_token_amount = o.b_token_amount
      /\ n.a_token_amount = o.a_token_amount
  BY DEF Advanced, SameTerms, is_sell, is_market_order, SizedInProceeds, is_buy
<1>2. CASE SizedInProceeds(o)
  BY <1>1, <1>2 DEF Covers, NothingLeft
<1>3. o.lock_balance \in Nat /\ b_amount \in Nat
  BY DEF OrderType, U64
<1>4. CASE is_market_order(o) /\ o.lock_balance = 0 /\ ~SizedInProceeds(o)
  <2>1. n.lock_balance = 0
    BY <1>3, <1>4
  <2> QED
    BY <1>1, <1>4, <2>1 DEF Covers, NothingLeft
<1>5. CASE ~(is_market_order(o) /\ o.lock_balance = 0) /\ ~SizedInProceeds(o)
  <2>1. /\ is_market_order(o) => o.a_token_amount = 0
        /\ o.lock_balance + o.already_deal_amount = o.b_token_amount
    BY <1>5 DEF Covers
  <2>2. DealAmount(o, a_amount, b_amount) = b_amount
    BY <2>1 DEF DealAmount
  <2>3. /\ o.lock_balance \in Nat /\ o.already_deal_amount \in Nat
        /\ o.b_token_amount \in Nat /\ o.b_token_amount <= MaxU64
        /\ MaxU64 \in Nat
    BY WidthAssumption DEF OrderType, U64
  <2>4. n.already_deal_amount = Wrap(o.already_deal_amount + b_amount)
    BY <2>2 DEF Advanced
  <2>5. /\ o.already_deal_amount + b_amount \in Nat
        /\ o.already_deal_amount + b_amount <= MaxU64
    BY <2>1, <2>3
  <2>6. n.already_deal_amount = o.already_deal_amount + b_amount
    BY <2>4, <2>5, WrapAtMost
  <2>7. n.lock_balance + n.already_deal_amount = n.b_token_amount
    BY <1>1, <2>1, <2>3, <2>6
  <2>8. Finished(n) => n.b_token_amount = n.already_deal_amount
    BY DEF Advanced, Finished, STATUS_MATCH, STATUS_CANCEL, STATUS_PARTIAL_MATCH
  <2>9. n.lock_balance \in Int /\ n.already_deal_amount \in Int
    BY <2>3, <2>6
  <2> QED
    BY <1>1, <2>1, <2>7, <2>8, <2>9 DEF Covers, NothingLeft
<1> QED
  BY <1>2, <1>4, <1>5

LEMMA StrandedKept ==
  TypeOK /\ TypeOK' /\ SellsAreCovered /\ NothingStranded /\ BooksStep
    => SellsAreCovered' /\ NothingStranded'
<1> SUFFICES ASSUME TypeOK, TypeOK', SellsAreCovered, NothingStranded, BooksStep,
                    NEW j \in DOMAIN orders'
             PROVE  Covers(orders'[j]) /\ NothingLeft(orders'[j])
  BY DEF SellsAreCovered, NothingStranded, Covers, NothingLeft
<1>1. \A i \in DOMAIN orders : Covers(orders[i]) /\ NothingLeft(orders[i])
  BY DEF SellsAreCovered, NothingStranded, Covers, NothingLeft
<1>2. CASE BooksKept
  BY <1>1, <1>2 DEF BooksKept
<1>3. CASE \E o : PlacedNow(o)
  BY <1>1, <1>3, PlacedOrders, FreshIsCovered DEF PlacedNow
<1>4. ASSUME NEW i, CancelledNow(i)
      PROVE  Covers(orders'[j]) /\ NothingLeft(orders'[j])
  <2>1. CASE j = i
    <3>1. /\ i \in DOMAIN orders
          /\ SameTerms(orders[i], orders'[i])
          /\ orders'[i].status = STATUS_CANCEL /\ orders'[i].lock_balance = 0
      BY <1>4, CancelledOrders
    <3>2. ~is_live(orders'[i])
      BY <3>1 DEF is_live, STATUS_CANCEL, STATUS_LIVE, STATUS_PARTIAL_MATCH
    <3> QED
      BY <1>1, <2>1, <3>1, <3>2
      DEF Covers, NothingLeft, SameTerms, is_sell, is_buy, is_market_order,
          SizedInProceeds
  <2>2. CASE j # i
    BY <1>1, <1>4, <2>2, CancelledOrders
  <2> QED
    BY <2>1, <2>2
<1>5. ASSUME NEW a_id, NEW b_id, NEW a_amount, NEW b_amount,
             TradedNow(a_id, b_id, a_amount, b_amount)
      PROVE  Covers(orders'[j]) /\ NothingLeft(orders'[j])
  <2>1. CASE j = a_id
    <3>1. /\ is_buy(orders[j]) /\ SameTerms(orders[j], orders'[j])
          /\ orders'[j].status \in {STATUS_MATCH, STATUS_PARTIAL_MATCH}
          /\ orders'[j].status = STATUS_MATCH => orders'[j].lock_balance = 0
      BY <1>5, <2>1, TradedEffect DEF Advanced
    <3>2. ~is_sell(orders'[j])
      BY <3>1 DEF SameTerms, is_sell, is_buy, FLAG_BUY, FLAG_SELL
    <3>3. Finished(orders'[j]) => orders'[j].status = STATUS_MATCH
      BY <3>1 DEF Finished, STATUS_MATCH, STATUS_PARTIAL_MATCH, STATUS_CANCEL
    <3> QED
      BY <3>1, <3>2, <3>3 DEF Covers, NothingLeft
  <2>2. CASE j = b_id
    <3>1. /\ orders[j] \in OrderType /\ j \in DOMAIN orders
          /\ a_amount \in Nat /\ b_amount \in Nat
          /\ is_sell(orders[j]) /\ is_live(orders[j])
          /\ b_amount <= orders[j].lock_balance
          /\ Advanced(orders[j], orders'[j],
                      DealAmount(orders[j], a_amount, b_amount))
          /\ orders'[j].lock_balance = orders[j].lock_balance - b_amount
      BY <1>5, <2>2, TradedEffect
    <3> QED
      BY <1>1, <3>1, SellerIsCovered
  <2>3. CASE j # a_id /\ j # b_id
    BY <1>1, <1>5, <2>3, TradedEffect
  <2> QED
    BY <2>1, <2>2, <2>3
<1> QED
  BY <1>2, <1>3, <1>4, <1>5 DEF BooksStep

\* A matched or cancelled order keeps nothing locked, apart from market sells
\* that were sized in what they receive.
THEOREM NothingStrandedCorrect == Spec => []NothingStranded
<1>1. Init => SellsAreCovered /\ NothingStranded
  BY DEF Init, SellsAreCovered, NothingStranded
<1>2. TypeOK /\ TypeOK' /\ SellsAreCovered /\ NothingStranded /\ [Next]_vars
        => SellsAreCovered' /\ NothingStranded'
  BY EveryStep, StrandedKept
<1> QED
  BY <1>1, <1>2, TypeCorrect, PTL DEF Spec

-----------------------------------------------------------------------------
(* Available balances.                                                     *)

OnlySignerPays ==
  \A p \in Pids, t \in TokenIdxs :
    balance'[p][t] < balance[p][t] => nonce'[p] = nonce[p] + 1

LEMMA SignerPays ==
  ASSUME TypeOK, TypeOK', NEW pid \in Pids, Commit(pid),
         \A p \in Pids \ {pid}, t \in TokenIdxs : balance'[p][t] >= balance[p][t]
  PROVE  OnlySignerPays
<1>1. nonce'[pid] = nonce[pid] + 1
  BY DEF Commit, TypeOK, AccountsType
<1>2. \A p \in Pids, t \in TokenIdxs :
        balance[p][t] \in Int /\ balance'[p][t] \in Int
  BY WidthAssumption DEF TypeOK, AccountsType, U64
<1> QED
  BY <1>1, <1>2 DEF OnlySignerPays

LEMMA NobodyPays ==
  ASSUME TypeOK, TypeOK',
         \A p \in Pids, t \in TokenIdxs : balance'[p][t] >= balance[p][t]
  PROVE  OnlySignerPays
<1>1. \A p \in Pids, t \in TokenIdxs :
        balance[p][t] \in Int /\ balance'[p][t] \in Int
  BY WidthAssumption DEF TypeOK, AccountsType, U64
<1> QED
  BY <1>1 DEF OnlySignerPays

LEMMA BalancesKept ==
  ASSUME TypeOK, TypeOK', balance' = balance PROVE OnlySignerPays
<1>1. \A p \in Pids, t \in TokenIdxs : balance'[p][t] >= balance[p][t]
  BY PositionsOfTypeOK
<1> QED
  BY <1>1, NobodyPays

LEMMA DepositPays ==
  ASSUME TypeOK, TypeOK', NEW signer \in Pids, NEW pid \in Pids,
         NEW idx \in TokenIdxs, NEW amount \in MoveAmounts,
         Deposit(signer, pid, idx, amount)
  PROVE  OnlySignerPays
<1>1. amount \in Nat /\ balance' = Plus(balance, pid, idx, amount)
  BY MoveAmountsAreNat DEF Deposit
<1>2. \A p \in Pids, t \in TokenIdxs : balance'[p][t] >= balance[p][t]
  BY <1>1, PositionsOfTypeOK DEF Plus
<1> QED
  BY <1>2, NobodyPays

LEMMA TransferPays ==
  ASSUME TypeOK, TypeOK', NEW signer \in Pids, NEW pid \in Pids,
         NEW idx \in TokenIdxs, NEW amount \in MoveAmounts,
         Transfer(signer, pid, idx, amount)
  PROVE  OnlySignerPays
<1>1. /\ amount \in Nat /\ Commit(signer)
      /\ balance' = Plus(Minus(balance, signer, idx, amount), pid, idx, amount)
  BY MoveAmountsAreNat DEF Transfer
<1>2. \A p \in Pids \ {signer}, t \in TokenIdxs :
        balance'[p][t] >= balance[p][t]
  BY <1>1, PositionsOfTypeOK DEF Plus, Minus
<1> QED
  BY <1>1, <1>2, SignerPays

LEMMA WithdrawPays ==
  ASSUME TypeOK, TypeOK', NEW pid \in Pids, NEW idx \in TokenIdxs,
         NEW amount \in MoveAmounts, Withdraw(pid, idx, amount)
  PROVE  OnlySignerPays
<1>1. Commit(pid) /\ balance' = Minus(balance, pid, idx, amount)
  BY DEF Withdraw
<1>2. \A p \in Pids \ {pid}, t \in TokenIdxs : balance'[p][t] >= balance[p][t]
  BY <1>1, PositionsOfTypeOK DEF Minus
<1> QED
  BY <1>1, <1>2, SignerPays

LEMMA PlacingPays ==
  ASSUME TypeOK, TypeOK', NEW pid \in Pids, NEW t, NEW cost, NEW order,
         PlaceOrder(pid, t, cost, order)
  PROVE  OnlySignerPays
<1>1. /\ Commit(pid)
      /\ balance' = Minus(Minus(balance, pid, t, cost), pid, FeeToken, Fee)
  BY DEF PlaceOrder
<1>2. \A p \in Pids \ {pid}, u \in TokenIdxs : balance'[p][u] >= balance[p][u]
  BY <1>1, PositionsOfTypeOK DEF Minus
<1> QED
  BY <1>1, <1>2, SignerPays

LEMMA CancellingPays ==
  ASSUME TypeOK, TypeOK', NEW pid \in Pids, NEW order_id, CancelOrder(pid, order_id)
  PROVE  OnlySignerPays
<1> DEFINE o == orders[order_id]
<1>1. /\ Commit(pid) /\ o.pid = pid
      /\ balance' = Plus(Plus(balance, o.pid, OrderToken(o), o.lock_balance),
                         o.pid, FeeToken, o.lock_fee)
  BY DEF CancelOrder, Unlocked
<1>2. \A p \in Pids \ {pid}, u \in TokenIdxs : balance'[p][u] >= balance[p][u]
  BY <1>1, PositionsOfTypeOK DEF Plus
<1> QED
  BY <1>1, <1>2, SignerPays

LEMMA TradePays ==
  ASSUME TypeOK, TypeOK', LockAccounting, NEW signer \in Pids,
         NEW a_id, NEW b_id,
         NEW a_amount \in TradeAmounts, NEW b_amount \in TradeAmounts,
         AddTrade(signer, a_id, b_id, a_amount, b_amount)
  PROVE  OnlySignerPays
<1> DEFINE a == orders[a_id]
           b == orders[b_id]
           m == markets[a.market_id]
           r == Refund(Executed(a, a_amount, a_amount, b_amount))
<1>1. /\ a_amount \in U64 /\ b_amount \in U64
      /\ a_amount \in Nat /\ b_amount \in Nat
  BY InputAssumption, MoveAmountsAreNat
<1>2. /\ a_id \in DOMAIN orders /\ b_id \in DOMAIN orders
      /\ CanTrade(a, b, a_amount, b_amount)
      /\ balance' = TradeBalances(a, b, m, a_amount, b_amount)
  BY DEF AddTrade
<1>3. /\ a.pid \in Pids /\ b.pid \in Pids /\ a.pid # b.pid
      /\ m.token_a \in TokenIdxs /\ m.token_b \in TokenIdxs
  BY <1>1, <1>2, CanTradeFacts
<1>4. r \in Nat
  BY LocksAfterTrade
<1>5. ASSUME NEW p \in Pids, NEW t \in TokenIdxs
      PROVE  balance'[p][t] >= balance[p][t]
  <2>1. r \in Nat /\ r = Refund(Executed(a, a_amount, a_amount, b_amount))
    BY <1>4
  <2> HIDE DEF a, b, m, r
  <2>2. TradeBalances(a, b, m, a_amount, b_amount)[p][t] =
          BalanceAfterTrade(a, b, m, a_amount, b_amount, r, p, t)
    BY <1>1, <1>3, <2>1, BalancesAfterTrade
  <2>3. /\ Debit(t, m.token_b, b_amount) \in Nat
        /\ Debit(t, m.token_a, r) \in Nat
        /\ Debit(t, m.token_a, a_amount) \in Nat
        /\ balance[p][t] \in Nat
    BY <1>1, <1>4, PositionsOfTypeOK DEF Debit
  <2>4. TradeBalances(a, b, m, a_amount, b_amount)[p][t] >= balance[p][t]
    BY <2>2, <2>3 DEF BalanceAfterTrade
  <2> QED
    BY <1>2, <2>4
<1> QED
  BY <1>5, NobodyPays

LEMMA NextPays ==
  TypeOK /\ TypeOK' /\ LockAccounting /\ [Next]_vars => OnlySignerPays
<1> SUFFICES ASSUME TypeOK, TypeOK', LockAccounting, [Next]_vars
             PROVE  OnlySignerPays
  OBVIOUS
<1>1. CASE \/ \E pid \in Pids : RegisterPlayer(pid)
           \/ \E pid \in Pids, idx \in TokenIdxs, address \in Addresses :
                AddToken(pid, idx, address) \/ UpdateToken(pid, idx, address)
           \/ \E pid \in Pids, token_a, token_b \in TokenIdxs, price \in Prices :
                AddMarket(pid, token_a, token_b, price)
           \/ \E pid \in Pids, market_id \in 1 .. MaxMarkets :
                CloseMarket(pid, market_id)
           \/ FlushSettlement
           \/ UNCHANGED vars
  BY <1>1, BalancesKept
  DEF RegisterPlayer, AddToken, UpdateToken, StoreToken, AddMarket,
      CloseMarket, FlushSettlement, accounts, vars
<1>2. CASE \E signer, pid \in Pids, idx \in TokenIdxs, amount \in MoveAmounts :
             \/ Deposit(signer, pid, idx, amount)
             \/ Transfer(signer, pid, idx, amount)
  BY <1>2, DepositPays, TransferPays
<1>3. CASE \E pid \in Pids, idx \in TokenIdxs, amount \in MoveAmounts :
             Withdraw(pid, idx, amount)
  BY <1>3, WithdrawPays
<1>4. CASE \E pid \in Pids, market_id \in 1 .. MaxMarkets, flag \in Flags :
             \/ \E price \in Prices, amount \in LimitAmounts :
                  AddLimitOrder(pid, market_id, flag, price, amount)
             \/ \E b_amount, a_amount \in MarketAmounts :
                  AddMarketOrder(pid, market_id, flag, b_amount, a_amount)
  BY <1>4, PlacingPays DEF AddLimitOrder, AddMarketOrder
<1>5. CASE \E pid \in Pids, order_id \in 1 .. MaxOrders :
             CancelOrder(pid, order_id)
  BY <1>5, CancellingPays
<1>6. CASE \E signer \in Pids, a_id, b_id \in 1 .. MaxOrders,
              a_amount, b_amount \in TradeAmounts :
             AddTrade(signer, a_id, b_id, a_amount, b_amount)
  BY <1>6, TradePays
<1> QED
  BY <1>1, <1>2, <1>3, <1>4, <1>5, <1>6 DEF Next

\* A player's available balance of any token falls only in a transaction that
\* he has signed: trades, which the admin signs, pay from locks only.
THEOREM AvailableNeedsSignatureCorrect == Spec => AvailableNeedsSignature
<1>1. TypeOK /\ TypeOK' /\ LockAccounting /\ [Next]_vars
        => [\A p \in Pids, t \in TokenIdxs :
              balance'[p][t] < balance[p][t] => nonce'[p] = nonce[p] + 1]_vars
  BY NextPays DEF OnlySignerPays
<1> QED
  BY <1>1, TypeCorrect, LocksCorrect, PTL DEF Spec, AvailableNeedsSignature

-----------------------------------------------------------------------------
(* The owners of orders are registered.                                    *)

OwnersKnown == \A i \in DOMAIN orders : orders[i].pid \in registered

LEMMA OwnersFrame ==
  ASSUME OwnersKnown, orders' = orders, registered \subseteq registered'
  PROVE  OwnersKnown'
BY DEF OwnersKnown

LEMMA OwnersPlaced ==
  ASSUME TypeOK, OwnersKnown, NEW order, order.pid \in registered,
         orders' = Append(orders, order), registered' = registered
  PROVE  OwnersKnown'
<1>1. orders \in Seq(OrderType)
  BY DEF TypeOK
<1>2. /\ DOMAIN orders' = 1 .. Len(orders) + 1 /\ DOMAIN orders = 1 .. Len(orders)
      /\ \A i \in DOMAIN orders : orders'[i] = orders[i]
      /\ orders'[Len(orders) + 1] = order
      /\ Len(orders) \in Nat
  BY <1>1, AppendProperties, LenProperties
<1>3. \A i \in DOMAIN orders' : i \in DOMAIN orders \/ i = Len(orders) + 1
  BY <1>2
<1> QED
  BY <1>2, <1>3 DEF OwnersKnown

LEMMA OwnersCancelled ==
  ASSUME TypeOK, OwnersKnown, NEW pid, NEW order_id, CancelOrder(pid, order_id)
  PROVE  OwnersKnown'
<1>1. /\ order_id \in DOMAIN orders /\ registered' = registered
      /\ orders' = [orders EXCEPT ![order_id] = Cancelled(orders[order_id])]
  BY DEF CancelOrder
<1>2. Cancelled(orders[order_id]).pid = orders[order_id].pid
  <2>1. orders[order_id] \in OrderType
    BY <1>1, OrderAt
  <2> QED
    BY <2>1 DEF Cancelled, OrderType
<1> QED
  BY <1>1, <1>2 DEF OwnersKnown

LEMMA OwnersTraded ==
  ASSUME TypeOK, TypeOK', OwnersKnown, NEW signer \in Pids,
         NEW a_id, NEW b_id,
         NEW a_amount \in TradeAmounts, NEW b_amount \in TradeAmounts,
         AddTrade(signer, a_id, b_id, a_amount, b_amount)
  PROVE  OwnersKnown'
<1> DEFINE a == orders[a_id]
           b == orders[b_id]
           ea == Executed(a, a_amount, a_amount, b_amount)
           eb == Executed(b, b_amount, a_amount, b_amount)
<1>1. a_amount \in U64 /\ b_amount \in U64
  BY InputAssumption
<1>2. /\ a_id \in DOMAIN orders /\ b_id \in DOMAIN orders
      /\ CanTrade(a, b, a_amount, b_amount) /\ registered' = registered
  BY DEF AddTrade
<1>3. /\ orders'[a_id] = Released(ea) /\ orders'[b_id] = eb
      /\ Len(orders') = Len(orders)
      /\ \A i \in DOMAIN orders :
           i # a_id /\ i # b_id => orders'[i] = orders[i]
  BY TradedOrders
<1>4. /\ a \in OrderType /\ b \in OrderType
      /\ a.lock_balance >= a_amount /\ b.lock_balance >= b_amount
  BY <1>1, <1>2, CanTradeFacts
<1>5. a.pid \in registered /\ b.pid \in registered
  BY <1>2 DEF OwnersKnown
<1> HIDE DEF a, b
<1>6. ea \in OrderType /\ ea.pid = a.pid /\ eb.pid = b.pid
  BY <1>1, <1>4, ExecutedType
<1> HIDE DEF ea, eb
<1>7. Released(ea).pid = a.pid
  BY <1>6 DEF Released, OrderType
<1>8. DOMAIN orders' = DOMAIN orders
  BY <1>3, LenProperties DEF TypeOK
<1> QED
  BY <1>2, <1>3, <1>5, <1>6, <1>7, <1>8 DEF OwnersKnown

LEMMA OwnersKept == TypeOK /\ TypeOK' /\ OwnersKnown /\ [Next]_vars => OwnersKnown'
<1> SUFFICES ASSUME TypeOK, TypeOK', OwnersKnown, [Next]_vars
             PROVE  OwnersKnown'
  OBVIOUS
<1>1. CASE \/ \E pid \in Pids : RegisterPlayer(pid)
           \/ \E pid \in Pids, idx \in TokenIdxs, address \in Addresses :
                AddToken(pid, idx, address) \/ UpdateToken(pid, idx, address)
           \/ \E pid \in Pids, token_a, token_b \in TokenIdxs, price \in Prices :
                AddMarket(pid, token_a, token_b, price)
           \/ \E pid \in Pids, market_id \in 1 .. MaxMarkets :
                CloseMarket(pid, market_id)
           \/ \E pid \in Pids, idx \in TokenIdxs, amount \in MoveAmounts :
                Withdraw(pid, idx, amount)
           \/ FlushSettlement
           \/ UNCHANGED vars
  BY <1>1, OwnersFrame
  DEF RegisterPlayer, AddToken, UpdateToken, StoreToken, AddMarket, Withdraw,
      CloseMarket, FlushSettlement, accounts, vars
<1>2. CASE \E signer, pid \in Pids, idx \in TokenIdxs, amount \in MoveAmounts :
             \/ Deposit(signer, pid, idx, amount)
             \/ Transfer(signer, pid, idx, amount)
  BY <1>2, OwnersFrame DEF Deposit, Transfer
<1>3. ASSUME NEW pid \in Pids, NEW market_id, NEW flag, NEW price, NEW amount,
             AddLimitOrder(pid, market_id, flag, price, amount)
      PROVE  OwnersKnown'
  BY <1>3, OwnersPlaced DEF AddLimitOrder, CheckNonce, PlaceOrder, NewOrder
<1>4. ASSUME NEW pid \in Pids, NEW market_id, NEW flag, NEW b_amount,
             NEW a_amount,
             AddMarketOrder(pid, market_id, flag, b_amount, a_amount)
      PROVE  OwnersKnown'
  BY <1>4, OwnersPlaced DEF AddMarketOrder, CheckNonce, PlaceOrder, NewOrder
<1>5. CASE \E pid \in Pids, market_id \in 1 .. MaxMarkets, flag \in Flags :
             \/ \E price \in Prices, amount \in LimitAmounts :
                  AddLimitOrder(pid, market_id, flag, price, amount)
             \/ \E b_amount, a_amount \in MarketAmounts :
                  AddMarketOrder(pid, market_id, flag, b_amount, a_amount)
  BY <1>3, <1>4, <1>5
<1>6. CASE \E pid \in Pids, order_id \in 1 .. MaxOrders :
             CancelOrder(pid, order_id)
  BY <1>6, OwnersCancelled
<1>7. CASE \E signer \in Pids, a_id, b_id \in 1 .. MaxOrders,
              a_amount, b_amount \in TradeAmounts :
             AddTrade(signer, a_id, b_id, a_amount, b_amount)
  BY <1>7, OwnersTraded
<1> QED
  BY <1>1, <1>2, <1>5, <1>6, <1>7 DEF Next

-----------------------------------------------------------------------------
(* What is locked can be taken back.                                       *)

\* What one player holds fits u64 when the supply does.
LEMMA HoldingFits ==
  ASSUME BankInv, SupplyBounded, MaxSupply <= MaxU64, CarefulTrades,
         NEW p \in Pids, NEW t \in TokenIdxs
  PROVE  HeldBy(p, t) <= MaxU64
<1> DEFINE g == [w \in Pids |-> balance[w][t] + lock_balance[w][t]]
<1>1. TypeOK
  BY DEF BankInv
<1>2. NumPids \in Nat /\ p \in 1 .. NumPids
  BY PidsAssumption DEF Pids
<1>3. (\A w \in 1 .. NumPids : g[w] \in Nat) /\ g[p] = HeldBy(p, t)
  BY <1>1, PositionsOfTypeOK DEF Pids, HeldBy
<1>4. Accounted(t) = SumTo(g, NumPids) + FeesHeld(t) + withdrawn[t]
  BY DEF Accounted, Held
<1> HIDE DEF g
<1>5. g[p] <= SumTo(g, NumPids) /\ SumTo(g, NumPids) \in Nat
  BY <1>2, <1>3, SumToTerm, SumToNat
<1>6. Accounted(t) <= deposited[t]
  BY <1>1, AccountedIsTotal DEF BankInv, BP!Sound
<1>7. FeesHeld(t) \in Nat /\ withdrawn[t] \in Nat /\ deposited[t] \in Nat
  BY <1>1, WidthAssumption DEF FeesHeld, TypeOK, CountersType, SettlementType, U64
<1>8. deposited[t] <= MaxSupply /\ MaxSupply \in Nat /\ MaxU64 \in Nat
  BY WidthAssumption DEF SupplyBounded
<1>9. g[p] \in Nat
  BY <1>2, <1>3
<1> QED
  BY <1>3, <1>4, <1>5, <1>6, <1>7, <1>8, <1>9

LEMMA LiveCanUnlock ==
  ASSUME BankInv, SupplyBounded, MaxSupply <= MaxU64, CarefulTrades,
         NEW i \in DOMAIN orders, is_live(orders[i]), Careful(orders[i].pid)
  PROVE  CanUnlock(orders[i])
<1> DEFINE o == orders[i]
           u == OrderToken(o)
           x == o.lock_balance
           fee == o.lock_fee
<1>1. TypeOK /\ LockAccounting
  BY DEF BankInv
<1>2. /\ o.pid \in Pids /\ u \in TokenIdxs /\ FeeToken \in TokenIdxs
      /\ x \in Nat /\ fee \in Nat
  BY <1>1, OrderAt, TokenAssumption, WidthAssumption DEF OrderType, U64
<1>3. \A t \in TokenIdxs :
        Debit(t, u, x) + Debit(t, FeeToken, fee) <= lock_balance[o.pid][t]
  BY <1>1, ShareIsLocked
<1>4. \A t \in TokenIdxs :
        balance[o.pid][t] + lock_balance[o.pid][t] <= MaxU64
  BY <1>2, HoldingFits DEF HeldBy
<1>5. Unlocked(o).balance[o.pid][FeeToken] =
        balance[o.pid][FeeToken] + Debit(FeeToken, u, x) + fee
  <2>1. Unlocked(o).balance = Plus(Plus(balance, o.pid, u, x), o.pid, FeeToken, fee)
    BY DEF Unlocked
  <2> HIDE DEF o, u, x, fee
  <2> QED
    BY <1>1, <1>2, <2>1, PositionsOfTypeOK DEF Plus, Debit
<1>6. Unlocked(o).lock[o.pid][FeeToken] =
        lock_balance[o.pid][FeeToken] - Debit(FeeToken, u, x) - fee
  <2>1. Unlocked(o).lock =
          Minus(Minus(lock_balance, o.pid, u, x), o.pid, FeeToken, fee)
    BY DEF Unlocked
  <2> HIDE DEF o, u, x, fee
  <2> QED
    BY <1>1, <1>2, <2>1, PositionsOfTypeOK DEF Minus, Debit
<1>7. CanUnlock(o) <=>
        /\ balance[o.pid][u] + x <= MaxU64
        /\ lock_balance[o.pid][u] >= x
        /\ Unlocked(o).balance[o.pid][FeeToken] <= MaxU64
        /\ Unlocked(o).lock[o.pid][FeeToken] >= 0
  BY DEF CanUnlock, CanCredit
<1> HIDE DEF o, u, x, fee
<1>8. \A t \in TokenIdxs :
        balance[o.pid][t] \in Nat /\ lock_balance[o.pid][t] \in Nat
  BY <1>1, <1>2, PositionsOfTypeOK
<1>9. MaxU64 \in Nat
  BY WidthAssumption
<1>10. x + Debit(u, FeeToken, fee) <= lock_balance[o.pid][u]
  BY <1>2, <1>3 DEF Debit
<1>11. Debit(FeeToken, u, x) + fee <= lock_balance[o.pid][FeeToken]
  BY <1>2, <1>3 DEF Debit
<1>12. Debit(u, FeeToken, fee) \in Nat /\ Debit(FeeToken, u, x) \in Nat
  BY <1>2 DEF Debit
<1>13. lock_balance[o.pid][u] >= x /\ balance[o.pid][u] + x <= MaxU64
  BY <1>2, <1>4, <1>8, <1>9, <1>10, <1>12
<1>14. /\ Unlocked(o).balance[o.pid][FeeToken] <= MaxU64
       /\ Unlocked(o).lock[o.pid][FeeToken] >= 0
  BY <1>2, <1>4, <1>5, <1>6, <1>8, <1>9, <1>11, <1>12
<1> QED
  BY <1>7, <1>13, <1>14 DEF o

\* While the supply of a token fits u64 and only careful players trade, a careful
\* owner of a live order can always take back what it locks: cancelling it is
\* never refused for an amount.
THEOREM CancelNeverFailsCorrect == Spec => []CancelNeverFails
<1>1. Init => SupplyBounded /\ OwnersKnown
  BY WidthAssumption DEF Init, SupplyBounded, OwnersKnown
<1>2. TypeOK /\ SupplyBounded /\ [Next]_vars => SupplyBounded'
  BY SupplyKept
<1>3. TypeOK /\ TypeOK' /\ OwnersKnown /\ [Next]_vars => OwnersKnown'
  BY OwnersKept
<1>4. BankInv /\ SupplyBounded /\ OwnersKnown => CancelNeverFails
  BY LiveCanUnlock DEF OwnersKnown, CancelNeverFails
<1> QED
  BY <1>1, <1>2, <1>3, <1>4, TypeCorrect, BankInvariant, PTL DEF Spec

-----------------------------------------------------------------------------
(* What is paid out, and is still to be paid, was withdrawn.               *)

PayoutCovered ==
  \A t \in TokenIdxs :
    Precision * (paid[t] + PendingPayout(t)) <= withdrawn[t]

LEMMA PayoutFrame ==
  UNCHANGED <<paid, settlement, withdrawn>> /\ PayoutCovered => PayoutCovered'
BY DEF PayoutCovered, PendingPayout

\* Rounding down pays no more than was withdrawn.
LEMMA PayoutAtMost ==
  ASSUME NEW n \in Nat
  PROVE  PayoutOf(n) \in Nat /\ Precision * PayoutOf(n) <= n
<1>1. Precision \in Nat \ {0}
  BY ConfigAssumption
<1>2. ASSUME NEW d \in Nat \ {0} PROVE n \div d \in Nat /\ d * (n \div d) <= n
  OBVIOUS
<1> QED
  BY <1>1, <1>2 DEF PayoutOf

\* A withdrawal adds its payout to what its token has to pay.
LEMMA PendingAppended ==
  ASSUME TypeOK, NEW idx \in TokenIdxs, NEW n \in Nat, NEW t \in TokenIdxs,
         settlement' = Append(settlement, [token_idx |-> idx, amount |-> n])
  PROVE  PendingPayout(t)' = PendingPayout(t) + (IF idx = t THEN n ELSE 0)
<1> DEFINE k == Len(settlement)
           w == [token_idx |-> idx, amount |-> n]
           f == [i \in DOMAIN settlement |->
                   IF settlement[i].token_idx = t
                   THEN settlement[i].amount ELSE 0]
           g == [i \in DOMAIN settlement' |->
                   IF settlement'[i].token_idx = t
                   THEN settlement'[i].amount ELSE 0]
<1>1. settlement \in Seq([token_idx : TokenIdxs, amount : U64])
  BY DEF TypeOK, SettlementType
<1>2. /\ k \in Nat /\ DOMAIN settlement = 1 .. k
      /\ DOMAIN settlement' = 1 .. k + 1 /\ Len(settlement') = k + 1
      /\ \A i \in 1 .. k : settlement'[i] = settlement[i]
      /\ settlement'[k + 1] = w
  BY <1>1, AppendProperties, LenProperties
<1>3. \A i \in 1 .. k : f[i] = g[i]
  BY <1>2
<1>4. g[k + 1] = IF idx = t THEN n ELSE 0
  BY <1>2
<1>5. PendingPayout(t) = SumTo(f, k) /\ PendingPayout(t)' = SumTo(g, k + 1)
  BY <1>2 DEF PendingPayout
<1> HIDE DEF f, g, k
<1>6. SumTo(g, k + 1) = SumTo(f, k) + g[k + 1]
  BY <1>2, <1>3, SumToAppend
<1> QED
  BY <1>4, <1>5, <1>6

LEMMA PayoutWithdrawn ==
  ASSUME TypeOK, PayoutCovered, NEW pid \in Pids, NEW idx \in TokenIdxs,
         NEW amount \in MoveAmounts, Withdraw(pid, idx, amount)
  PROVE  PayoutCovered'
<1> SUFFICES ASSUME NEW t \in TokenIdxs
             PROVE  Precision * (paid'[t] + PendingPayout(t)') <= withdrawn'[t]
  BY DEF PayoutCovered
<1> DEFINE n == PayoutOf(amount)
           due == paid[t] + PendingPayout(t)
<1>1. /\ amount \in Nat /\ paid' = paid
      /\ settlement' = Append(settlement, [token_idx |-> idx, amount |-> n])
      /\ withdrawn' = [withdrawn EXCEPT ![idx] = @ + amount]
  BY MoveAmountsAreNat DEF Withdraw
<1>2. n \in Nat /\ Precision * n <= amount
  BY <1>1, PayoutAtMost
<1>3. PendingPayout(t)' = PendingPayout(t) + (IF idx = t THEN n ELSE 0)
  BY <1>1, <1>2, PendingAppended
<1>4. /\ paid[t] \in Nat /\ withdrawn \in [TokenIdxs -> Nat]
      /\ PendingPayout(t) \in Nat
  BY PendingPayoutType DEF TypeOK, SettlementType
<1>5. Precision \in Nat /\ Precision * due <= withdrawn[t]
  BY ConfigAssumption DEF PayoutCovered
<1>6. withdrawn'[t] = withdrawn[t] + (IF idx = t THEN amount ELSE 0)
  BY <1>1, <1>4
<1>7. paid'[t] + PendingPayout(t)' = due + (IF idx = t THEN n ELSE 0)
  BY <1>1, <1>2, <1>3, <1>4
<1>8. due \in Nat /\ withdrawn[t] \in Nat
  BY <1>4
<1> HIDE DEF n, due
<1>9. Precision * (due + n) = Precision * due + Precision * n
  BY <1>2, <1>5, <1>8
<1>10. CASE idx = t
  <2>1. Precision * due \in Nat /\ Precision * n \in Nat
    BY <1>2, <1>5, <1>8
  <2> QED
    BY <1>1, <1>2, <1>5, <1>6, <1>7, <1>8, <1>9, <1>10, <2>1
<1>11. CASE idx # t
  BY <1>5, <1>6, <1>7, <1>8, <1>11
<1> QED
  BY <1>10, <1>11

\* A flush turns what is to be paid into what was paid.
LEMMA PayoutFlushed ==
  ASSUME TypeOK, PayoutCovered, FlushSettlement PROVE PayoutCovered'
<1> SUFFICES ASSUME NEW t \in TokenIdxs
             PROVE  Precision * (paid'[t] + PendingPayout(t)') <= withdrawn'[t]
  BY DEF PayoutCovered
<1>1. /\ paid'[t] = paid[t] + PendingPayout(t)
      /\ settlement' = <<>> /\ withdrawn' = withdrawn
  BY DEF FlushSettlement
<1>2. PendingPayout(t)' = 0
  <2> DEFINE g == [i \in DOMAIN settlement' |->
                     IF settlement'[i].token_idx = t
                     THEN settlement'[i].amount ELSE 0]
  <2>1. PendingPayout(t)' = SumTo(g, 0)
    BY <1>1 DEF PendingPayout
  <2> HIDE DEF g
  <2> QED
    BY <2>1, SumToEquations
<1>3. paid[t] \in Nat /\ PendingPayout(t) \in Nat
  BY PendingPayoutType DEF TypeOK, SettlementType
<1>4. paid'[t] + PendingPayout(t)' = paid[t] + PendingPayout(t)
  BY <1>1, <1>2, <1>3
<1> QED
  BY <1>1, <1>4 DEF PayoutCovered

LEMMA PayoutKept == TypeOK /\ PayoutCovered /\ [Next]_vars => PayoutCovered'
<1> SUFFICES ASSUME TypeOK, PayoutCovered, [Next]_vars PROVE PayoutCovered'
  OBVIOUS
<1>1. CASE \/ \E pid \in Pids : RegisterPlayer(pid)
           \/ \E pid \in Pids, idx \in TokenIdxs, address \in Addresses :
                AddToken(pid, idx, address) \/ UpdateToken(pid, idx, address)
           \/ \E pid \in Pids, token_a, token_b \in TokenIdxs, price \in Prices :
                AddMarket(pid, token_a, token_b, price)
           \/ \E pid \in Pids, market_id \in 1 .. MaxMarkets :
                CloseMarket(pid, market_id)
           \/ UNCHANGED vars
  BY <1>1, PayoutFrame
  DEF RegisterPlayer, AddToken, UpdateToken, StoreToken, AddMarket,
      CloseMarket, history, vars
<1>2. CASE \E signer, pid \in Pids, idx \in TokenIdxs, amount \in MoveAmounts :
             \/ Deposit(signer, pid, idx, amount)
             \/ Transfer(signer, pid, idx, amount)
  BY <1>2, PayoutFrame DEF Deposit, Transfer, history
<1>3. CASE \E pid \in Pids, idx \in TokenIdxs, amount \in MoveAmounts :
             Withdraw(pid, idx, amount)
  BY <1>3, PayoutWithdrawn
<1>4. CASE FlushSettlement
  BY <1>4, PayoutFlushed
<1>5. CASE \E pid \in Pids, market_id \in 1 .. MaxMarkets, flag \in Flags :
             \/ \E price \in Prices, amount \in LimitAmounts :
                  AddLimitOrder(pid, market_id, flag, price, amount)
             \/ \E b_amount, a_amount \in MarketAmounts :
                  AddMarketOrder(pid, market_id, flag, b_amount, a_amount)
  BY <1>5, PayoutFrame DEF AddLimitOrder, AddMarketOrder, PlaceOrder, history
<1>6. CASE \E pid \in Pids, order_id \in 1 .. MaxOrders :
             CancelOrder(pid, order_id)
  BY <1>6, PayoutFrame DEF CancelOrder, history
<1>7. ASSUME NEW signer \in Pids, NEW a_id \in 1 .. MaxOrders,
             NEW b_id \in 1 .. MaxOrders, NEW a_amount \in TradeAmounts,
             NEW b_amount \in TradeAmounts,
             AddTrade(signer, a_id, b_id, a_amount, b_amount)
      PROVE  PayoutCovered'
  BY <1>7, PayoutFrame DEF AddTrade, history
<1>8. CASE \E signer \in Pids, a_id, b_id \in 1 .. MaxOrders,
              a_amount, b_amount \in TradeAmounts :
             AddTrade(signer, a_id, b_id, a_amount, b_amount)
  BY <1>7, <1>8
<1> QED
  BY <1>1, <1>2, <1>3, <1>4, <1>5, <1>6, <1>8 DEF Next

\* Whatever the supply, what deposits brought covers what was paid out, what is
\* to be paid, every balance and the fees, while only careful players trade.
THEOREM SolventCorrect == Spec => []Solvent
<1>1. Init => PayoutCovered
  <2> SUFFICES ASSUME Init, NEW t \in TokenIdxs
               PROVE  Precision * (paid[t] + PendingPayout(t)) <= withdrawn[t]
    BY DEF PayoutCovered
  <2>1. settlement = <<>> /\ paid[t] = 0 /\ withdrawn[t] = 0
    BY DEF Init
  <2>2. PendingPayout(t) = 0
    <3> DEFINE g == [i \in DOMAIN settlement |->
                       IF settlement[i].token_idx = t
                       THEN settlement[i].amount ELSE 0]
    <3>1. PendingPayout(t) = SumTo(g, 0)
      BY <2>1 DEF PendingPayout
    <3> HIDE DEF g
    <3> QED
      BY <3>1, SumToEquations
  <2> QED
    BY <2>1, <2>2, ConfigAssumption
<1>2. TypeOK /\ PayoutCovered /\ [Next]_vars => PayoutCovered'
  BY PayoutKept
<1>3. BankInv /\ NoMint /\ PayoutCovered => Solvent
  <2> SUFFICES ASSUME BankInv, NoMint, PayoutCovered, CarefulTrades,
                      NEW t \in TokenIdxs
               PROVE  Precision * (paid[t] + PendingPayout(t)) + Held(t)
                        + FeesHeld(t) <= deposited[t]
    BY DEF Solvent
  <2> DEFINE due == Precision * (paid[t] + PendingPayout(t))
  <2>1. TypeOK
    BY DEF BankInv
  <2>2. paid[t] \in Nat /\ PendingPayout(t) \in Nat /\ Precision \in Nat
    BY <2>1, PendingPayoutType, ConfigAssumption DEF TypeOK, SettlementType
  <2>3. due \in Int /\ due <= withdrawn[t]
    BY <2>2 DEF PayoutCovered
  <2>4. Held(t) + FeesHeld(t) + withdrawn[t] <= deposited[t]
    BY DEF NoMint, Accounted
  <2>5. /\ FeesHeld(t) \in Int /\ withdrawn[t] \in Int /\ deposited[t] \in Int
    BY <2>1, WidthAssumption
    DEF FeesHeld, TypeOK, CountersType, SettlementType, U64
  <2>6. Held(t) \in Int
    <3> DEFINE g == [p \in Pids |-> balance[p][t] + lock_balance[p][t]]
    <3>1. \A p \in 1 .. NumPids : g[p] \in Int
      BY <2>1, PositionsOfTypeOK DEF Pids
    <3>2. Held(t) = SumTo(g, NumPids)
      BY DEF Held
    <3> HIDE DEF g
    <3> QED
      BY <3>1, <3>2, SumToInt, PidsAssumption
  <2> HIDE DEF due
  <2> QED
    BY <2>3, <2>4, <2>5, <2>6 DEF due
<1> QED
  BY <1>1, <1>2, <1>3, TypeCorrect, BankInvariant, NoMintCorrect, PTL DEF Spec
=============================================================================
