----------------------------- MODULE OrderBook -----------------------------
(***************************************************************************)
(* One MatchingSystem of src/ts/src/matcher/matcher.ts as a record of its   *)
(* four lists, and its methods as operators on that record.                 *)
(*                                                                         *)
(* The scratch field shadow_already_deal_amount is left out: tryMatchOrder  *)
(* first resets it to already_deal_amount, and changes it only for the      *)
(* trade with which it returns.                                             *)
(***************************************************************************)
EXTENDS Integers, Sequences

CONSTANT Precision    \* PRICISION

TYPE_LIMIT == "limit"
TYPE_MARKET == "market"
STATUS_CANCEL == "cancel"
FLAG_SELL == 0
FLAG_BUY == 1

EmptyBook == [bids |-> <<>>, asks |-> <<>>,
              market_bids |-> <<>>, market_asks |-> <<>>]

NoTrade == [kind |-> "none"]
Thrown == [kind |-> "thrown"]     \* RangeError: division of a bigint by zero

isMarketOrder(o) == o.type_ = TYPE_MARKET
isLimitOrder(o) == o.type_ = TYPE_LIMIT
isCancel(o) == o.status = STATUS_CANCEL

\* An order has its size in token_b, but a market order may have it in token_a.
SizedInA(o) == isMarketOrder(o) /\ o.a_token_amount # 0
get_amount(o) == IF SizedInA(o) THEN o.a_token_amount ELSE o.b_token_amount
Left(o) == get_amount(o) - o.already_deal_amount

isLive(o) == Left(o) # 0 /\ ~isCancel(o)

-----------------------------------------------------------------------------
(* Keeping the lists.                                                      *)

BidBefore(o1, o2) ==
  \/ o1.price > o2.price
  \/ o1.price = o2.price /\ o1.id < o2.id
AskBefore(o1, o2) ==
  \/ o1.price < o2.price
  \/ o1.price = o2.price /\ o1.id < o2.id

\* The orders of one list are all bids or all asks.
Before(o1, o2) ==
  IF o1.flag = FLAG_BUY THEN BidBefore(o1, o2) ELSE AskBefore(o1, o2)

OnList(list) == {list[k] : k \in DOMAIN list}

\* The orders among the first n of a list that are in os, in their order; the
\* last of these is SelectSeq, as a recursive function that proofs can use.
KeptOfFirst(list, os) ==
  LET kept[n \in 0 .. Len(list)] ==
        IF n = 0 THEN <<>>
        ELSE IF list[n] \in os THEN Append(kept[n - 1], list[n])
        ELSE kept[n - 1]
  IN  kept

Kept(list, os) == KeptOfFirst(list, os)[Len(list)]

\* Mutant: the old version of the order stays.
Others_All(list, o) == list

Others(list, o) == Kept(list, {x \in OnList(list) : x.id # o.id})

\* Mutant: the list is not sorted again.
Sorted_Appended(list, o) == Append(Others(list, o), o)

\* The list is sorted before each upsert, so sorting it again puts o between
\* the orders before it and the others.
Sorted(list, o) ==
  LET others == Others(list, o)
      before == {x \in OnList(others) : Before(x, o)}
  IN  Append(Kept(others, before), o) \o Kept(others, OnList(others) \ before)

\* The lists of market orders are not sorted.
Replaced(list, o) ==
  IF \E k \in DOMAIN list : list[k].id = o.id
  THEN [k \in DOMAIN list |-> IF list[k].id = o.id THEN o ELSE list[k]]
  ELSE Append(list, o)

\* An order whose flag is neither buy nor sell is not kept.
upsertOrder(book, o) ==
  CASE isLimitOrder(o) /\ o.flag = FLAG_BUY ->
         [book EXCEPT !.bids = Sorted(@, o)]
    [] isLimitOrder(o) /\ o.flag = FLAG_SELL ->
         [book EXCEPT !.asks = Sorted(@, o)]
    [] isMarketOrder(o) /\ o.flag = FLAG_BUY ->
         [book EXCEPT !.market_bids = Replaced(@, o)]
    [] isMarketOrder(o) /\ o.flag = FLAG_SELL ->
         [book EXCEPT !.market_asks = Replaced(@, o)]
    [] OTHER -> book

\* What /data/pair shows of a book: the market bids twice, and no market asks.
queryInfo(book) ==
  [bids |-> book.bids, asks |-> book.asks,
   market_bids |-> book.market_bids, market_asks |-> book.market_bids]

removeMatchOrder(book) ==
  [list \in DOMAIN book |->
     Kept(book[list], {o \in OnList(book[list]) : isLive(o)})]

-----------------------------------------------------------------------------
(* Choosing the next trade.                                                *)

\* Two market orders never match; nor do limit orders whose prices do not meet.
PricesMeet(o1, o2) ==
  LET buy == IF o1.flag = FLAG_SELL THEN o2 ELSE o1
      sell == IF o1.flag = FLAG_SELL THEN o1 ELSE o2
  IN  IF isLimitOrder(buy) /\ isLimitOrder(sell)
      THEN buy.price >= sell.price
      ELSE isLimitOrder(buy) \/ isLimitOrder(sell)

\* Mutant: an owner's buy and sell orders match.
canMatch_OwnOrders(o1, o2) ==
  /\ Left(o1) # 0 /\ Left(o2) # 0
  /\ o1.flag # o2.flag
  /\ PricesMeet(o1, o2)

\* Both orders are of the market that the book is for.
canMatch(o1, o2) ==
  /\ Left(o1) # 0 /\ Left(o2) # 0
  /\ o1.flag # o2.flag
  /\ o1.pid # o2.pid
  /\ PricesMeet(o1, o2)

\* The price of a trade is the seller's, unless he has none.
MatchPrice(buy, sell) == IF isLimitOrder(sell) THEN sell.price ELSE buy.price

\* The quotient of two bigints is cut towards zero; what is left of an order
\* that trades have overfilled is negative.
Quotient(x, y) == IF x >= 0 THEN x \div y ELSE -((-x) \div y)

\* Mutant: divided before it is multiplied.
LeftInB_DividedFirst(o, price) ==
  IF SizedInA(o) THEN Quotient(Left(o), price) * Precision ELSE Left(o)

LeftInB(o, price) ==
  IF SizedInA(o) THEN Quotient(Left(o) * Precision, price) ELSE Left(o)

\* Mutant: the larger remainder is traded.
Smaller_Larger(x, y) == IF x > y THEN x ELSE y

Smaller(x, y) == IF x > y THEN y ELSE x

processMatch(buy, sell) ==
  LET price == MatchPrice(buy, sell)
      b_actual == Smaller(LeftInB(buy, price), LeftInB(sell, price))
  IN  IF price = 0 /\ (SizedInA(buy) \/ SizedInA(sell))
      THEN Thrown
      ELSE [kind |-> "trade", a_order_id |-> buy.id, b_order_id |-> sell.id,
            a_actual_amount |-> Quotient(b_actual * price, Precision),
            b_actual_amount |-> b_actual]

\* Mutant: the loop gives up at an equal price, too.
StopsAt_Equal(book, j) ==
  LET bid == book.bids[1]
      ask == book.asks[j]
  IN  canMatch(bid, ask) \/ bid.price <= ask.price

\* Where the loop of matchOrders ends: at an ask that the first bid matches or
\* does not reach.  It returns with the first trade, so the first bid is the
\* only one it tries.
StopsAt(book, j) ==
  LET bid == book.bids[1]
      ask == book.asks[j]
  IN  canMatch(bid, ask) \/ bid.price < ask.price

Stops(book) ==
  IF book.bids = <<>> THEN {}
  ELSE {j \in DOMAIN book.asks : StopsAt(book, j)}

FirstStop(book) == CHOOSE j \in Stops(book) : \A k \in Stops(book) : j <= k

matchOrders(book) ==
  IF /\ Stops(book) # {}
     /\ canMatch(book.bids[1], book.asks[FirstStop(book)])
  THEN processMatch(book.bids[1], book.asks[FirstStop(book)])
  ELSE NoTrade

\* The first pair, in the order of the nested loops, that canMatch accepts.
FirstPair(outer, inner) ==
  LET pairs == {p \in (DOMAIN outer) \X (DOMAIN inner) :
                  canMatch(outer[p[1]], inner[p[2]])}
  IN  IF pairs = {} THEN <<>>
      ELSE CHOOSE p \in pairs :
             \A q \in pairs : p[1] < q[1] \/ (p[1] = q[1] /\ p[2] <= q[2])

\* Limit orders among themselves, then market bids, then market asks.
NextTrade(book) ==
  LET limits == matchOrders(book)
      buys == FirstPair(book.market_bids, book.asks)
      sells == FirstPair(book.market_asks, book.bids)
  IN  CASE limits # NoTrade -> limits
        [] limits = NoTrade /\ buys # <<>> ->
             processMatch(book.market_bids[buys[1]], book.asks[buys[2]])
        [] limits = NoTrade /\ buys = <<>> /\ sells # <<>> ->
             processMatch(book.bids[sells[2]], book.market_asks[sells[1]])
        [] OTHER -> NoTrade

tryMatchOrder(book) ==
  LET cleaned == removeMatchOrder(book)
  IN  [book |-> cleaned, trade |-> NextTrade(cleaned)]
=============================================================================
