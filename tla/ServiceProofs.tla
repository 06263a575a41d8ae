---------------------------- MODULE ServiceProofs ----------------------------
(***************************************************************************)
(* The event and query service, for every value of its constants: the books *)
(* show stored orders in every state, after crashes and while a document is *)
(* written whose book is not, too; a start that does not throw restores     *)
(* every live order that is stored; and without a crash the mirror and the  *)
(* books are the application's when the callback has ended.                 *)
(*                                                                         *)
(* ServiceInv holds in every state; MirrorInv says what holds while nothing  *)
(* has crashed: what is stale has its event still waiting. FollowInv and     *)
(* AcceptInv add what holds when the admin reports what the service logs.    *)
(***************************************************************************)
EXTENDS Service, OrderProofs, FiniteSetTheorems

\* Service's books are those of OrderBook; of MatcherProofs only the lemmas
\* about lists, pairs and the amounts of a trade are used, which no parameter of
\* its state machine changes.
MP == INSTANCE MatcherProofs WITH
  Prices <- {}, LimitAmounts <- {}, MarketAmounts <- {}, MaxOrders <- 0,
  MaxOverfill <- 0, book <- 0, trade <- 0

-----------------------------------------------------------------------------
(* Lists and books.                                                        *)

\* What a book keeps of the orders of the application.
BookOrders ==
  [id : OrderIds, type_ : {TYPE_LIMIT, TYPE_MARKET},
   status : {STATUS_LIVE, STATUS_MATCH, STATUS_PARTIAL_MATCH, STATUS_CANCEL},
   pid : Pids, flag : 0 .. MaxU8, price : U64, b_token_amount : U64,
   a_token_amount : U64, already_deal_amount : U64]

Lists == {"bids", "asks", "market_bids", "market_asks"}

ListOf(o) ==
  IF o.type_ = TYPE_LIMIT
  THEN IF o.flag = FLAG_BUY THEN "bids" ELSE "asks"
  ELSE IF o.flag = FLAG_BUY THEN "market_bids" ELSE "market_asks"

\* Each list holds the orders that belong on it.
GoodBook(b) ==
  /\ b = [name \in Lists |-> b[name]]
  /\ \A name \in Lists :
       /\ b[name] \in Seq(BookOrders)
       /\ \A x \in OnList(b[name]) : HasSide(x) /\ ListOf(x) = name

LEMMA SameOnList == \A list : OB!OnList(list) = OnList(list)
BY DEF OB!OnList, OnList

LEMMA OnListIs ==
  ASSUME NEW T, NEW list \in Seq(T)
  PROVE  /\ OnList(list) = {list[k] : k \in 1 .. Len(list)}
         /\ OnList(list) \subseteq T /\ Len(list) \in Nat
BY DEF OnList

LEMMA SameKept == \A list, os : OB!Kept(list, os) = MP!Kept(list, os)
BY DEF OB!Kept, MP!Kept, OB!KeptOfFirst, MP!KeptOfFirst

LEMMA KeptOnList ==
  ASSUME NEW T, NEW list \in Seq(T), NEW os
  PROVE  /\ OB!Kept(list, os) \in Seq(T)
         /\ OnList(OB!Kept(list, os)) = OnList(list) \cap os
<1> DEFINE kept == OB!Kept(list, os)
<1>1. kept \in Seq(T) /\ MP!KeptInOrder(kept, list, os, Len(list))
  <2>1. kept = MP!Kept(list, os)
    BY SameKept
  <2>2. MP!MatcherAssumption
    BY ConfigAssumption DEF MP!MatcherAssumption
  <2> HIDE DEF kept
  <2>3. /\ MP!Kept(list, os) \in Seq(T)
        /\ MP!KeptInOrder(MP!Kept(list, os), list, os, Len(list))
    BY <2>2, MP!KeptProperties
  <2> QED
    BY <2>1, <2>3
<1>2. /\ \A k \in 1 .. Len(kept) :
           kept[k] \in os /\ \E j \in 1 .. Len(list) : kept[k] = list[j]
      /\ \A j \in 1 .. Len(list) :
           list[j] \in os => \E k \in 1 .. Len(kept) : kept[k] = list[j]
  BY <1>1 DEF MP!KeptInOrder
<1>3. /\ OnList(list) = {list[k] : k \in 1 .. Len(list)}
      /\ OnList(kept) = {kept[k] : k \in 1 .. Len(kept)}
  BY <1>1, OnListIs
<1> HIDE DEF kept
<1>4. OnList(kept) = OnList(list) \cap os
  BY <1>2, <1>3
<1> QED
  BY <1>1, <1>4 DEF kept

\* The new version of an order takes the place of the old one on its list.
NewOnList(old, new, o) ==
  /\ new \in Seq(BookOrders)
  /\ OnList(new) = {x \in OnList(old) : x.id # o.id} \cup {o}

LEMMA SortedOnList ==
  ASSUME NEW list \in Seq(BookOrders), NEW o \in BookOrders
  PROVE  NewOnList(list, OB!Sorted(list, o), o)
<1> DEFINE others == OB!Others(list, o)
           before == {x \in OnList(others) : OB!Before(x, o)}
           lo == OB!Kept(others, before)
           hi == OB!Kept(others, OnList(others) \ before)
           sorted == OB!Sorted(list, o)
<1>1. /\ others \in Seq(BookOrders)
      /\ OnList(others) = {x \in OnList(list) : x.id # o.id}
  <2> DEFINE os == {x \in OnList(list) : x.id # o.id}
  <2>1. others = OB!Kept(list, os)
    BY SameOnList DEF OB!Others
  <2> HIDE DEF os, others
  <2>2. others \in Seq(BookOrders) /\ OnList(others) = OnList(list) \cap os
    BY <2>1, KeptOnList
  <2> QED
    BY <2>2 DEF os
<1>2. sorted = Append(lo, o) \o hi
  BY SameOnList DEF OB!Sorted
<1> HIDE DEF others, sorted
<1>3. /\ lo \in Seq(BookOrders) /\ hi \in Seq(BookOrders)
      /\ OnList(lo) = OnList(others) \cap before
      /\ OnList(hi) = OnList(others) \cap (OnList(others) \ before)
  BY <1>1, KeptOnList
<1>4. OnList(lo) \cup OnList(hi) = OnList(others)
  BY <1>3
<1> HIDE DEF lo, hi
<1> DEFINE m == Len(lo)
           n == Len(hi)
<1>5. /\ m \in Nat /\ n \in Nat
      /\ OnList(lo) = {lo[k] : k \in 1 .. m}
      /\ OnList(hi) = {hi[k] : k \in 1 .. n}
  <2>1. m \in Nat /\ OnList(lo) = {lo[k] : k \in 1 .. m}
    BY <1>3, OnListIs
  <2>2. n \in Nat /\ OnList(hi) = {hi[k] : k \in 1 .. n}
    BY <1>3, OnListIs
  <2> QED
    BY <2>1, <2>2
<1>6. /\ sorted \in Seq(BookOrders) /\ Len(sorted) = m + 1 + n
      /\ \A k \in 1 .. m : sorted[k] = lo[k]
      /\ sorted[m + 1] = o
      /\ \A k \in 1 .. n : sorted[m + 1 + k] = hi[k]
  <2> DEFINE front == Append(lo, o)
  <2>1. /\ front \in Seq(BookOrders) /\ Len(front) = m + 1 /\ front[m + 1] = o
        /\ \A k \in 1 .. m : front[k] = lo[k]
    BY <1>3, <1>5
  <2> HIDE DEF front
  <2>2. sorted = front \o hi
    BY <1>2 DEF front
  <2>3. /\ sorted \in Seq(BookOrders) /\ Len(sorted) = m + 1 + n
        /\ \A k \in 1 .. m + 1 : sorted[k] = front[k]
        /\ \A k \in 1 .. n : sorted[m + 1 + k] = hi[k]
    <3>1. front \o hi \in Seq(BookOrders) /\ Len(front \o hi) = Len(front) + n
      BY <1>3, <2>1, ConcatProperties
    <3>2. \A k \in 1 .. Len(front) + n :
            (front \o hi)[k] = IF k <= Len(front) THEN front[k]
                               ELSE hi[k - Len(front)]
      BY <1>3, <2>1, ConcatProperties
    <3>3. \A k \in 1 .. n : /\ m + 1 + k \in 1 .. Len(front) + n
                             /\ ~ (m + 1 + k <= Len(front))
                             /\ (m + 1 + k) - Len(front) = k
      BY <1>5, <2>1
    <3> QED
      BY <1>5, <2>1, <2>2, <3>1, <3>2, <3>3
  <2> QED
    BY <1>5, <2>1, <2>3
<1>7. OnList(sorted) = {sorted[k] : k \in 1 .. Len(sorted)}
  BY <1>6, OnListIs
<1>8. OnList(sorted) = OnList(lo) \cup OnList(hi) \cup {o}
  <2>1. ASSUME NEW x \in OnList(sorted)
        PROVE  x \in OnList(lo) \cup OnList(hi) \cup {o}
    <3>1. PICK k \in 1 .. m + 1 + n : x = sorted[k]
      BY <1>6, <1>7, <2>1
    <3>2. CASE k \in 1 .. m
      BY <1>5, <1>6, <3>1, <3>2
    <3>3. CASE k = m + 1
      BY <1>6, <3>1, <3>3
    <3>4. CASE k > m + 1
      <4> DEFINE j == k - (m + 1)
      <4>1. j \in 1 .. n /\ m + 1 + j = k
        BY <1>5, <3>1, <3>4
      <4> HIDE DEF j
      <4> QED
        BY <1>5, <1>6, <3>1, <4>1
    <3> QED
      BY <1>5, <3>1, <3>2, <3>3, <3>4
  <2>2. o \in OnList(sorted)
    <3>1. m + 1 \in 1 .. Len(sorted)
      BY <1>5, <1>6
    <3> QED
      BY <1>6, <1>7, <3>1
  <2>3. ASSUME NEW x \in OnList(lo) PROVE x \in OnList(sorted)
    <3>1. PICK k \in 1 .. m : x = lo[k]
      BY <1>5
    <3>2. k \in 1 .. Len(sorted) /\ sorted[k] = x
      BY <1>5, <1>6, <3>1
    <3> QED
      BY <1>7, <3>2
  <2>4. ASSUME NEW x \in OnList(hi) PROVE x \in OnList(sorted)
    <3>1. PICK k \in 1 .. n : x = hi[k]
      BY <1>5
    <3>2. m + 1 + k \in 1 .. Len(sorted) /\ sorted[m + 1 + k] = x
      BY <1>5, <1>6, <3>1
    <3> QED
      BY <1>7, <3>2
  <2> QED
    BY <2>1, <2>2, <2>3, <2>4
<1> QED
  BY <1>1, <1>4, <1>6, <1>8 DEF NewOnList, sorted

LEMMA ReplacedOnList ==
  ASSUME NEW list \in Seq(BookOrders), NEW o \in BookOrders
  PROVE  NewOnList(list, OB!Replaced(list, o), o)
<1> DEFINE new == OB!Replaced(list, o)
<1>1. /\ Len(list) \in Nat /\ DOMAIN list = 1 .. Len(list)
      /\ OnList(list) = {list[k] : k \in 1 .. Len(list)}
      /\ \A k \in 1 .. Len(list) : list[k] \in BookOrders
  BY OnListIs
<1>2. CASE \E k \in DOMAIN list : list[k].id = o.id
  <2>1. new = [k \in 1 .. Len(list) |-> IF list[k].id = o.id THEN o ELSE list[k]]
    BY <1>1, <1>2 DEF OB!Replaced
  <2>2. new \in Seq(BookOrders) /\ Len(new) = Len(list)
    BY <1>1, <2>1
  <2>3. OnList(new) = {new[k] : k \in 1 .. Len(list)}
    <3> HIDE DEF new
    <3> QED
      BY <2>2, OnListIs
  <2>4. OnList(new) = {x \in OnList(list) : x.id # o.id} \cup {o}
    BY <1>1, <1>2, <2>1, <2>3
  <2> QED
    BY <2>2, <2>4 DEF NewOnList
<1>3. CASE ~ \E k \in DOMAIN list : list[k].id = o.id
  <2>1. new = Append(list, o)
    BY <1>3 DEF OB!Replaced
  <2>2. /\ new \in Seq(BookOrders) /\ Len(new) = Len(list) + 1
        /\ new[Len(list) + 1] = o
        /\ \A k \in 1 .. Len(list) : new[k] = list[k]
    BY <1>1, <2>1
  <2>3. OnList(new) = {new[k] : k \in 1 .. Len(list) + 1}
    <3> HIDE DEF new
    <3> QED
      BY <2>2, OnListIs
  <2>4. OnList(new) = OnList(list) \cup {o}
    BY <1>1, <2>2, <2>3
  <2>5. \A x \in OnList(list) : x.id # o.id
    BY <1>1, <1>3
  <2> QED
    BY <2>2, <2>4, <2>5 DEF NewOnList
<1> QED
  BY <1>2, <1>3

\* Putting an order into a book replaces its old version.
LEMMA UpsertedBook ==
  ASSUME NEW b, GoodBook(b), NEW o \in BookOrders, HasSide(o),
         \A x \in InBook(b) : x.id = o.id => ListOf(x) = ListOf(o)
  PROVE  /\ GoodBook(OB!upsertOrder(b, o))
         /\ InBook(OB!upsertOrder(b, o)) = {x \in InBook(b) : x.id # o.id} \cup {o}
<1> DEFINE c == OB!upsertOrder(b, o)
           mine == ListOf(o)
<1>1. /\ b = [name \in Lists |-> b[name]] /\ DOMAIN b = Lists
      /\ \A name \in Lists :
           /\ b[name] \in Seq(BookOrders)
           /\ \A x \in OnList(b[name]) : HasSide(x) /\ ListOf(x) = name
  BY DEF GoodBook
<1>2. mine \in Lists /\ o.type_ \in {TYPE_LIMIT, TYPE_MARKET}
      /\ o.flag \in {FLAG_BUY, FLAG_SELL}
  BY DEF ListOf, Lists, BookOrders, HasSide
<1>3. PICK new : c = [b EXCEPT ![mine] = new] /\ NewOnList(b[mine], new, o)
  <2>1. /\ b["bids"] \in Seq(BookOrders) /\ b["asks"] \in Seq(BookOrders)
        /\ b["market_bids"] \in Seq(BookOrders)
        /\ b["market_asks"] \in Seq(BookOrders)
    BY <1>1 DEF Lists
  <2>2. CASE o.type_ = TYPE_LIMIT /\ o.flag = FLAG_BUY
    <3>1. mine = "bids" /\ c = [b EXCEPT !["bids"] = OB!Sorted(b["bids"], o)]
      BY <2>2 DEF ListOf, OB!upsertOrder, OB!isLimitOrder, OB!isMarketOrder,
        OB!TYPE_LIMIT, OB!TYPE_MARKET, OB!FLAG_BUY, OB!FLAG_SELL,
        TYPE_LIMIT, TYPE_MARKET, FLAG_BUY, FLAG_SELL
    <3> QED
      BY <2>1, <3>1, SortedOnList
  <2>3. CASE o.type_ = TYPE_LIMIT /\ o.flag = FLAG_SELL
    <3>1. mine = "asks" /\ c = [b EXCEPT !["asks"] = OB!Sorted(b["asks"], o)]
      BY <2>3 DEF ListOf, OB!upsertOrder, OB!isLimitOrder, OB!isMarketOrder,
        OB!TYPE_LIMIT, OB!TYPE_MARKET, OB!FLAG_BUY, OB!FLAG_SELL,
        TYPE_LIMIT, TYPE_MARKET, FLAG_BUY, FLAG_SELL
    <3> QED
      BY <2>1, <3>1, SortedOnList
  <2>4. CASE o.type_ = TYPE_MARKET /\ o.flag = FLAG_BUY
    <3>1. /\ mine = "market_bids"
          /\ c = [b EXCEPT !["market_bids"] = OB!Replaced(b["market_bids"], o)]
      BY <2>4 DEF ListOf, OB!upsertOrder, OB!isLimitOrder, OB!isMarketOrder,
        OB!TYPE_LIMIT, OB!TYPE_MARKET, OB!FLAG_BUY, OB!FLAG_SELL,
        TYPE_LIMIT, TYPE_MARKET, FLAG_BUY, FLAG_SELL
    <3> QED
      BY <2>1, <3>1, ReplacedOnList
  <2>5. CASE o.type_ = TYPE_MARKET /\ o.flag = FLAG_SELL
    <3>1. /\ mine = "market_asks"
          /\ c = [b EXCEPT !["market_asks"] = OB!Replaced(b["market_asks"], o)]
      BY <2>5 DEF ListOf, OB!upsertOrder, OB!isLimitOrder, OB!isMarketOrder,
        OB!TYPE_LIMIT, OB!TYPE_MARKET, OB!FLAG_BUY, OB!FLAG_SELL,
        TYPE_LIMIT, TYPE_MARKET, FLAG_BUY, FLAG_SELL
    <3> QED
      BY <2>1, <3>1, ReplacedOnList
  <2> QED
    BY <1>2, <2>2, <2>3, <2>4, <2>5
<1> HIDE DEF c, mine
<1>4. /\ new \in Seq(BookOrders)
      /\ OnList(new) = {x \in OnList(b[mine]) : x.id # o.id} \cup {o}
  BY <1>3 DEF NewOnList
<1>5. /\ DOMAIN c = Lists /\ c = [name \in Lists |-> c[name]]
      /\ c[mine] = new /\ \A name \in Lists : name # mine => c[name] = b[name]
  BY <1>1, <1>2, <1>3
<1>6. GoodBook(c)
  <2>1. ASSUME NEW name \in Lists
        PROVE  /\ c[name] \in Seq(BookOrders)
               /\ \A x \in OnList(c[name]) : HasSide(x) /\ ListOf(x) = name
    <3>1. CASE name = mine
      BY <1>1, <1>4, <1>5, <3>1 DEF mine
    <3>2. CASE name # mine
      BY <1>1, <1>5, <3>2
    <3> QED
      BY <3>1, <3>2
  <2> QED
    BY <1>5, <2>1 DEF GoodBook
<1>7. InBook(c) = {x \in InBook(b) : x.id # o.id} \cup {o}
  <2>1. /\ InBook(c) = UNION {OnList(c[name]) : name \in Lists}
        /\ InBook(b) = UNION {OnList(b[name]) : name \in Lists}
    BY <1>1, <1>5 DEF InBook
  <2>2. ASSUME NEW name \in Lists, NEW x \in OnList(c[name])
        PROVE  x \in {y \in InBook(b) : y.id # o.id} \cup {o}
    <3>1. CASE name = mine
      BY <1>4, <1>5, <2>1, <2>2, <3>1
    <3>2. CASE name # mine
      <4>1. x \in OnList(b[name]) /\ ListOf(x) = name
        BY <1>1, <1>5, <2>2, <3>2
      <4>2. x \in InBook(b)
        BY <2>1, <4>1
      <4> QED
        BY <3>2, <4>1, <4>2 DEF mine
    <3> QED
      BY <3>1, <3>2
  <2>3. o \in InBook(c)
    BY <1>2, <1>4, <1>5, <2>1
  <2>4. ASSUME NEW x \in InBook(b), x.id # o.id PROVE x \in InBook(c)
    <3>1. PICK name \in Lists : x \in OnList(b[name])
      BY <2>1
    <3>2. x \in OnList(c[name])
      BY <1>4, <1>5, <2>4, <3>1
    <3> QED
      BY <2>1, <3>2
  <2>5. ASSUME NEW x \in InBook(c)
        PROVE  x \in {y \in InBook(b) : y.id # o.id} \cup {o}
    BY <2>1, <2>2
  <2> QED
    BY <2>3, <2>4, <2>5
<1> QED
  BY <1>6, <1>7 DEF c

\* An order without a side changes no book.
LEMMA NotUpserted ==
  ASSUME NEW b, NEW o, ~HasSide(o) PROVE OB!upsertOrder(b, o) = b
BY DEF HasSide, OB!upsertOrder, OB!isLimitOrder, OB!isMarketOrder,
   OB!TYPE_LIMIT, OB!TYPE_MARKET, OB!FLAG_BUY, OB!FLAG_SELL, FLAG_BUY, FLAG_SELL

\* tryMatchOrder only takes the orders away that are not live.
LEMMA CleanedBook ==
  ASSUME NEW b, GoodBook(b)
  PROVE  /\ GoodBook(OB!removeMatchOrder(b))
         /\ InBook(OB!removeMatchOrder(b)) = {x \in InBook(b) : OB!isLive(x)}
<1> DEFINE live(name) == {x \in OnList(b[name]) : OB!isLive(x)}
           c == OB!removeMatchOrder(b)
<1>1. /\ DOMAIN b = Lists
      /\ \A name \in Lists :
           /\ b[name] \in Seq(BookOrders)
           /\ \A x \in OnList(b[name]) : HasSide(x) /\ ListOf(x) = name
  BY DEF GoodBook
<1>2. /\ c = [name \in Lists |-> c[name]] /\ DOMAIN c = Lists
      /\ \A name \in Lists : c[name] = OB!Kept(b[name], live(name))
  BY <1>1, SameOnList DEF OB!removeMatchOrder
<1>3. ASSUME NEW name \in Lists
      PROVE  /\ c[name] \in Seq(BookOrders)
             /\ OnList(c[name]) = {x \in OnList(b[name]) : OB!isLive(x)}
  <2> DEFINE list == b[name]
             lives == live(name)
  <2>1. list \in Seq(BookOrders) /\ c[name] = OB!Kept(list, lives)
    BY <1>1, <1>2
  <2> HIDE DEF list, lives, c
  <2>2. c[name] \in Seq(BookOrders) /\ OnList(c[name]) = OnList(list) \cap lives
    BY <2>1, KeptOnList
  <2> QED
    BY <2>2 DEF list, lives
<1> HIDE DEF c
<1>4. GoodBook(c)
  BY <1>1, <1>2, <1>3 DEF GoodBook
<1>5. /\ InBook(c) = UNION {OnList(c[name]) : name \in Lists}
      /\ InBook(b) = UNION {OnList(b[name]) : name \in Lists}
  BY <1>1, <1>2 DEF InBook
<1>6. InBook(c) = {x \in InBook(b) : OB!isLive(x)}
  BY <1>3, <1>5
<1> QED
  BY <1>4, <1>6 DEF c

LEMMA NewBook == GoodBook(OB!EmptyBook) /\ InBook(OB!EmptyBook) = {}
<1> DEFINE b == OB!EmptyBook
<1>1. DOMAIN b = Lists /\ \A name \in Lists : b[name] = <<>>
  BY DEF OB!EmptyBook, Lists
<1>2. b = [name \in Lists |-> b[name]]
  BY DEF OB!EmptyBook, Lists
<1>3. OnList(<<>>) = {}
  BY DEF OnList
<1> HIDE DEF b
<1>4. GoodBook(b)
  <2>1. ASSUME NEW name \in Lists
        PROVE  /\ b[name] \in Seq(BookOrders)
               /\ \A x \in OnList(b[name]) : HasSide(x) /\ ListOf(x) = name
    <3>1. b[name] = <<>> /\ OnList(b[name]) = {}
      BY <1>1, <1>3
    <3>2. <<>> \in Seq(BookOrders)
      BY EmptySeq
    <3> QED
      BY <3>1, <3>2
  <2> QED
    BY <1>2, <2>1 DEF GoodBook
<1>5. InBook(b) = {}
  BY <1>1, <1>3 DEF InBook
<1> QED
  BY <1>4, <1>5 DEF b

LEMMA ABookIsABook == \A b : GoodBook(b) => b # NoBook
<1>1. SUFFICES ASSUME GoodBook(NoBook) PROVE FALSE
  OBVIOUS
<1>2. DOMAIN NoBook = Lists
  BY <1>1 DEF GoodBook
<1>3. "kind" \in DOMAIN NoBook /\ "kind" \notin Lists
  BY DEF NoBook, Lists
<1> QED
  BY <1>2, <1>3

LEMMA InBookAreOrders ==
  ASSUME NEW b, GoodBook(b)
  PROVE  /\ InBook(b) \subseteq BookOrders
         /\ \A x \in InBook(b) : HasSide(x)
<1>1. /\ DOMAIN b = Lists
      /\ \A name \in Lists :
           b[name] \in Seq(BookOrders) /\ \A x \in OnList(b[name]) : HasSide(x)
  BY DEF GoodBook
<1>2. \A name \in Lists : OnList(b[name]) \subseteq BookOrders
  BY <1>1, OnListIs
<1> QED
  BY <1>1, <1>2 DEF InBook

-----------------------------------------------------------------------------
(* Lists of events.                                                        *)

Has(list, e) == \E k \in 1 .. Len(list) : list[k] = e

PositionOf == {PositionEvent(p, t) : p \in Pids, t \in TokenIdxs}

\* The events that name what the application has.
EventType ==
  PositionOf \cup {TokenEvent(t) : t \in TokenIdxs}
    \cup {MarketEvent(m) : m \in DOMAIN markets}
    \cup {OrderEvent(i) : i \in DOMAIN orders}
    \cup {TradeEvent(k) : k \in DOMAIN trades}
    \cup {TryMatch(m) : m \in DOMAIN markets}

\* A list of positions that has at least those of p's tokens ts.
PositionsOf(list, p, ts) ==
  list \in Seq(PositionOf) /\ \A t \in ts : Has(list, PositionEvent(p, t))

LEMMA PositionsAre ==
  ASSUME NEW p \in Pids, NEW ts \in SUBSET TokenIdxs, IsFiniteSet(ts)
  PROVE  PositionsOf(PositionEvents(p, ts), p, ts)
<1> DEFINE n == Cardinality(ts)
           lists == {l \in [1 .. n -> ts] : \A t \in ts : \E k \in 1 .. n : l[k] = t}
           list == CHOOSE l \in [1 .. n -> ts] : \A t \in ts : \E k \in 1 .. n : l[k] = t
           events == [k \in 1 .. n |-> PositionEvent(p, list[k])]
<1>1. n \in Nat /\ ExistsBijection(1 .. n, ts)
  BY FS_CardinalityType
<1>2. PICK f \in Bijection(1 .. n, ts) : TRUE
  BY <1>1 DEF ExistsBijection
<1>3. f \in [1 .. n -> ts] /\ \A t \in ts : \E k \in 1 .. n : f[k] = t
  BY <1>2 DEF Bijection, Surjection, Injection
<1>4. list \in [1 .. n -> ts] /\ \A t \in ts : \E k \in 1 .. n : list[k] = t
  BY <1>3
<1>5. PositionEvents(p, ts) = events
  BY DEF PositionEvents
<1> HIDE DEF list, n
<1>6. events \in Seq(PositionOf) /\ Len(events) = n
  <2>1. \A k \in 1 .. n : PositionEvent(p, list[k]) \in PositionOf
    BY <1>4 DEF PositionOf
  <2> QED
    BY <1>1, <2>1
<1>7. ASSUME NEW t \in ts PROVE Has(events, PositionEvent(p, t))
  <2>1. PICK k \in 1 .. n : list[k] = t
    BY <1>4
  <2>2. events[k] = PositionEvent(p, t)
    BY <2>1
  <2> QED
    BY <1>6, <2>2 DEF Has
<1> QED
  BY <1>5, <1>6, <1>7 DEF PositionsOf

LEMMA TwoTokens ==
  \A t, u : IsFiniteSet({t}) /\ IsFiniteSet({t, u}) /\ IsFiniteSet({})
<1> SUFFICES ASSUME NEW t, NEW u
             PROVE  IsFiniteSet({t}) /\ IsFiniteSet({t, u}) /\ IsFiniteSet({})
  OBVIOUS
<1>1. IsFiniteSet({}) /\ IsFiniteSet({t})
  BY FS_EmptySet, FS_Singleton
<1>2. IsFiniteSet({t} \cup {u})
  BY <1>1, FS_AddElement
<1>3. {t, u} = {t} \cup {u}
  OBVIOUS
<1> QED
  BY <1>1, <1>2, <1>3

\* One list after the other.
Joined(list, s, t, S) ==
  /\ list \in Seq(S) /\ Len(list) = Len(s) + Len(t)
  /\ Len(s) \in Nat /\ Len(t) \in Nat
  /\ \A k \in 1 .. Len(s) : list[k] = s[k]
  /\ \A k \in 1 .. Len(t) : list[Len(s) + k] = t[k]

LEMMA Concatenated ==
  ASSUME NEW S, NEW s \in Seq(S), NEW t \in Seq(S)
  PROVE  Joined(s \o t, s, t, S)
<1>1. /\ s \o t \in Seq(S) /\ Len(s \o t) = Len(s) + Len(t)
      /\ Len(s) \in Nat /\ Len(t) \in Nat
      /\ \A k \in 1 .. Len(s) + Len(t) :
           (s \o t)[k] = IF k <= Len(s) THEN s[k] ELSE t[k - Len(s)]
  BY ConcatProperties, LenProperties
<1>2. ASSUME NEW k \in 1 .. Len(s) PROVE (s \o t)[k] = s[k]
  BY <1>1
<1>3. ASSUME NEW k \in 1 .. Len(t) PROVE (s \o t)[Len(s) + k] = t[k]
  <2>1. /\ Len(s) + k \in 1 .. Len(s) + Len(t) /\ ~ (Len(s) + k <= Len(s))
        /\ (Len(s) + k) - Len(s) = k
    BY <1>1
  <2> QED
    BY <1>1, <2>1
<1> QED
  BY <1>1, <1>2, <1>3 DEF Joined

LEMMA HasEither ==
  ASSUME NEW S, NEW s \in Seq(S), NEW t \in Seq(S)
  PROVE  /\ \A e : Has(s \o t, e) <=> Has(s, e) \/ Has(t, e)
         /\ s \o t \in Seq(S)
<1> DEFINE st == s \o t
<1>1. /\ st \in Seq(S) /\ Len(st) = Len(s) + Len(t)
      /\ Len(s) \in Nat /\ Len(t) \in Nat
      /\ \A k \in 1 .. Len(s) : st[k] = s[k]
      /\ \A k \in 1 .. Len(t) : st[Len(s) + k] = t[k]
  BY Concatenated DEF Joined
<1> HIDE DEF st
<1> SUFFICES ASSUME NEW e PROVE Has(st, e) <=> Has(s, e) \/ Has(t, e)
  BY <1>1 DEF st
<1>2. ASSUME Has(s, e) PROVE Has(st, e)
  <2>1. PICK k \in 1 .. Len(s) : s[k] = e
    BY <1>2 DEF Has
  <2>2. k \in 1 .. Len(st) /\ st[k] = e
    BY <1>1, <2>1
  <2> QED
    BY <2>2 DEF Has
<1>3. ASSUME Has(t, e) PROVE Has(st, e)
  <2>1. PICK k \in 1 .. Len(t) : t[k] = e
    BY <1>3 DEF Has
  <2>2. Len(s) + k \in 1 .. Len(st) /\ st[Len(s) + k] = e
    BY <1>1, <2>1
  <2> QED
    BY <2>2 DEF Has
<1>4. ASSUME Has(st, e) PROVE Has(s, e) \/ Has(t, e)
  <2>1. PICK k \in 1 .. Len(s) + Len(t) : st[k] = e
    BY <1>1, <1>4 DEF Has
  <2>2. CASE k <= Len(s)
    <3>1. k \in 1 .. Len(s) /\ s[k] = e
      BY <1>1, <2>1, <2>2
    <3> QED
      BY <3>1 DEF Has
  <2>3. CASE k > Len(s)
    <3> DEFINE j == k - Len(s)
    <3>1. j \in 1 .. Len(t) /\ Len(s) + j = k
      BY <1>1, <2>1, <2>3
    <3> HIDE DEF j
    <3>2. t[j] = e
      BY <1>1, <2>1, <3>1
    <3> QED
      BY <3>1, <3>2 DEF Has
  <2> QED
    BY <1>1, <2>1, <2>2, <2>3
<1> QED
  BY <1>2, <1>3, <1>4

LEMMA NoPosition ==
  ASSUME NEW list \in Seq(PositionOf), NEW k \in 1 .. Len(list)
  PROVE  list[k].kind = "position"
<1>1. list[k] \in PositionOf
  BY ElementOfSeq
<1> QED
  BY <1>1 DEF PositionOf, PositionEvent

-----------------------------------------------------------------------------
(* What transactions announce: whatever one changes, it lists an event for. *)

\* What a mirrored collection should have under i.
Stored(records, i) == IF i \in DOMAIN records THEN records[i] ELSE NoDoc

TokensAnnounced ==
  \A t \in TokenIdxs :
    tokens'[t] = tokens[t] \/ tokens'[t] = MarketRecord
      \/ Has(inbox', TokenEvent(t))

MarketsAnnounced ==
  /\ \A m \in DOMAIN markets : m \in DOMAIN markets'
  /\ \A m \in MarketIds :
       \/ Stored(markets', m) = Stored(markets, m)
       \/ m \in DOMAIN markets' /\ Has(inbox', MarketEvent(m))
  /\ \A m \in DOMAIN markets' :
       m \in DOMAIN markets \/ inbox' = <<MarketEvent(m)>>

OrdersAnnounced ==
  \A i \in OrderIds : \/ Stored(orders', i) = Stored(orders, i)
                      \/ Has(inbox', OrderEvent(i))

TradesAnnounced ==
  \A k \in 1 .. MaxTrades : \/ Stored(trades', k) = Stored(trades, k)
                            \/ Has(inbox', TradeEvent(k))

LocksAnnounced ==
  \A p \in Pids, t \in TokenIdxs :
    lock_balance'[p][t] = lock_balance[p][t] \/ Has(inbox', PositionEvent(p, t))

\* tryMatchOrder is only called for the market of an order before it.
MatchesAnnounced ==
  \A k \in 1 .. Len(inbox') :
    inbox'[k].kind = "try_match" =>
      \E j \in 1 .. k - 1 :
        /\ inbox'[j].kind = "order"
        /\ orders'[inbox'[j].order_id].market_id = inbox'[k].market_id

\* An open market has a MARKET event only in a trade ...
OpenMarketsQuiet ==
  /\ trades' = trades
  /\ \A m \in DOMAIN markets :
       /\ is_close(markets[m]) => is_close(markets'[m])
       /\ Has(inbox', MarketEvent(m)) => is_close(markets'[m])

\* ... and there the two orders come after it.
ComesAfterMarket(list, i, m) ==
  \E k \in 1 .. Len(list) :
    /\ list[k] = OrderEvent(i)
    /\ \A l \in k .. Len(list) : list[l] # MarketEvent(m)

TradeOrdersAfterMarket ==
  LET last == trades'[Len(trades')]
      a == orders'[last.a_order_id]
      b == orders'[last.b_order_id]
  IN  /\ b.market_id = a.market_id
      /\ ComesAfterMarket(inbox', last.a_order_id, a.market_id)
      /\ ComesAfterMarket(inbox', last.b_order_id, a.market_id)

\* A market has just been closed, or of a closed one only cancelled orders have
\* events.
ClosedMarketsQuiet ==
  \A m \in DOMAIN markets' :
    is_close(markets'[m]) =>
      \/ inbox' = <<MarketEvent(m)>>
      \/ /\ m \in DOMAIN markets /\ is_close(markets[m])
         /\ \A i \in DOMAIN orders' :
              orders'[i].market_id = m /\ Has(inbox', OrderEvent(i))
                => orders'[i].status = STATUS_CANCEL

Announced ==
  /\ inbox' \in Seq(EventType')
  /\ TokensAnnounced /\ MarketsAnnounced /\ OrdersAnnounced
  /\ TradesAnnounced /\ LocksAnnounced /\ MatchesAnnounced
  /\ OpenMarketsQuiet \/ TradeOrdersAfterMarket
  /\ ClosedMarketsQuiet

LEMMA OneEvent ==
  ASSUME NEW S, NEW e \in S
  PROVE  <<e>> \in Seq(S) /\ Len(<<e>>) = 1 /\ <<e>>[1] = e /\ Has(<<e>>, e)
<1>1. <<e>> \in Seq(S) /\ Len(<<e>>) = 1 /\ <<e>>[1] = e
  OBVIOUS
<1>2. 1 \in 1 .. 1
  OBVIOUS
<1> QED
  BY <1>1, <1>2 DEF Has

LEMMA OnlyOneEvent ==
  ASSUME NEW e, NEW f, Has(<<e>>, f) PROVE f = e
BY DEF Has

\* A transaction that changes neither markets, orders, trades nor locks.
LEMMA QuietStep ==
  ASSUME TypeOK, TypeOK', UNCHANGED <<markets, orders, trades, lock_balance>>,
         TokensAnnounced, inbox' \in Seq(EventType'),
         \A k \in 1 .. Len(inbox') : inbox'[k].kind = "token"
  PROVE  Announced
<1>1. MarketsAnnounced /\ OrdersAnnounced /\ TradesAnnounced /\ LocksAnnounced
  BY DEF MarketsAnnounced, OrdersAnnounced, TradesAnnounced, LocksAnnounced
<1>2. MatchesAnnounced
  BY DEF MatchesAnnounced
<1>3. \A m : ~Has(inbox', MarketEvent(m))
  BY DEF Has, MarketEvent
<1>4. OpenMarketsQuiet
  BY <1>3 DEF OpenMarketsQuiet
<1>5. \A i : ~Has(inbox', OrderEvent(i))
  BY DEF Has, OrderEvent
<1>6. ClosedMarketsQuiet
  BY <1>5 DEF ClosedMarketsQuiet
<1> QED
  BY <1>1, <1>2, <1>4, <1>6 DEF Announced

LEMMA TokenAnnounced ==
  ASSUME TypeOK, TypeOK', NEW pid, NEW idx \in TokenIdxs, NEW address,
         StoreToken(pid, idx, address), inbox' = <<TokenEvent(idx)>>
  PROVE  Announced
<1>1. /\ UNCHANGED <<markets, orders, trades, lock_balance>>
      /\ tokens' = [tokens EXCEPT ![idx] = address]
  BY DEF StoreToken
<1>2. TokenEvent(idx) \in EventType'
  BY DEF EventType
<1>3. /\ inbox' \in Seq(EventType') /\ Len(inbox') = 1
      /\ inbox'[1] = TokenEvent(idx) /\ Has(inbox', TokenEvent(idx))
  BY <1>2, OneEvent
<1>4. \A k \in 1 .. Len(inbox') : inbox'[k].kind = "token"
  BY <1>3 DEF TokenEvent
<1>5. TokensAnnounced
  BY <1>1, <1>3 DEF TokensAnnounced, TypeOK, ListingsType
<1> QED
  BY <1>1, <1>3, <1>4, <1>5, QuietStep

LEMMA MovingAnnounced ==
  ASSUME TypeOK, TypeOK', Moving
  PROVE  Announced
<1>1. inbox' = <<>>
  BY DEF Moving, Emits
<1>2. UNCHANGED <<tokens, markets, orders, trades, lock_balance>>
  <2>1. CASE \E pid \in Pids : RegisterPlayer(pid)
    BY <2>1 DEF RegisterPlayer, listings
  <2>2. ASSUME NEW signer \in Pids, NEW pid \in Pids, NEW idx \in TokenIdxs,
               NEW amount \in MoveAmounts,
               \/ Deposit(signer, pid, idx, amount)
               \/ Transfer(signer, pid, idx, amount)
               \/ Withdraw(pid, idx, amount)
        PROVE  UNCHANGED <<tokens, markets, orders, trades, lock_balance>>
    BY <2>2 DEF Deposit, Transfer, Withdraw, listings
  <2>3. CASE FlushSettlement
    BY <2>3 DEF FlushSettlement, listings, accounts
  <2> QED
    BY <2>1, <2>2, <2>3 DEF Moving
<1>3. inbox' \in Seq(EventType') /\ Len(inbox') = 0
  BY <1>1, EmptySeq
<1>4. TokensAnnounced
  BY <1>2 DEF TokensAnnounced
<1>5. \A k \in 1 .. Len(inbox') : inbox'[k].kind = "token"
  BY <1>3
<1> QED
  BY <1>2, <1>3, <1>4, <1>5, QuietStep

\* The same for a transaction that has one MARKET event.
LEMMA MarketStep ==
  ASSUME TypeOK, TypeOK', UNCHANGED <<orders, trades, lock_balance>>,
         NEW m \in DOMAIN markets', inbox' = <<MarketEvent(m)>>,
         \A t \in TokenIdxs : tokens'[t] = tokens[t] \/ tokens'[t] = MarketRecord,
         \A n \in DOMAIN markets :
           n \in DOMAIN markets' /\ (n # m => markets'[n] = markets[n]),
         \A n \in DOMAIN markets' : n \in DOMAIN markets \/ n = m,
         m \in DOMAIN markets => is_close(markets'[m])
  PROVE  Announced
<1>1. MarketEvent(m) \in EventType'
  BY DEF EventType
<1>2. /\ inbox' \in Seq(EventType') /\ Len(inbox') = 1
      /\ inbox'[1] = MarketEvent(m) /\ Has(inbox', MarketEvent(m))
  BY <1>1, OneEvent
<1>3. MarketsAnnounced
  BY <1>2 DEF MarketsAnnounced, Stored
<1>4. TokensAnnounced /\ OrdersAnnounced /\ TradesAnnounced /\ LocksAnnounced
  BY DEF TokensAnnounced, OrdersAnnounced, TradesAnnounced, LocksAnnounced
<1>5. MatchesAnnounced
  BY <1>2 DEF MatchesAnnounced, MarketEvent
<1>6. \A n : Has(inbox', MarketEvent(n)) => n = m
  BY OnlyOneEvent DEF MarketEvent
<1>7. OpenMarketsQuiet
  BY <1>6 DEF OpenMarketsQuiet
<1>8. \A i : ~Has(inbox', OrderEvent(i))
  BY OnlyOneEvent DEF MarketEvent, OrderEvent
<1>9. ClosedMarketsQuiet
  BY <1>8 DEF ClosedMarketsQuiet
<1> QED
  BY <1>2, <1>3, <1>4, <1>5, <1>7, <1>9 DEF Announced

LEMMA AddMarketAnnounced ==
  ASSUME TypeOK, TypeOK', NEW pid, NEW token_a, NEW token_b, NEW price,
         AddMarket(pid, token_a, token_b, price),
         inbox' = <<MarketEvent(Len(markets) + 1)>>
  PROVE  Announced
<1> DEFINE m == Len(markets) + 1
           market == [status |-> MARKET_STATUS_OPEN,
                      token_a |-> token_a, token_b |-> token_b,
                      last_deal_price |-> price]
<1>1. /\ UNCHANGED <<orders, trades, lock_balance>>
      /\ markets' = Append(markets, market)
      /\ tokens' = MarketStored(m)
  BY DEF AddMarket
<1>2. markets \in Seq(MarketType)
  BY DEF TypeOK, ListingsType
<1> HIDE DEF market
<1>3. /\ DOMAIN markets = 1 .. Len(markets) /\ Len(markets) \in Nat
      /\ DOMAIN markets' = 1 .. Len(markets) + 1
      /\ \A n \in DOMAIN markets : markets'[n] = markets[n]
  BY <1>1, <1>2, AppendProperties, LenProperties
<1>4. \A t \in TokenIdxs : tokens'[t] = tokens[t] \/ tokens'[t] = MarketRecord
  BY <1>1 DEF MarketStored
<1>5. m \in DOMAIN markets' /\ m \notin DOMAIN markets
  BY <1>3
<1>6. \A n \in DOMAIN markets' : n \in DOMAIN markets \/ n = m
  BY <1>3
<1>7. \A n \in DOMAIN markets : n \in DOMAIN markets'
  BY <1>3
<1>8. inbox' = <<MarketEvent(m)>>
  OBVIOUS
<1> HIDE DEF m
<1> QED
  BY <1>1, <1>3, <1>4, <1>5, <1>6, <1>7, <1>8, MarketStep

LEMMA CloseMarketAnnounced ==
  ASSUME TypeOK, TypeOK', NEW pid, NEW m, CloseMarket(pid, m),
         inbox' = <<MarketEvent(m)>>
  PROVE  Announced
<1>1. /\ UNCHANGED <<orders, trades, lock_balance, tokens>>
      /\ m \in DOMAIN markets
      /\ markets' = [markets EXCEPT ![m].status = MARKET_STATUS_CLOSE]
  BY DEF CloseMarket, CanLoad
<1>2. markets[m] \in MarketType
  BY <1>1, LenProperties, ElementOfSeq DEF TypeOK, ListingsType
<1>3. /\ DOMAIN markets' = DOMAIN markets
      /\ \A n \in DOMAIN markets : n # m => markets'[n] = markets[n]
      /\ markets'[m] = [markets[m] EXCEPT !.status = MARKET_STATUS_CLOSE]
  BY <1>1
<1>4. is_close(markets'[m])
  BY <1>2, <1>3 DEF is_close, MarketType
<1> QED
  BY <1>1, <1>3, <1>4, MarketStep

\* A transaction that changes one order or two, of one market: its events name
\* them and the positions it has changed.
LEMMA OrderingStep ==
  ASSUME TypeOK, TypeOK', UNCHANGED <<tokens, markets, trades>>,
         NEW i \in DOMAIN orders', i \in OrderIds,
         \A j \in OrderIds : j # i => Stored(orders', j) = Stored(orders, j),
         inbox' \in Seq(EventType'), Has(inbox', OrderEvent(i)),
         LocksAnnounced, MatchesAnnounced,
         \A m : ~Has(inbox', MarketEvent(m)),
         \A j : Has(inbox', OrderEvent(j)) => j = i,
         \/ orders'[i].status = STATUS_CANCEL
         \/ ~is_close(markets[orders'[i].market_id])
  PROVE  Announced
<1>1. TokensAnnounced /\ MarketsAnnounced /\ TradesAnnounced
  BY DEF TokensAnnounced, MarketsAnnounced, TradesAnnounced
<1>2. OrdersAnnounced
  BY DEF OrdersAnnounced
<1>3. OpenMarketsQuiet
  BY DEF OpenMarketsQuiet
<1>4. ClosedMarketsQuiet
  BY DEF ClosedMarketsQuiet
<1> QED
  BY <1>1, <1>2, <1>3, <1>4 DEF Announced

\* The events of one order: it, the positions ps, and then tryMatchOrder.
OneOrderList(list, ps, i, m, S) ==
  /\ list \in Seq(S)
  /\ Has(list, OrderEvent(i))
  /\ \A e : Has(ps, e) => Has(list, e)
  /\ \A n : ~Has(list, MarketEvent(n))
  /\ \A j : Has(list, OrderEvent(j)) => j = i
  /\ \A k \in 1 .. Len(list) :
       list[k].kind = "try_match" =>
         /\ list[k] = TryMatch(m)
         /\ \E j \in 1 .. k - 1 : list[j] = OrderEvent(i)

\* A list that asks for tryMatchOrder of market m only after an order of m.
LEMMA MatchesFollow ==
  ASSUME NEW i, NEW m, orders'[i].market_id = m,
         \A k \in 1 .. Len(inbox') :
           inbox'[k].kind = "try_match" =>
             /\ inbox'[k] = TryMatch(m)
             /\ \E j \in 1 .. k - 1 : inbox'[j] = OrderEvent(i)
  PROVE  MatchesAnnounced
<1>1. /\ OrderEvent(i).kind = "order" /\ OrderEvent(i).order_id = i
      /\ TryMatch(m).market_id = m
  BY DEF OrderEvent, TryMatch
<1> SUFFICES ASSUME NEW k \in 1 .. Len(inbox'), inbox'[k].kind = "try_match"
             PROVE  \E j \in 1 .. k - 1 :
                      /\ inbox'[j].kind = "order"
                      /\ orders'[inbox'[j].order_id].market_id = inbox'[k].market_id
  BY DEF MatchesAnnounced
<1>2. PICK j \in 1 .. k - 1 : inbox'[j] = OrderEvent(i)
  OBVIOUS
<1>3. inbox'[k].market_id = m
  BY <1>1
<1>4. inbox'[j].kind = "order" /\ inbox'[j].order_id = i
  BY <1>1, <1>2
<1> QED
  BY <1>3, <1>4

LEMMA PlacedList ==
  ASSUME NEW S, NEW ps \in Seq(PositionOf), PositionOf \subseteq S,
         NEW i, NEW m, OrderEvent(i) \in S, TryMatch(m) \in S
  PROVE  OneOrderList(ps \o <<OrderEvent(i), TryMatch(m)>>, ps, i, m, S)
<1> DEFINE tail == <<OrderEvent(i), TryMatch(m)>>
           list == ps \o tail
<1>1. tail \in Seq(S) /\ Len(tail) = 2
      /\ tail[1] = OrderEvent(i) /\ tail[2] = TryMatch(m)
  OBVIOUS
<1>2. ps \in Seq(S)
  BY SeqMonotonic
<1> HIDE DEF tail
<1>3. /\ list \in Seq(S) /\ Len(list) = Len(ps) + 2 /\ Len(ps) \in Nat
      /\ \A k \in 1 .. Len(ps) : list[k] = ps[k]
      /\ \A k \in 1 .. 2 : list[Len(ps) + k] = tail[k]
  <2>1. Joined(list, ps, tail, S)
    BY <1>1, <1>2, Concatenated
  <2> HIDE DEF list
  <2> QED
    BY <1>1, <2>1 DEF Joined
<1>4. \A e : Has(ps, e) => Has(list, e)
  BY <1>1, <1>2, HasEither
<1> HIDE DEF list
<1>5. /\ list[Len(ps) + 1] = OrderEvent(i) /\ list[Len(ps) + 2] = TryMatch(m)
      /\ \A k \in 1 .. Len(ps) : list[k].kind = "position"
  <2>1. 1 \in 1 .. 2 /\ 2 \in 1 .. 2
    OBVIOUS
  <2> QED
    BY <1>1, <1>3, <2>1, NoPosition
<1>6. \A k \in 1 .. Len(list) :
        k \in 1 .. Len(ps) \/ k = Len(ps) + 1 \/ k = Len(ps) + 2
  BY <1>3
<1>7. Len(ps) + 1 \in 1 .. Len(list) /\ Len(ps) + 1 \in 1 .. (Len(ps) + 2) - 1
  BY <1>3
<1>8. Has(list, OrderEvent(i))
  BY <1>5, <1>7 DEF Has
<1>9. \A n : ~Has(list, MarketEvent(n))
  BY <1>5, <1>6 DEF Has, MarketEvent, OrderEvent, TryMatch
<1>10. \A j : Has(list, OrderEvent(j)) => j = i
  BY <1>5, <1>6 DEF Has, OrderEvent, TryMatch
<1>11. ASSUME NEW k \in 1 .. Len(list), list[k].kind = "try_match"
       PROVE  /\ list[k] = TryMatch(m)
              /\ \E j \in 1 .. k - 1 : list[j] = OrderEvent(i)
  <2>1. k = Len(ps) + 2
    BY <1>5, <1>6, <1>11 DEF OrderEvent
  <2> QED
    BY <1>5, <1>7, <2>1
<1> QED
  BY <1>3, <1>4, <1>8, <1>9, <1>10, <1>11 DEF OneOrderList, list, tail

LEMMA PlaceAnnounced ==
  ASSUME TypeOK, TypeOK', NEW pid \in Pids, NEW m \in DOMAIN markets,
         ~is_close(markets[m]),
         NEW type_, NEW flag, NEW cost, NEW order, order.market_id = m,
         cost = 0 \/ PaidWith(type_, flag, m) = {PayToken(flag, markets[m])},
         PlaceOrder(pid, PayToken(flag, markets[m]), cost, order),
         inbox' = PlacedEvents(type_, pid, m, flag, Len(orders) + 1)
  PROVE  Announced
<1> DEFINE t == PayToken(flag, markets[m])
           i == Len(orders) + 1
           ts == PaidWith(type_, flag, m) \cup {FeeToken}
           ps == PositionEvents(pid, ts)
<1>1. /\ UNCHANGED <<tokens, markets, trades>>
      /\ orders' = Append(orders, order)
      /\ Len(orders) < MaxOrders
      /\ lock_balance' = Plus(Plus(lock_balance, pid, t, cost), pid, FeeToken, Fee)
  BY DEF PlaceOrder, listings
<1>2. t \in TokenIdxs /\ FeeToken \in TokenIdxs
  BY PayTokenType, TokenAssumption
<1>3. orders \in Seq(OrderType)
  BY DEF TypeOK
<1>4. /\ DOMAIN orders = 1 .. Len(orders) /\ Len(orders) \in Nat
      /\ DOMAIN orders' = 1 .. Len(orders) + 1
      /\ \A j \in DOMAIN orders : orders'[j] = orders[j]
      /\ orders'[i] = order
  BY <1>1, <1>3, AppendProperties, LenProperties
<1>5. i \in DOMAIN orders' /\ i \in OrderIds
  BY <1>1, <1>4, BoundAssumption DEF OrderIds
<1>6. \A j \in OrderIds : j # i => Stored(orders', j) = Stored(orders, j)
  BY <1>4 DEF Stored
<1>7. PositionsOf(ps, pid, ts)
  <2>1. IsFiniteSet({t, FeeToken}) /\ ts \in SUBSET {t, FeeToken}
    BY TwoTokens DEF PaidWith
  <2>2. IsFiniteSet(ts) /\ ts \in SUBSET TokenIdxs
    <3> HIDE DEF t, ts
    <3> QED
      BY <1>2, <2>1, FS_Subset
  <2> HIDE DEF ts
  <2> QED
    BY <2>2, PositionsAre
<1>8. /\ PositionOf \subseteq EventType' /\ OrderEvent(i) \in EventType'
      /\ TryMatch(m) \in EventType'
  BY <1>1, <1>5 DEF EventType
<1>9. inbox' = ps \o <<OrderEvent(i), TryMatch(m)>>
  BY DEF PlacedEvents
<1>10. ps \in Seq(PositionOf)
  BY <1>7 DEF PositionsOf
<1>11. OneOrderList(inbox', ps, i, m, EventType')
  <2> HIDE DEF ps, i
  <2> QED
    BY <1>8, <1>9, <1>10, PlacedList
<1>12. LocksAnnounced
  <2>1. lock_balance \in [Pids -> [TokenIdxs -> U64]]
    BY DEF TypeOK, AccountsType
  <2>2. ASSUME NEW p \in Pids, NEW u \in TokenIdxs, p # pid \/ u \notin ts
        PROVE  lock_balance'[p][u] = lock_balance[p][u]
    <3>1. lock_balance[p][u] \in Nat
      BY <2>1 DEF U64
    <3>2. p = pid /\ u = t => cost = 0
      BY <2>2
    <3>3. p # pid \/ u # FeeToken
      BY <2>2
    <3> HIDE DEF t, ts
    <3> QED
      BY <1>1, <1>2, <2>1, <3>1, <3>2, <3>3 DEF Plus
  <2>3. \A u \in ts : Has(ps, PositionEvent(pid, u)) /\ ps \in Seq(PositionOf)
    BY <1>7 DEF PositionsOf
  <2> HIDE DEF ps, ts, i
  <2>4. \A u \in ts : Has(inbox', PositionEvent(pid, u))
    BY <1>11, <2>3 DEF OneOrderList
  <2> QED
    BY <2>2, <2>4 DEF LocksAnnounced
<1> HIDE DEF ps, i
<1>13. MatchesAnnounced
  <2>1. orders'[i].market_id = m
    BY <1>4 DEF i
  <2> QED
    BY <1>11, <2>1, MatchesFollow DEF OneOrderList
<1>14. /\ inbox' \in Seq(EventType') /\ Has(inbox', OrderEvent(i))
       /\ \A n : ~Has(inbox', MarketEvent(n))
       /\ \A j : Has(inbox', OrderEvent(j)) => j = i
  BY <1>11 DEF OneOrderList
<1>15. ~is_close(markets[orders'[i].market_id])
  BY <1>4 DEF i
<1> QED
  BY <1>1, <1>5, <1>6, <1>12, <1>13, <1>14, <1>15, OrderingStep

LEMMA CancelledList ==
  ASSUME NEW S, NEW ps \in Seq(PositionOf), PositionOf \subseteq S,
         NEW i, NEW m, OrderEvent(i) \in S, TryMatch(m) \in S
  PROVE  OneOrderList(<<OrderEvent(i)>> \o ps \o <<TryMatch(m)>>, ps, i, m, S)
<1> DEFINE head == <<OrderEvent(i)>>
           tail == <<TryMatch(m)>>
           front == head \o ps
           list == front \o tail
<1>1. /\ head \in Seq(S) /\ Len(head) = 1 /\ head[1] = OrderEvent(i)
      /\ tail \in Seq(S) /\ Len(tail) = 1 /\ tail[1] = TryMatch(m)
  BY OneEvent
<1>2. ps \in Seq(S)
  BY SeqMonotonic
<1> HIDE DEF head, tail
<1>3. /\ front \in Seq(S) /\ Len(front) = 1 + Len(ps) /\ Len(ps) \in Nat
      /\ \A k \in 1 .. 1 : front[k] = head[k]
      /\ \A k \in 1 .. Len(ps) : front[1 + k] = ps[k]
  <2>1. Joined(front, head, ps, S)
    BY <1>1, <1>2, Concatenated
  <2> HIDE DEF front
  <2> QED
    BY <1>1, <2>1 DEF Joined
<1>4. \A e : Has(ps, e) => Has(front, e)
  BY <1>1, <1>2, HasEither
<1> HIDE DEF front
<1>5. /\ list \in Seq(S) /\ Len(list) = Len(front) + 1
      /\ \A k \in 1 .. Len(front) : list[k] = front[k]
      /\ \A k \in 1 .. 1 : list[Len(front) + k] = tail[k]
  <2>1. Joined(list, front, tail, S)
    BY <1>1, <1>3, Concatenated
  <2> HIDE DEF list
  <2> QED
    BY <1>1, <2>1 DEF Joined
<1>6. \A e : Has(ps, e) => Has(list, e)
  BY <1>1, <1>3, <1>4, HasEither
<1> HIDE DEF list
<1>7. list[1] = OrderEvent(i) /\ list[Len(ps) + 2] = TryMatch(m)
  <2>1. 1 \in 1 .. 1 /\ 1 \in 1 .. Len(front) /\ Len(front) + 1 = Len(ps) + 2
    BY <1>3
  <2> QED
    BY <1>1, <1>3, <1>5, <2>1
<1>8. ASSUME NEW k \in 1 .. Len(ps) PROVE list[1 + k].kind = "position"
  <2>1. 1 + k \in 1 .. Len(front) /\ front[1 + k] = ps[k]
    BY <1>3
  <2> QED
    BY <1>5, <2>1, NoPosition
<1>9. ASSUME NEW k \in 1 .. Len(list), k # 1, k # Len(ps) + 2
      PROVE  list[k].kind = "position"
  <2>1. k - 1 \in 1 .. Len(ps) /\ 1 + (k - 1) = k
    BY <1>3, <1>5, <1>9
  <2> QED
    BY <1>8, <2>1
<1>10. 1 \in 1 .. Len(list) /\ 1 \in 1 .. (Len(ps) + 2) - 1
  BY <1>3, <1>5
<1>11. Has(list, OrderEvent(i))
  BY <1>7, <1>10 DEF Has
<1>12. \A n : ~Has(list, MarketEvent(n))
  BY <1>7, <1>9 DEF Has, MarketEvent, OrderEvent, TryMatch
<1>13. \A j : Has(list, OrderEvent(j)) => j = i
  BY <1>7, <1>9 DEF Has, OrderEvent, TryMatch
<1>14. ASSUME NEW k \in 1 .. Len(list), list[k].kind = "try_match"
       PROVE  /\ list[k] = TryMatch(m)
              /\ \E j \in 1 .. k - 1 : list[j] = OrderEvent(i)
  <2>1. k = Len(ps) + 2
    BY <1>7, <1>9, <1>14 DEF OrderEvent
  <2> QED
    BY <1>7, <1>10, <2>1
<1> QED
  BY <1>5, <1>6, <1>11, <1>12, <1>13, <1>14
     DEF OneOrderList, list, front, head, tail

LEMMA FeeTokenOfIs ==
  \A o : FeeTokenOf(o) \subseteq {FeeToken}
         /\ (o.lock_fee > 0 => FeeToken \in FeeTokenOf(o))
BY DEF FeeTokenOf

LEMMA FeeTokens ==
  ASSUME NEW ts, IsFiniteSet(ts), NEW o
  PROVE  IsFiniteSet(ts \cup FeeTokenOf(o))
<1>1. IsFiniteSet(ts \cup {FeeToken})
  BY FS_AddElement
<1>2. ts \cup FeeTokenOf(o) \in SUBSET (ts \cup {FeeToken})
  BY FeeTokenOfIs
<1> QED
  BY <1>1, <1>2, FS_Subset

LEMMA CancelAnnounced ==
  ASSUME TypeOK, TypeOK', NEW pid \in Pids, NEW i \in OrderIds,
         CancelOrder(pid, i), inbox' = CancelledEvents(i)
  PROVE  Announced
<1> DEFINE o == orders[i]
           t == OrderToken(o)
           ts == {t} \cup FeeTokenOf(o)
           ps == PositionEvents(o.pid, ts)
           m == o.market_id
<1>1. /\ UNCHANGED <<tokens, markets, trades>>
      /\ CancelledNow(i)
      /\ lock_balance' = Minus(Minus(lock_balance, o.pid, t, o.lock_balance),
                               o.pid, FeeToken, o.lock_fee)
  BY DEF CancelOrder, CancelledNow, listings, Unlocked
<1>2. /\ i \in DOMAIN orders
      /\ DOMAIN orders' = DOMAIN orders
      /\ \A j \in DOMAIN orders : j # i => orders'[j] = orders[j]
      /\ orders'[i].market_id = m /\ orders'[i].status = STATUS_CANCEL
  BY <1>1, CancelledOrders DEF SameTerms
<1>3. /\ o \in OrderType /\ t \in TokenIdxs /\ o.pid \in Pids
      /\ m \in DOMAIN markets /\ FeeToken \in TokenIdxs /\ o.lock_fee \in Nat
  <2>1. o \in OrderType /\ t \in TokenIdxs
    BY <1>2, OrderAt
  <2> HIDE DEF o, t
  <2> QED
    BY <2>1, TokenAssumption DEF OrderType, U64
<1>4. PositionsOf(ps, o.pid, ts)
  <2>1. IsFiniteSet(ts) /\ ts \in SUBSET TokenIdxs
    <3>1. IsFiniteSet(ts)
      BY TwoTokens, FeeTokens
    <3> QED
      BY <1>3, <3>1, FeeTokenOfIs
  <2> HIDE DEF ts, o
  <2> QED
    BY <1>3, <2>1, PositionsAre
<1>5. /\ PositionOf \subseteq EventType' /\ OrderEvent(i) \in EventType'
      /\ TryMatch(m) \in EventType'
  BY <1>1, <1>2, <1>3 DEF EventType
<1>6. inbox' = <<OrderEvent(i)>> \o ps \o <<TryMatch(m)>>
  BY DEF CancelledEvents
<1>7. \A j \in OrderIds : j # i => Stored(orders', j) = Stored(orders, j)
  BY <1>2 DEF Stored
<1>8. ps \in Seq(PositionOf)
  BY <1>4 DEF PositionsOf
<1>9. ASSUME NEW p \in Pids, NEW u \in TokenIdxs, p # o.pid \/ u \notin ts
      PROVE  lock_balance'[p][u] = lock_balance[p][u]
  <2>1. lock_balance \in [Pids -> [TokenIdxs -> U64]]
    BY DEF TypeOK, AccountsType
  <2>2. lock_balance[p][u] \in Nat
    BY <2>1 DEF U64
  <2>3. u = FeeToken /\ p = o.pid => o.lock_fee = 0
    BY <1>3, <1>9, FeeTokenOfIs
  <2> HIDE DEF o, t
  <2> QED
    BY <1>1, <1>3, <1>9, <2>1, <2>2, <2>3 DEF Minus
<1> HIDE DEF ps, m
<1>10. OneOrderList(inbox', ps, i, m, EventType')
  BY <1>5, <1>6, <1>8, CancelledList
<1>11. LocksAnnounced
  <2>1. \A u \in ts : Has(ps, PositionEvent(o.pid, u))
    BY <1>4 DEF PositionsOf
  <2>2. \A u \in ts : Has(inbox', PositionEvent(o.pid, u))
    BY <1>10, <2>1 DEF OneOrderList
  <2> HIDE DEF ts, o
  <2> QED
    BY <1>9, <2>2 DEF LocksAnnounced
<1> HIDE DEF o, ts
<1>12. MatchesAnnounced
  <2>1. orders'[i].market_id = m
    BY <1>2
  <2> QED
    BY <1>10, <2>1, MatchesFollow DEF OneOrderList
<1>13. i \in DOMAIN orders'
  BY <1>2
<1>14. /\ inbox' \in Seq(EventType') /\ Has(inbox', OrderEvent(i))
       /\ \A n : ~Has(inbox', MarketEvent(n))
       /\ \A j : Has(inbox', OrderEvent(j)) => j = i
  BY <1>10 DEF OneOrderList
<1> QED
  BY <1>1, <1>2, <1>7, <1>11, <1>12, <1>13, <1>14, OrderingStep

\* The events of a trade of orders i and j: the positions ps, the market, the
\* trade, the two orders, and then tryMatchOrder.
TradeList(list, ps, i, j, k, m, S) ==
  /\ list \in Seq(S)
  /\ Has(list, MarketEvent(m)) /\ Has(list, TradeEvent(k))
  /\ Has(list, OrderEvent(i)) /\ Has(list, OrderEvent(j))
  /\ \A o : Has(list, OrderEvent(o)) => o \in {i, j}
  /\ \A e : Has(ps, e) => Has(list, e)
  /\ ComesAfterMarket(list, i, m) /\ ComesAfterMarket(list, j, m)
  /\ \A l \in 1 .. Len(list) :
       list[l].kind = "try_match" =>
         /\ list[l] = TryMatch(m)
         /\ \E n \in 1 .. l - 1 : list[n] = OrderEvent(i)

LEMMA TradedList ==
  ASSUME NEW S, NEW ps \in Seq(PositionOf), PositionOf \subseteq S,
         NEW i, NEW j, NEW k, NEW m, MarketEvent(m) \in S, TradeEvent(k) \in S,
         OrderEvent(i) \in S, OrderEvent(j) \in S, TryMatch(m) \in S
  PROVE  TradeList(ps \o <<MarketEvent(m), TradeEvent(k), OrderEvent(i),
                           OrderEvent(j), TryMatch(m)>>, ps, i, j, k, m, S)
<1> DEFINE tail == <<MarketEvent(m), TradeEvent(k), OrderEvent(i),
                     OrderEvent(j), TryMatch(m)>>
           list == ps \o tail
           n == Len(ps)
<1>1. /\ tail \in Seq(S) /\ Len(tail) = 5
      /\ tail[1] = MarketEvent(m) /\ tail[2] = TradeEvent(k)
      /\ tail[3] = OrderEvent(i) /\ tail[4] = OrderEvent(j)
      /\ tail[5] = TryMatch(m)
  OBVIOUS
<1>2. ps \in Seq(S)
  BY SeqMonotonic
<1> HIDE DEF tail
<1>3. /\ list \in Seq(S) /\ Len(list) = n + 5 /\ n \in Nat
      /\ \A l \in 1 .. n : list[l] = ps[l]
      /\ \A l \in 1 .. 5 : list[n + l] = tail[l]
  <2>1. Joined(list, ps, tail, S)
    BY <1>1, <1>2, Concatenated
  <2> HIDE DEF list
  <2> QED
    BY <1>1, <2>1 DEF Joined
<1>4. \A e : Has(ps, e) => Has(list, e)
  BY <1>1, <1>2, HasEither
<1> HIDE DEF list
<1>5. /\ list[n + 1] = MarketEvent(m) /\ list[n + 2] = TradeEvent(k)
      /\ list[n + 3] = OrderEvent(i) /\ list[n + 4] = OrderEvent(j)
      /\ list[n + 5] = TryMatch(m)
  <2>1. 1 \in 1 .. 5 /\ 2 \in 1 .. 5 /\ 3 \in 1 .. 5 /\ 4 \in 1 .. 5 /\ 5 \in 1 .. 5
    OBVIOUS
  <2> QED
    BY <1>1, <1>3, <2>1
<1>6. \A l \in 1 .. n : list[l].kind = "position"
  BY <1>3, NoPosition
<1> HIDE DEF n
<1>7. /\ n + 1 \in 1 .. Len(list) /\ n + 2 \in 1 .. Len(list)
      /\ n + 3 \in 1 .. Len(list) /\ n + 4 \in 1 .. Len(list)
  BY <1>3
<1>8. /\ Has(list, MarketEvent(m)) /\ Has(list, TradeEvent(k))
      /\ Has(list, OrderEvent(i)) /\ Has(list, OrderEvent(j))
  BY <1>5, <1>7 DEF Has
<1>9. ASSUME NEW l \in (n + 2) .. Len(list) PROVE list[l] # MarketEvent(m)
  <2>1. l = n + 2 \/ l = n + 3 \/ l = n + 4 \/ l = n + 5
    <3>1. n \in Nat /\ Len(list) = n + 5
      BY <1>3
    <3> QED
      BY <3>1
  <2>2. /\ list[n + 2].kind # "market" /\ list[n + 3].kind # "market"
        /\ list[n + 4].kind # "market" /\ list[n + 5].kind # "market"
    BY <1>5 DEF TradeEvent, OrderEvent, TryMatch
  <2>3. list[l].kind # "market"
    BY <2>1, <2>2
  <2> QED
    BY <2>3 DEF MarketEvent
<1>10. ComesAfterMarket(list, i, m) /\ ComesAfterMarket(list, j, m)
  <2>1. /\ \A l \in (n + 3) .. Len(list) : l \in (n + 2) .. Len(list)
        /\ \A l \in (n + 4) .. Len(list) : l \in (n + 2) .. Len(list)
    <3>1. n \in Nat /\ Len(list) = n + 5
      BY <1>3
    <3> QED
      BY <3>1
  <2> QED
    BY <1>5, <1>7, <1>9, <2>1 DEF ComesAfterMarket
<1>11. \A l \in 1 .. Len(list) :
         \/ l \in 1 .. n \/ l = n + 1 \/ l = n + 2 \/ l = n + 3 \/ l = n + 4
         \/ l = n + 5
  <2>1. n \in Nat /\ Len(list) = n + 5
    BY <1>3
  <2> QED
    BY <2>1
<1>12. ASSUME NEW l \in 1 .. Len(list), list[l].kind = "try_match"
       PROVE  /\ list[l] = TryMatch(m)
              /\ \E o \in 1 .. l - 1 : list[o] = OrderEvent(i)
  <2>1. /\ list[n + 1].kind # "try_match" /\ list[n + 2].kind # "try_match"
        /\ list[n + 3].kind # "try_match" /\ list[n + 4].kind # "try_match"
    BY <1>5 DEF MarketEvent, TradeEvent, OrderEvent
  <2>2. l \notin 1 .. n
    <3>1. l \in 1 .. n => list[l].kind = "position"
      BY <1>6
    <3> QED
      BY <1>12, <3>1
  <2>3. l # n + 1 /\ l # n + 2 /\ l # n + 3 /\ l # n + 4
    BY <1>12, <2>1
  <2>4. l = n + 5
    BY <1>11, <2>2, <2>3
  <2>5. n + 3 \in 1 .. (n + 5) - 1
    BY <1>3
  <2> QED
    BY <1>5, <2>4, <2>5
<1>13. ASSUME NEW o, Has(list, OrderEvent(o)) PROVE o \in {i, j}
  <2>1. PICK l \in 1 .. Len(list) : list[l] = OrderEvent(o)
    BY <1>13 DEF Has
  <2>2. l = n + 3 \/ l = n + 4
    <3>1. list[l].kind = "order"
      BY <2>1 DEF OrderEvent
    <3>2. list[n + 1].kind # "order" /\ list[n + 2].kind # "order"
          /\ list[n + 5].kind # "order"
      BY <1>5 DEF MarketEvent, TradeEvent, TryMatch
    <3>3. l \in 1 .. n => list[l].kind = "position"
      BY <1>6
    <3> QED
      BY <1>11, <3>1, <3>2, <3>3
  <2> QED
    BY <1>5, <2>1, <2>2 DEF OrderEvent
<1> QED
  BY <1>3, <1>4, <1>8, <1>10, <1>12, <1>13 DEF TradeList, list, tail

\* TryMinus changes one position, and by nothing when it takes nothing.
LEMMA TryMinusElsewhere ==
  ASSUME NEW f \in PositionsType, NEW p \in Pids, NEW t \in TokenIdxs,
         NEW x \in Nat, NEW q \in Pids, NEW u \in TokenIdxs,
         q # p \/ u # t \/ x = 0
  PROVE  TryMinus(f, p, t, x)[q][u] = f[q][u]
<1>1. f[q][u] \in Nat
  BY DEF PositionsType, U64
<1> QED
  BY <1>1 DEF TryMinus, PositionsType

\* A trade changes the locks of its two owners' tokens of the market, and of
\* the fee token when the order's fee is collected.
LEMMA TradeLocksElsewhere ==
  ASSUME TypeOK, NEW i \in DOMAIN orders, NEW j \in DOMAIN orders,
         NEW x \in U64, NEW y \in U64, CanTrade(orders[i], orders[j], x, y),
         NEW p \in Pids, NEW u \in TokenIdxs,
         p = orders[i].pid =>
           /\ u # markets[orders[i].market_id].token_a
           /\ u = FeeToken => orders[i].lock_fee = 0,
         p = orders[j].pid =>
           /\ u # markets[orders[i].market_id].token_b
           /\ u = FeeToken => orders[j].lock_fee = 0
  PROVE  TradeLocks(orders[i], orders[j], markets[orders[i].market_id], x, y)[p][u]
           = lock_balance[p][u]
<1> DEFINE a == orders[i]
           b == orders[j]
           m == markets[orders[i].market_id]
           refund == Refund(Executed(a, x, x, y))
           paid_a == TryMinus(lock_balance, a.pid, m.token_a, x)
           paid_b == TryMinus(paid_a, b.pid, m.token_b, y)
           fee_a == TryMinus(paid_b, a.pid, FeeToken, a.lock_fee)
           fee_b == TryMinus(fee_a, b.pid, FeeToken, b.lock_fee)
<1>1. /\ a \in OrderType /\ b \in OrderType
      /\ m.token_a \in TokenIdxs /\ m.token_b \in TokenIdxs
      /\ a.lock_balance >= x
  BY CanTradeFacts
<1>2. /\ a.pid \in Pids /\ b.pid \in Pids /\ FeeToken \in TokenIdxs
      /\ a.lock_fee \in Nat /\ b.lock_fee \in Nat /\ x \in Nat /\ y \in Nat
  BY <1>1, TokenAssumption DEF OrderType, U64
<1>3. refund \in Nat
  <2> DEFINE e == Executed(a, x, x, y)
  <2>1. e \in OrderType
    BY <1>1, ExecutedType
  <2>2. refund = Refund(e)
    OBVIOUS
  <2> HIDE DEF e, refund
  <2> QED
    BY <2>1, <2>2 DEF Refund, OrderType, U64
<1>4. lock_balance \in PositionsType
  BY DEF TypeOK, AccountsType, PositionsType
<1>5. TradeLocks(a, b, m, x, y) = TryMinus(fee_b, a.pid, m.token_a, refund)
  BY DEF TradeLocks
<1> HIDE DEF a, b, m, refund
<1>6. paid_a \in PositionsType
  BY <1>1, <1>2, <1>4, TryMinusType
<1> HIDE DEF paid_a
<1>7. paid_b \in PositionsType
  BY <1>1, <1>2, <1>6, TryMinusType
<1> HIDE DEF paid_b
<1>8. fee_a \in PositionsType
  BY <1>1, <1>2, <1>7, TryMinusType
<1> HIDE DEF fee_a
<1>9. fee_b \in PositionsType
  BY <1>1, <1>2, <1>8, TryMinusType
<1> HIDE DEF fee_b
<1>10. /\ p # a.pid \/ u # m.token_a
       /\ p # b.pid \/ u # m.token_b
       /\ p # a.pid \/ u # FeeToken \/ a.lock_fee = 0
       /\ p # b.pid \/ u # FeeToken \/ b.lock_fee = 0
  BY DEF a, b, m
<1>11. paid_a[p][u] = lock_balance[p][u]
  BY <1>1, <1>2, <1>4, <1>10, TryMinusElsewhere DEF paid_a
<1>12. paid_b[p][u] = paid_a[p][u]
  BY <1>1, <1>2, <1>6, <1>10, TryMinusElsewhere DEF paid_b
<1>13. fee_a[p][u] = paid_b[p][u]
  BY <1>1, <1>2, <1>7, <1>10, TryMinusElsewhere DEF fee_a
<1>14. fee_b[p][u] = fee_a[p][u]
  BY <1>1, <1>2, <1>8, <1>10, TryMinusElsewhere DEF fee_b
<1>15. TryMinus(fee_b, a.pid, m.token_a, refund)[p][u] = fee_b[p][u]
  BY <1>1, <1>2, <1>3, <1>9, <1>10, TryMinusElsewhere
<1> QED
  BY <1>5, <1>11, <1>12, <1>13, <1>14, <1>15 DEF a, b, m

LEMMA TradeAnnounced ==
  ASSUME TypeOK, TypeOK', NEW i \in OrderIds, NEW j \in OrderIds,
         NEW x \in TradeAmounts, NEW y \in TradeAmounts,
         AddTrade(Admin, i, j, x, y), inbox' = TradedEvents(i, j)
  PROVE  Announced
<1> DEFINE a == orders[i]
           b == orders[j]
           m == a.market_id
           k == Len(trades) + 1
           both == {markets[m].token_a, markets[m].token_b}
           ta == both \cup FeeTokenOf(a)
           tb == both \cup FeeTokenOf(b)
           pa == PositionEvents(a.pid, ta)
           pb == PositionEvents(b.pid, tb)
           ps == pa \o pb
<1>1. TradedNow(i, j, x, y)
  BY TradeIsTraded, PidsAssumption DEF OrderIds
<1>2. /\ i \in DOMAIN orders /\ j \in DOMAIN orders /\ i # j
      /\ CanTrade(a, b, x, y) /\ x \in U64 /\ y \in U64
      /\ trades' = Append(trades, TradeOf(i, j, x, y))
  BY <1>1 DEF TradedNow
<1>3. /\ UNCHANGED tokens
      /\ lock_balance' = TradeLocks(a, b, markets[m], x, y)
      /\ markets' = [markets EXCEPT ![m].last_deal_price = TradePrice(a, b)]
      /\ b.market_id = m
  BY <1>2 DEF AddTrade, CanTrade
<1>4. /\ a \in OrderType /\ b \in OrderType
      /\ markets[m].token_a \in TokenIdxs /\ markets[m].token_b \in TokenIdxs
      /\ a.pid \in Pids /\ b.pid \in Pids
  BY <1>2, CanTradeFacts
<1>5. /\ m \in DOMAIN markets /\ FeeToken \in TokenIdxs
      /\ a.lock_fee \in Nat /\ b.lock_fee \in Nat
  <2> HIDE DEF a, b
  <2> QED
    BY <1>4, TokenAssumption DEF OrderType, U64
<1>6. /\ DOMAIN orders' = DOMAIN orders
      /\ \A o \in DOMAIN orders : o # i /\ o # j => orders'[o] = orders[o]
      /\ orders'[i].market_id = m /\ orders'[j].market_id = m
  BY <1>1, <1>3, TradedEffect DEF Advanced, SameTerms
<1>7. /\ DOMAIN trades' = DOMAIN trades \cup {k}
      /\ \A n \in DOMAIN trades : trades'[n] = trades[n]
      /\ trades'[k] = TradeOf(i, j, x, y) /\ Len(trades') = k
      /\ DOMAIN trades = 1 .. Len(trades) /\ Len(trades) \in Nat
  BY <1>2, TradesAppended
<1>8. PositionsOf(pa, a.pid, ta) /\ PositionsOf(pb, b.pid, tb)
  <2>1. /\ IsFiniteSet(ta) /\ ta \in SUBSET TokenIdxs
        /\ IsFiniteSet(tb) /\ tb \in SUBSET TokenIdxs
    <3>1. IsFiniteSet(both)
      BY TwoTokens
    <3>2. both \subseteq TokenIdxs
      BY <1>4
    <3> HIDE DEF both
    <3>3. IsFiniteSet(ta) /\ IsFiniteSet(tb)
      BY <3>1, FeeTokens
    <3> QED
      BY <1>5, <3>2, <3>3, FeeTokenOfIs
  <2> HIDE DEF ta, tb, a, b
  <2> QED
    BY <1>4, <2>1, PositionsAre
<1>9. inbox' = ps \o <<MarketEvent(m), TradeEvent(k), OrderEvent(i),
                       OrderEvent(j), TryMatch(m)>>
  <2> DEFINE tail == <<MarketEvent(m), TradeEvent(k), OrderEvent(i),
                       OrderEvent(j), TryMatch(m)>>
  <2>1. inbox' = pa \o pb \o tail
    BY DEF TradedEvents
  <2> QED
    BY <2>1
<1> HIDE DEF pa, pb
<1>10. /\ ps \in Seq(PositionOf)
       /\ \A u \in ta : Has(ps, PositionEvent(a.pid, u))
       /\ \A u \in tb : Has(ps, PositionEvent(b.pid, u))
  BY <1>8, HasEither DEF PositionsOf
<1> HIDE DEF ps
<1>11. /\ PositionOf \subseteq EventType'
       /\ MarketEvent(m) \in EventType' /\ TradeEvent(k) \in EventType'
       /\ OrderEvent(i) \in EventType' /\ OrderEvent(j) \in EventType'
       /\ TryMatch(m) \in EventType'
  <2>1. DOMAIN markets' = DOMAIN markets
    BY <1>3
  <2>2. m \in DOMAIN markets' /\ k \in DOMAIN trades'
        /\ i \in DOMAIN orders' /\ j \in DOMAIN orders'
    BY <1>2, <1>5, <1>6, <1>7, <2>1
  <2> HIDE DEF m, k
  <2> QED
    BY <2>2 DEF EventType
<1>12. TradeList(inbox', ps, i, j, k, m, EventType')
  <2> HIDE DEF m, k
  <2> QED
    BY <1>9, <1>10, <1>11, TradedList
<1>13. TokensAnnounced
  BY <1>3 DEF TokensAnnounced
<1>14. MarketsAnnounced
  <2>1. /\ DOMAIN markets' = DOMAIN markets
        /\ \A n \in DOMAIN markets : n # m => markets'[n] = markets[n]
    BY <1>3
  <2>2. Has(inbox', MarketEvent(m))
    BY <1>12 DEF TradeList
  <2> HIDE DEF m
  <2> QED
    BY <1>5, <2>1, <2>2 DEF MarketsAnnounced, Stored
<1>15. OrdersAnnounced
  BY <1>6, <1>12 DEF OrdersAnnounced, Stored, TradeList
<1>16. TradesAnnounced
  <2>1. Has(inbox', TradeEvent(k))
    BY <1>12 DEF TradeList
  <2>2. ASSUME NEW n \in 1 .. MaxTrades, n # k
        PROVE  Stored(trades', n) = Stored(trades, n)
    BY <1>7, <2>2 DEF Stored
  <2> HIDE DEF k
  <2> QED
    BY <2>1, <2>2 DEF TradesAnnounced
<1>17. LocksAnnounced
  <2>1. ASSUME NEW p \in Pids, NEW u \in TokenIdxs,
               p # a.pid \/ u \notin ta, p # b.pid \/ u \notin tb
        PROVE  lock_balance'[p][u] = lock_balance[p][u]
    <3>1. p = a.pid => /\ u # markets[m].token_a
                       /\ u = FeeToken => a.lock_fee = 0
      BY <1>5, <2>1, FeeTokenOfIs
    <3>2. p = b.pid => /\ u # markets[m].token_b
                       /\ u = FeeToken => b.lock_fee = 0
      BY <1>5, <2>1, FeeTokenOfIs
    <3> QED
      BY <1>2, <1>3, <3>1, <3>2, TradeLocksElsewhere
  <2>2. /\ \A u \in ta : Has(inbox', PositionEvent(a.pid, u))
        /\ \A u \in tb : Has(inbox', PositionEvent(b.pid, u))
    BY <1>10, <1>12 DEF TradeList
  <2> HIDE DEF ta, tb, a, b
  <2> QED
    BY <2>1, <2>2 DEF LocksAnnounced
<1>18. MatchesAnnounced
  <2>1. orders'[i].market_id = m
    BY <1>6
  <2> HIDE DEF m
  <2> QED
    BY <1>12, <2>1, MatchesFollow DEF TradeList
<1>19. TradeOrdersAfterMarket
  <2>1. trades'[Len(trades')].a_order_id = i /\ trades'[Len(trades')].b_order_id = j
    BY <1>7 DEF TradeOf
  <2>2. ComesAfterMarket(inbox', i, m) /\ ComesAfterMarket(inbox', j, m)
    BY <1>12 DEF TradeList
  <2> HIDE DEF m
  <2> QED
    BY <1>6, <2>1, <2>2 DEF TradeOrdersAfterMarket
<1>20. inbox' \in Seq(EventType')
  BY <1>12 DEF TradeList
<1>21. ClosedMarketsQuiet
  <2>1. ~is_close(markets[m])
    BY <1>2 DEF CanTrade
  <2>2. /\ DOMAIN markets' = DOMAIN markets
        /\ \A n \in DOMAIN markets : is_close(markets'[n]) => is_close(markets[n])
    <3>1. \A n \in DOMAIN markets : markets[n] \in MarketType
      BY DEF TypeOK, ListingsType
    <3> QED
      BY <1>3, <1>5, <3>1 DEF is_close, MarketType
  <2>3. \A o : Has(inbox', OrderEvent(o)) => orders'[o].market_id = m
    BY <1>6, <1>12 DEF TradeList
  <2> HIDE DEF m
  <2> QED
    BY <2>1, <2>2, <2>3 DEF ClosedMarketsQuiet
<1> QED
  BY <1>13, <1>14, <1>15, <1>16, <1>17, <1>18, <1>19, <1>20, <1>21 DEF Announced

\* The steps of the application, as the service sees them: all but AddTrade and
\* Report, whose amounts the two specifications take from different places.
AppStep ==
  /\ inbox = <<>>
  /\ UNCHANGED <<written, db, msM, listed, crashes>>
  /\ Announced

LEMMA ApplicationSteps ==
  ASSUME TypeOK, TypeOK', Listing \/ Moving \/ Ordering \/ AnyTrade
  PROVE  AppStep
<1>1. inbox = <<>> /\ UNCHANGED <<written, db, msM, listed, crashes>>
  BY DEF Listing, Moving, Ordering, AnyTrade, Report, Emits
<1> SUFFICES Announced
  BY <1>1 DEF AppStep
<1>2. ASSUME NEW pid \in Pids, NEW idx \in TokenIdxs, NEW address \in Addresses,
             AddToken(pid, idx, address) \/ UpdateToken(pid, idx, address),
             Emits(<<TokenEvent(idx)>>)
      PROVE  Announced
  BY <1>2, TokenAnnounced DEF AddToken, UpdateToken, Emits
<1>3. ASSUME NEW pid \in Pids, NEW token_a \in TokenIdxs,
             NEW token_b \in TokenIdxs, NEW price \in Prices,
             AddMarket(pid, token_a, token_b, price),
             Emits(<<MarketEvent(Len(markets) + 1)>>)
      PROVE  Announced
  BY <1>3, AddMarketAnnounced DEF Emits
<1>4. ASSUME NEW pid \in Pids, NEW m \in MarketIds, CloseMarket(pid, m),
             Emits(<<MarketEvent(m)>>)
      PROVE  Announced
  <2>1. inbox' = <<MarketEvent(m)>>
    BY <1>4 DEF Emits
  <2> QED
    BY <1>4, <2>1, CloseMarketAnnounced
<1>5. CASE Listing
  <2>1. CASE \E pid \in Pids, idx \in TokenIdxs, address \in Addresses :
               /\ AddToken(pid, idx, address) \/ UpdateToken(pid, idx, address)
               /\ Emits(<<TokenEvent(idx)>>)
    BY <1>2, <2>1
  <2>2. CASE \E pid \in Pids, token_a, token_b \in TokenIdxs, price \in Prices :
               AddMarket(pid, token_a, token_b, price)
                 /\ Emits(<<MarketEvent(Len(markets) + 1)>>)
    BY <1>3, <2>2
  <2>3. CASE \E pid \in Pids, m \in MarketIds :
               CloseMarket(pid, m) /\ Emits(<<MarketEvent(m)>>)
    BY <1>4, <2>3
  <2> QED
    BY <1>5, <2>1, <2>2, <2>3 DEF Listing
<1>6. CASE Moving
  BY <1>6, MovingAnnounced
<1>7. ASSUME NEW pid \in Pids, NEW m \in MarketIds, NEW flag \in Flags
      PROVE  /\ \A price \in Prices, amount \in LimitAmounts :
                  /\ AddLimitOrder(pid, m, flag, price, amount)
                  /\ Emits(PlacedEvents(TYPE_LIMIT, pid, m, flag,
                                        Len(orders) + 1))
                  => Announced
             /\ \A b_amount, a_amount \in MarketAmounts :
                  /\ AddMarketOrder(pid, m, flag, b_amount, a_amount)
                  /\ Emits(PlacedEvents(TYPE_MARKET, pid, m, flag,
                                        Len(orders) + 1))
                  => Announced
  <2>1. ASSUME NEW price \in Prices, NEW amount \in LimitAmounts,
               AddLimitOrder(pid, m, flag, price, amount),
               Emits(PlacedEvents(TYPE_LIMIT, pid, m, flag, Len(orders) + 1))
        PROVE  Announced
    <3>1. inbox' = PlacedEvents(TYPE_LIMIT, pid, m, flag, Len(orders) + 1)
      BY <2>1 DEF Emits
    <3>2. PICK cost, order :
            /\ m \in DOMAIN markets /\ order.market_id = m
            /\ ~is_close(markets[m])
            /\ PlaceOrder(pid, PayToken(flag, markets[m]), cost, order)
      BY <2>1 DEF AddLimitOrder, CanLoad, NewOrder
    <3>3. PaidWith(TYPE_LIMIT, flag, m) = {PayToken(flag, markets[m])}
      BY DEF PaidWith
    <3> QED
      BY <3>1, <3>2, <3>3, PlaceAnnounced
  <2>2. ASSUME NEW b_amount \in MarketAmounts, NEW a_amount \in MarketAmounts,
               AddMarketOrder(pid, m, flag, b_amount, a_amount),
               Emits(PlacedEvents(TYPE_MARKET, pid, m, flag, Len(orders) + 1))
        PROVE  Announced
    <3> DEFINE cost == MarketCost(flag, markets[m].last_deal_price,
                                  b_amount, a_amount)
    <3>1. inbox' = PlacedEvents(TYPE_MARKET, pid, m, flag, Len(orders) + 1)
      BY <2>2 DEF Emits
    <3>2. PICK order :
            /\ m \in DOMAIN markets /\ order.market_id = m
            /\ ~is_close(markets[m])
            /\ PlaceOrder(pid, PayToken(flag, markets[m]), cost, order)
      BY <2>2 DEF AddMarketOrder, CanLoad, NewOrder
    <3>3. cost = 0 \/ PaidWith(TYPE_MARKET, flag, m) = {PayToken(flag, markets[m])}
      <4>1. CASE flag \in {FLAG_BUY, FLAG_SELL}
        BY <4>1 DEF PaidWith
      <4>2. CASE flag \notin {FLAG_BUY, FLAG_SELL}
        BY <4>2 DEF MarketCost
      <4> QED
        BY <4>1, <4>2
    <3> HIDE DEF cost
    <3> QED
      BY <3>1, <3>2, <3>3, PlaceAnnounced
  <2> QED
    BY <2>1, <2>2
<1>8. ASSUME NEW pid \in Pids, NEW i \in OrderIds, CancelOrder(pid, i),
             Emits(CancelledEvents(i))
      PROVE  Announced
  <2>1. inbox' = CancelledEvents(i)
    BY <1>8 DEF Emits
  <2> QED
    BY <1>8, <2>1, CancelAnnounced
<1>9. CASE Ordering
  <2>1. CASE \E pid \in Pids, m \in MarketIds, flag \in Flags :
               \/ /\ \E price \in Prices, amount \in LimitAmounts :
                       AddLimitOrder(pid, m, flag, price, amount)
                  /\ Emits(PlacedEvents(TYPE_LIMIT, pid, m, flag,
                                        Len(orders) + 1))
               \/ /\ \E b_amount, a_amount \in MarketAmounts :
                       AddMarketOrder(pid, m, flag, b_amount, a_amount)
                  /\ Emits(PlacedEvents(TYPE_MARKET, pid, m, flag,
                                        Len(orders) + 1))
    BY <1>7, <2>1
  <2>2. CASE \E pid \in Pids, i \in OrderIds :
               CancelOrder(pid, i) /\ Emits(CancelledEvents(i))
    BY <1>8, <2>2
  <2> QED
    BY <1>9, <2>1, <2>2 DEF Ordering
<1>10. ASSUME NEW i \in OrderIds, NEW j \in OrderIds, NEW x \in TradeAmounts,
              NEW y \in TradeAmounts, Report(i, j, x, y)
       PROVE  Announced
  <2>1. AddTrade(Admin, i, j, x, y) /\ inbox' = TradedEvents(i, j)
    BY <1>10 DEF Report, Emits
  <2> QED
    BY <2>1, TradeAnnounced
<1>11. CASE AnyTrade
  BY <1>10, <1>11 DEF AnyTrade
<1> QED
  BY <1>5, <1>6, <1>9, <1>11

\* They are steps of Exchange.
LEMMA StepsOfExchange ==
  ASSUME Listing \/ Moving \/ Ordering \/ AnyTrade
  PROVE  Next
<1>1. ASSUME Listing PROVE Next
  BY <1>1 DEF Listing, Next, MarketIds
<1>2. ASSUME Moving PROVE Next
  BY <1>2 DEF Moving, Next
<1>3. ASSUME Ordering PROVE Next
  BY <1>3 DEF Ordering, Next, MarketIds, OrderIds
<1>4. ASSUME AnyTrade PROVE Next
  BY <1>4, PidsAssumption DEF AnyTrade, Report, Next, OrderIds
<1> QED
  BY <1>1, <1>2, <1>3, <1>4

LEMMA ServiceStepsAreSteps ==
  [ServiceNext]_<<vars, service_vars>> => [Next]_vars
<1>1. ASSUME ApplyEvent \/ Restart PROVE UNCHANGED vars
  BY <1>1 DEF ApplyEvent, Restart
<1>2. ASSUME UNCHANGED <<vars, service_vars>> PROVE UNCHANGED vars
  BY <1>2
<1> QED
  BY <1>1, <1>2, StepsOfExchange DEF ServiceNext

-----------------------------------------------------------------------------
(* The invariant that holds in every state, after crashes too.             *)

WithinBounds ==
  Len(markets) <= MaxMarkets /\ Len(orders) <= MaxOrders /\ Len(trades) <= MaxTrades

CollectionsType ==
  /\ DOMAIN db_tokens = TokenIdxs /\ DOMAIN db_markets = MarketIds
  /\ DOMAIN db_orders = OrderIds /\ DOMAIN db_trades = 1 .. MaxTrades
  /\ DOMAIN db_positions = Pids
  /\ \A p \in Pids : DOMAIN db_positions[p] = TokenIdxs
  /\ DOMAIN msM = MarketIds /\ DOMAIN listed = MarketIds
  /\ crashes \in Nat

\* A stored order is an order of the application, perhaps an old version.
DocsAreOrders ==
  \A i \in OrderIds :
    db_orders[i] # NoDoc =>
      /\ i \in DOMAIN orders /\ db_orders[i] \in OrderType
      /\ SameTerms(orders[i], db_orders[i])

InboxType == inbox \in Seq(EventType)

\* tryMatchOrder never meets a market without a matching system: the events
\* before it include an order of the market, which would have thrown.
BooksReady ==
  \A k \in 1 .. Len(inbox) :
    inbox[k].kind = "try_match" =>
      \/ msM[inbox[k].market_id] # NoBook
      \/ \E j \in 1 .. k - 1 :
           /\ inbox[j].kind = "order"
           /\ orders[inbox[j].order_id].market_id = inbox[k].market_id

\* Book b shows stored orders from ids, and all of those that are live.
ShowsStored(b, ids, m, ds) ==
  /\ GoodBook(b)
  /\ \A x \in InBook(b) : x.id \in ids /\ x = BookOrder(x.id, ds[x.id])
  /\ \A i \in ids :
       /\ i \in OrderIds /\ ds[i] # NoDoc /\ ds[i].market_id = m
       /\ OB!isLive(BookOrder(i, ds[i])) /\ HasSide(ds[i])
            => BookOrder(i, ds[i]) \in InBook(b)

\* The book of market m shows the orders as they are stored.
BookShowsDocs(m) ==
  \/ msM[m] = NoBook /\ listed[m] = {}
  \/ ShowsStored(msM[m], listed[m], m, db_orders)

\* Of an order at hand an older version may have been stored.
DocOf(j, d) == j \in DOMAIN orders /\ d \in OrderType /\ SameTerms(orders[j], d)

ShownDocs(ds) ==
  /\ \A j \in OrderIds \ AtHand : ds[j] = db_orders[j]
  /\ \A j \in AtHand : ds[j] # NoDoc => DocOf(j, ds[j])

BookShowsStored(m) ==
  \/ msM[m] = NoBook /\ listed[m] = {}
  \/ \E ds : ShownDocs(ds) /\ ShowsStored(msM[m], listed[m], m, ds)

BooksShowStored == \A m \in MarketIds : BookShowsStored(m)

\* The document that is written before its event is done is the current one.
WrittenDocument ==
  written =>
    LET e == Head(inbox)
    IN  /\ inbox # <<>>
        /\ \/ e.kind = "market" /\ db_markets[e.market_id] = markets[e.market_id]
           \/ e.kind = "order" /\ db_orders[e.order_id] = orders[e.order_id]

ServiceInv ==
  /\ TypeOK /\ WithinBounds /\ CollectionsType /\ DocsAreOrders
  /\ InboxType /\ BooksReady /\ BooksShowStored /\ WrittenDocument

LEMMA BoundsKept ==
  TypeOK /\ TypeOK' /\ WithinBounds /\ [Next]_vars => WithinBounds'
<1> SUFFICES ASSUME TypeOK, TypeOK', WithinBounds, [Next]_vars PROVE WithinBounds'
  OBVIOUS
<1>1. /\ markets \in Seq(MarketType) /\ orders \in Seq(OrderType)
      /\ trades \in Seq(TradeType)
      /\ markets' \in Seq(MarketType') /\ orders' \in Seq(OrderType')
  BY DEF TypeOK, ListingsType
<1>2. /\ DOMAIN markets = 1 .. Len(markets) /\ Len(markets) \in Nat
      /\ DOMAIN markets' = 1 .. Len(markets') /\ Len(markets') \in Nat
      /\ DOMAIN orders = 1 .. Len(orders) /\ Len(orders) \in Nat
      /\ DOMAIN orders' = 1 .. Len(orders') /\ Len(orders') \in Nat
  BY <1>1, LenProperties
<1>3. ASSUME DOMAIN markets' = DOMAIN markets, DOMAIN orders' = DOMAIN orders,
             trades' = trades
      PROVE  WithinBounds'
  BY <1>2, <1>3 DEF WithinBounds
<1>4. CASE \/ \E pid \in Pids : RegisterPlayer(pid)
           \/ \E pid \in Pids, idx \in TokenIdxs, address \in Addresses :
                AddToken(pid, idx, address) \/ UpdateToken(pid, idx, address)
           \/ \E pid \in Pids, idx \in TokenIdxs, amount \in MoveAmounts :
                Withdraw(pid, idx, amount)
           \/ \E signer, pid \in Pids, idx \in TokenIdxs, amount \in MoveAmounts :
                Deposit(signer, pid, idx, amount) \/ Transfer(signer, pid, idx, amount)
           \/ FlushSettlement
           \/ UNCHANGED vars
  <2>1. UNCHANGED <<markets, orders, trades>>
    <3>1. CASE \E pid \in Pids : RegisterPlayer(pid)
      BY <3>1 DEF RegisterPlayer, listings
    <3>2. CASE \E pid \in Pids, idx \in TokenIdxs, address \in Addresses :
                 AddToken(pid, idx, address) \/ UpdateToken(pid, idx, address)
      BY <3>2 DEF AddToken, UpdateToken, StoreToken
    <3>3. CASE \E pid \in Pids, idx \in TokenIdxs, amount \in MoveAmounts :
                 Withdraw(pid, idx, amount)
      BY <3>3 DEF Withdraw, listings
    <3>4. CASE \E signer, pid \in Pids, idx \in TokenIdxs, amount \in MoveAmounts :
                 \/ Deposit(signer, pid, idx, amount)
                 \/ Transfer(signer, pid, idx, amount)
      BY <3>4 DEF Deposit, Transfer, listings
    <3>5. CASE FlushSettlement \/ UNCHANGED vars
      BY <3>5 DEF FlushSettlement, vars, listings
    <3> QED
      BY <1>4, <3>1, <3>2, <3>3, <3>4, <3>5
  <2> QED
    BY <1>3, <2>1
<1>5. ASSUME NEW pid \in Pids, NEW token_a \in TokenIdxs,
             NEW token_b \in TokenIdxs, NEW price \in Prices,
             AddMarket(pid, token_a, token_b, price)
      PROVE  WithinBounds'
  <2> DEFINE market == [status |-> MARKET_STATUS_OPEN,
                        token_a |-> token_a, token_b |-> token_b,
                        last_deal_price |-> price]
  <2>1. /\ UNCHANGED <<orders, trades>> /\ Len(markets) < MaxMarkets
        /\ markets' = Append(markets, market)
    BY <1>5 DEF AddMarket
  <2> HIDE DEF market
  <2>2. Len(markets') = Len(markets) + 1
    BY <1>1, <2>1, AppendProperties
  <2> QED
    BY <1>2, <2>1, <2>2, BoundAssumption DEF WithinBounds
<1>6. CASE \E pid \in Pids, m \in 1 .. MaxMarkets : CloseMarket(pid, m)
  BY <1>3, <1>6 DEF CloseMarket
<1>7. ASSUME NEW pid, NEW t, NEW cost, NEW order, PlaceOrder(pid, t, cost, order)
      PROVE  WithinBounds'
  <2>1. /\ UNCHANGED <<markets, trades>> /\ Len(orders) < MaxOrders
        /\ orders' = Append(orders, order)
    BY <1>7 DEF PlaceOrder, listings
  <2>2. Len(orders') = Len(orders) + 1
    BY <1>1, <2>1, AppendProperties
  <2> QED
    BY <1>2, <2>1, <2>2, BoundAssumption DEF WithinBounds
<1>8. ASSUME NEW pid \in Pids, NEW m \in 1 .. MaxMarkets, NEW flag \in Flags,
             \/ \E price \in Prices, amount \in LimitAmounts :
                  AddLimitOrder(pid, m, flag, price, amount)
             \/ \E b_amount, a_amount \in MarketAmounts :
                  AddMarketOrder(pid, m, flag, b_amount, a_amount)
      PROVE  WithinBounds'
  BY <1>7, <1>8 DEF AddLimitOrder, AddMarketOrder
<1>9. CASE \E pid \in Pids, i \in 1 .. MaxOrders : CancelOrder(pid, i)
  BY <1>3, <1>9 DEF CancelOrder, listings
<1>10. ASSUME NEW signer \in Pids, NEW a_id \in 1 .. MaxOrders,
              NEW b_id \in 1 .. MaxOrders, NEW x \in TradeAmounts,
              NEW y \in TradeAmounts, AddTrade(signer, a_id, b_id, x, y)
       PROVE  WithinBounds'
  <2>1. TradedNow(a_id, b_id, x, y)
    BY <1>10, TradeIsTraded
  <2>2. /\ Len(orders') = Len(orders)
        /\ trades' = Append(trades, TradeOf(a_id, b_id, x, y))
    BY <2>1 DEF TradedNow
  <2>3. Len(trades) < MaxTrades /\ DOMAIN markets' = DOMAIN markets
    BY <1>10 DEF AddTrade
  <2>4. Len(trades') = Len(trades) + 1 /\ Len(trades) \in Nat
    BY <2>2, TradesAppended
  <2> QED
    BY <1>2, <2>2, <2>3, <2>4, BoundAssumption DEF WithinBounds
<1> QED
  BY <1>4, <1>5, <1>6, <1>8, <1>9, <1>10 DEF Next

LEMMA IdsInBounds ==
  ASSUME TypeOK, WithinBounds
  PROVE  /\ DOMAIN markets \subseteq MarketIds /\ DOMAIN orders \subseteq OrderIds
         /\ DOMAIN trades \subseteq 1 .. MaxTrades
<1>1. /\ DOMAIN markets = 1 .. Len(markets) /\ Len(markets) \in Nat
      /\ DOMAIN orders = 1 .. Len(orders) /\ Len(orders) \in Nat
      /\ DOMAIN trades = 1 .. Len(trades) /\ Len(trades) \in Nat
  BY LenProperties DEF TypeOK, ListingsType
<1> QED
  BY <1>1, BoundAssumption DEF WithinBounds, MarketIds, OrderIds

LEMMA ServiceInvInit == ServiceInit => ServiceInv
<1> SUFFICES ASSUME ServiceInit PROVE ServiceInv
  OBVIOUS
<1>1. TypeOK
  BY InitType DEF ServiceInit
<1>2. markets = <<>> /\ orders = <<>> /\ trades = <<>> /\ inbox = <<>>
  BY DEF ServiceInit, EmptyService, Init
<1>3. Len(<<>>) = 0 /\ <<>> \in Seq(EventType)
  BY EmptySeq
<1>4. WithinBounds
  BY <1>2, <1>3, BoundAssumption DEF WithinBounds
<1>5. CollectionsType /\ DocsAreOrders /\ BooksShowStored
  BY DEF ServiceInit, EmptyService, CollectionsType, DocsAreOrders,
         BooksShowStored, BookShowsStored
<1>6. InboxType /\ BooksReady
  BY <1>2, <1>3 DEF InboxType, BooksReady
<1>7. WrittenDocument
  BY DEF ServiceInit, EmptyService, WrittenDocument
<1> QED
  BY <1>1, <1>4, <1>5, <1>6, <1>7 DEF ServiceInv

\* Between two events, and while a market's document is awaited, no order is at
\* hand.
LEMMA NoneAtHand ==
  ASSUME ~written \/ Head(inbox).kind # "order" PROVE AtHand = {}
BY DEF AtHand, OrderEvent

LEMMA ShownNow ==
  ASSUME AtHand = {}, BooksShowStored, NEW m \in MarketIds
  PROVE  BookShowsDocs(m)
<1>1. BookShowsStored(m)
  BY DEF BooksShowStored
<1>2. ASSUME NEW ds, ShownDocs(ds), ShowsStored(msM[m], listed[m], m, ds)
      PROVE  ShowsStored(msM[m], listed[m], m, db_orders)
  <2>1. \A j \in OrderIds : ds[j] = db_orders[j]
    BY <1>2 DEF ShownDocs
  <2>2. \A j \in listed[m] : j \in OrderIds
    BY <1>2 DEF ShowsStored
  <2> QED
    BY <1>2, <2>1, <2>2 DEF ShowsStored
<1> QED
  BY <1>1, <1>2 DEF BookShowsStored, BookShowsDocs

LEMMA ShownThen ==
  ASSUME DocsAreOrders', \A m \in MarketIds : BookShowsDocs(m)'
  PROVE  BooksShowStored'
<1>1. ShownDocs(db_orders)'
  <2>1. \A j \in AtHand' : j \in OrderIds
    BY DEF AtHand
  <2> QED
    BY <2>1 DEF ShownDocs, DocsAreOrders, DocOf
<1> SUFFICES ASSUME NEW m \in MarketIds PROVE BookShowsStored(m)'
  BY DEF BooksShowStored
<1>2. BookShowsDocs(m)'
  OBVIOUS
<1> QED
  BY <1>1, <1>2 DEF BookShowsStored, BookShowsDocs

LEMMA AppKeepsServiceInv ==
  ASSUME ServiceInv, TypeOK', [Next]_vars, AppStep
  PROVE  ServiceInv'
<1>1. /\ TypeOK /\ WithinBounds /\ CollectionsType /\ DocsAreOrders
      /\ BooksShowStored /\ ~written
  BY DEF ServiceInv, AppStep, WrittenDocument
<1>2. UNCHANGED <<db_tokens, db_markets, db_orders, db_trades, db_positions,
                  written, msM, listed, crashes>> /\ Announced
  BY DEF AppStep, db
<1>3. WithinBounds'
  BY <1>1, BoundsKept
<1>4. CollectionsType' /\ WrittenDocument'
  BY <1>1, <1>2 DEF CollectionsType, WrittenDocument
<1>5. InboxType' /\ BooksReady'
  BY <1>2 DEF Announced, MatchesAnnounced, InboxType, BooksReady
<1>6. DocsAreOrders'
  <2>1. \A i \in DOMAIN orders :
          i \in DOMAIN orders' /\ SameTerms(orders[i], orders'[i])
    BY <1>1, EveryStep, TermsKept
  <2>2. OrderType \subseteq OrderType'
    BY <1>2 DEF OrderType, Announced, MarketsAnnounced
  <2> QED
    BY <1>1, <1>2, <2>1, <2>2 DEF DocsAreOrders, SameTerms
<1>7. BooksShowStored'
  <2>1. \A m \in MarketIds : BookShowsDocs(m)
    BY <1>1, NoneAtHand, ShownNow
  <2>2. \A m \in MarketIds : BookShowsDocs(m)'
    BY <1>2, <2>1 DEF BookShowsDocs
  <2> QED
    BY <1>6, <2>2, ShownThen
<1> QED
  BY <1>3, <1>4, <1>5, <1>6, <1>7 DEF ServiceInv

-----------------------------------------------------------------------------
(* The callback.                                                           *)

\* What is left of the events when the first one is done.
LEMMA EventsAfter ==
  ASSUME NEW S, NEW list \in Seq(S), list # <<>>
  PROVE  /\ Len(list) \in Nat /\ 1 \in 1 .. Len(list)
         /\ Head(list) = list[1] /\ Head(list) \in S
         /\ Tail(list) \in Seq(S) /\ Len(Tail(list)) = Len(list) - 1
         /\ \A k \in 1 .. Len(Tail(list)) :
              k + 1 \in 1 .. Len(list) /\ Tail(list)[k] = list[k + 1]
<1>1. Len(list) \in Nat /\ Len(list) # 0
  BY EmptySeq, LenProperties
<1>2. /\ Tail(list) \in Seq(S) /\ Len(Tail(list)) = Len(list) - 1
      /\ Head(list) \in S
      /\ \A k \in 1 .. Len(list) - 1 : Tail(list)[k] = list[k + 1]
  BY HeadTailProperties
<1>3. Head(list) = list[1]
  OBVIOUS
<1> QED
  BY <1>1, <1>2, <1>3

LEMMA HasAfter ==
  ASSUME NEW S, NEW list \in Seq(S), list # <<>>, NEW e, Has(list, e)
  PROVE  e = Head(list) \/ Has(Tail(list), e)
<1>1. /\ Len(list) \in Nat /\ Head(list) = list[1]
      /\ Len(Tail(list)) = Len(list) - 1
      /\ \A k \in 1 .. Len(Tail(list)) : Tail(list)[k] = list[k + 1]
  BY EventsAfter
<1>2. PICK k \in 1 .. Len(list) : list[k] = e
  BY DEF Has
<1>3. CASE k = 1
  BY <1>1, <1>2, <1>3
<1>4. CASE k # 1
  <2> DEFINE j == k - 1
  <2>1. j \in 1 .. Len(Tail(list)) /\ j + 1 = k
    BY <1>1, <1>2, <1>4
  <2> HIDE DEF j
  <2>2. Tail(list)[j] = e
    BY <1>1, <1>2, <2>1
  <2> QED
    BY <2>1, <2>2 DEF Has
<1> QED
  BY <1>3, <1>4

LEMMA HasBefore ==
  ASSUME NEW S, NEW list \in Seq(S), list # <<>>, NEW e, Has(Tail(list), e)
  PROVE  Has(list, e)
<1>1. \A k \in 1 .. Len(Tail(list)) :
        k + 1 \in 1 .. Len(list) /\ Tail(list)[k] = list[k + 1]
  BY EventsAfter
<1>2. PICK k \in 1 .. Len(Tail(list)) : Tail(list)[k] = e
  BY DEF Has
<1>3. k + 1 \in 1 .. Len(list) /\ list[k + 1] = e
  BY <1>1, <1>2
<1> QED
  BY <1>3 DEF Has

\* The kinds of events, and what they name.
EventNames(e) ==
  \/ e.kind = "position" /\ e.pid \in Pids /\ e.token_idx \in TokenIdxs
  \/ e.kind = "token" /\ e.token_idx \in TokenIdxs
  \/ e.kind = "market" /\ e.market_id \in DOMAIN markets
  \/ e.kind = "order" /\ e.order_id \in DOMAIN orders
  \/ e.kind = "trade" /\ e.trade_id \in DOMAIN trades
  \/ e.kind = "try_match" /\ e.market_id \in DOMAIN markets

LEMMA EventKinds == \A e \in EventType : EventNames(e)
<1> SUFFICES ASSUME NEW e \in EventType PROVE EventNames(e)
  OBVIOUS
<1>1. CASE e \in PositionOf
  BY <1>1 DEF PositionOf, PositionEvent, EventNames
<1>2. CASE e \in {TokenEvent(t) : t \in TokenIdxs}
  BY <1>2 DEF TokenEvent, EventNames
<1>3. CASE e \in {MarketEvent(m) : m \in DOMAIN markets}
  BY <1>3 DEF MarketEvent, EventNames
<1>4. CASE e \in {OrderEvent(i) : i \in DOMAIN orders}
  BY <1>4 DEF OrderEvent, EventNames
<1>5. CASE e \in {TradeEvent(k) : k \in DOMAIN trades}
  BY <1>5 DEF TradeEvent, EventNames
<1>6. CASE e \in {TryMatch(m) : m \in DOMAIN markets}
  BY <1>6 DEF TryMatch, EventNames
<1> QED
  BY <1>1, <1>2, <1>3, <1>4, <1>5, <1>6 DEF EventType

\* An event is what it names.
LEMMA EventIs ==
  ASSUME NEW e \in EventType
  PROVE  /\ e.kind = "position" => e = PositionEvent(e.pid, e.token_idx)
         /\ e.kind = "token" => e = TokenEvent(e.token_idx)
         /\ e.kind = "market" => e = MarketEvent(e.market_id)
         /\ e.kind = "order" => e = OrderEvent(e.order_id)
         /\ e.kind = "trade" => e = TradeEvent(e.trade_id)
         /\ e.kind = "try_match" => e = TryMatch(e.market_id)
<1>1. CASE e \in PositionOf
  BY <1>1 DEF PositionOf, PositionEvent
<1>2. CASE e \in {TokenEvent(t) : t \in TokenIdxs}
  BY <1>2 DEF TokenEvent
<1>3. CASE e \in {MarketEvent(m) : m \in DOMAIN markets}
  BY <1>3 DEF MarketEvent
<1>4. CASE e \in {OrderEvent(i) : i \in DOMAIN orders}
  BY <1>4 DEF OrderEvent
<1>5. CASE e \in {TradeEvent(k) : k \in DOMAIN trades}
  BY <1>5 DEF TradeEvent
<1>6. CASE e \in {TryMatch(m) : m \in DOMAIN markets}
  BY <1>6 DEF TryMatch
<1> QED
  BY <1>1, <1>2, <1>3, <1>4, <1>5, <1>6 DEF EventType

\* The events that are still to come stay in the same places.
LEMMA EventsKeep ==
  ASSUME ServiceInv, UNCHANGED vars, inbox # <<>>, inbox' = Tail(inbox),
         \A m \in MarketIds : msM[m] # NoBook => msM'[m] # NoBook,
         Head(inbox).kind = "order" =>
           msM'[orders[Head(inbox).order_id].market_id] # NoBook
  PROVE  InboxType' /\ BooksReady'
<1>1. inbox \in Seq(EventType) /\ UNCHANGED <<markets, orders, trades>>
  BY DEF ServiceInv, InboxType, vars, listings
<1>2. /\ Len(inbox) \in Nat /\ Head(inbox) = inbox[1]
      /\ inbox' \in Seq(EventType) /\ Len(inbox') = Len(inbox) - 1
      /\ \A k \in 1 .. Len(inbox') :
           k + 1 \in 1 .. Len(inbox) /\ inbox'[k] = inbox[k + 1]
  BY <1>1, EventsAfter
<1>3. InboxType'
  BY <1>1, <1>2 DEF InboxType, EventType
<1>4. ASSUME NEW k \in 1 .. Len(inbox'), inbox'[k].kind = "try_match"
      PROVE  \/ msM'[inbox'[k].market_id] # NoBook
             \/ \E j \in 1 .. k - 1 :
                  /\ inbox'[j].kind = "order"
                  /\ orders'[inbox'[j].order_id].market_id = inbox'[k].market_id
  <2> DEFINE m == inbox'[k].market_id
  <2>1. k + 1 \in 1 .. Len(inbox) /\ inbox'[k] = inbox[k + 1]
    BY <1>2
  <2>2. \/ msM[m] # NoBook
        \/ \E j \in 1 .. (k + 1) - 1 :
             /\ inbox[j].kind = "order"
             /\ orders[inbox[j].order_id].market_id = m
    BY <1>4, <2>1 DEF ServiceInv, BooksReady
  <2>3. m \in MarketIds
    <3>1. inbox'[k] \in EventType
      BY <1>2, ElementOfSeq
    <3>2. m \in DOMAIN markets
      BY <1>4, <3>1, EventKinds DEF EventNames
    <3> QED
      BY <3>2, IdsInBounds DEF ServiceInv
  <2>4. CASE msM[m] # NoBook
    BY <2>3, <2>4
  <2>5. ASSUME NEW j \in 1 .. (k + 1) - 1, inbox[j].kind = "order",
               orders[inbox[j].order_id].market_id = m
        PROVE  \/ msM'[m] # NoBook
               \/ \E n \in 1 .. k - 1 :
                    /\ inbox'[n].kind = "order"
                    /\ orders'[inbox'[n].order_id].market_id = m
    <3>1. CASE j = 1
      BY <1>2, <2>5, <3>1
    <3>2. CASE j # 1
      <4> DEFINE n == j - 1
      <4>1. n \in 1 .. k - 1 /\ n \in 1 .. Len(inbox') /\ n + 1 = j
        BY <1>2, <2>5, <3>2
      <4> HIDE DEF n, m
      <4>2. inbox'[n] = inbox[j]
        BY <1>2, <4>1
      <4>3. inbox'[n].kind = "order" /\ orders'[inbox'[n].order_id].market_id = m
        BY <1>1, <2>5, <4>2
      <4> QED
        BY <4>1, <4>3
    <3> QED
      BY <3>1, <3>2
  <2> QED
    BY <2>2, <2>4, <2>5
<1>5. BooksReady'
  BY <1>4 DEF BooksReady
<1> QED
  BY <1>3, <1>5

\* While the document of the first event is written all of them stay.
LEMMA EventsWait ==
  ASSUME ServiceInv, UNCHANGED <<vars, inbox, msM>>
  PROVE  InboxType' /\ BooksReady'
<1>1. UNCHANGED <<markets, orders, trades>>
  BY DEF vars, listings
<1> QED
  BY <1>1 DEF ServiceInv, InboxType, EventType, BooksReady

\* What a book holds of an order.
LEMMA BookOrderIs ==
  ASSUME NEW i \in OrderIds, NEW o \in OrderType
  PROVE  /\ BookOrder(i, o) \in BookOrders /\ BookOrder(i, o).id = i
         /\ HasSide(BookOrder(i, o)) <=> HasSide(o)
         /\ BookOrder(i, o).type_ = o.type_ /\ BookOrder(i, o).flag = o.flag
<1>1. BookOrder(i, o) \in BookOrders
  BY DEF BookOrder, BookOrders, OrderType
<1> QED
  BY <1>1 DEF BookOrder, HasSide

\* Putting an order of the market into its book, as it is stored then.
LEMMA OrderShown ==
  ASSUME NEW b, NEW ids, NEW m, NEW ds, ShowsStored(b, ids, m, ds),
         NEW i \in OrderIds, NEW o \in OrderType, o.market_id = m,
         NEW es, es[i] = o, \A j \in OrderIds : j # i => es[j] = ds[j],
         ds[i] # NoDoc => ds[i].type_ = o.type_ /\ ds[i].flag = o.flag
  PROVE  ShowsStored(OB!upsertOrder(b, BookOrder(i, o)), ids \cup {i}, m, es)
<1> DEFINE x == BookOrder(i, o)
           c == OB!upsertOrder(b, x)
<1>1. /\ GoodBook(b)
      /\ \A y \in InBook(b) : y.id \in ids /\ y = BookOrder(y.id, ds[y.id])
      /\ \A j \in ids :
           /\ j \in OrderIds /\ ds[j] # NoDoc /\ ds[j].market_id = m
           /\ OB!isLive(BookOrder(j, ds[j])) /\ HasSide(ds[j])
                => BookOrder(j, ds[j]) \in InBook(b)
  BY DEF ShowsStored
<1>2. /\ x \in BookOrders /\ x.id = i /\ (HasSide(x) <=> HasSide(o))
      /\ x.type_ = o.type_ /\ x.flag = o.flag
  BY BookOrderIs
<1>3. o # NoDoc
  BY DEF OrderType, NoDoc
<1>4. ASSUME NEW y \in InBook(b), y.id = i
      PROVE  y.type_ = x.type_ /\ y.flag = x.flag /\ HasSide(y)
  <2>1. i \in ids /\ y = BookOrder(i, ds[i]) /\ ds[i] # NoDoc
    BY <1>1, <1>4
  <2>2. y.type_ = ds[i].type_ /\ y.flag = ds[i].flag
    BY <2>1 DEF BookOrder
  <2> QED
    BY <1>1, <1>2, <2>1, <2>2, InBookAreOrders
<1>5. GoodBook(c) /\ InBook(c) = {y \in InBook(b) : y.id # i}
                                   \cup (IF HasSide(o) THEN {x} ELSE {})
  <2>1. CASE HasSide(o)
    <3>1. \A y \in InBook(b) : y.id = x.id => ListOf(y) = ListOf(x)
      BY <1>2, <1>4 DEF ListOf
    <3> HIDE DEF x
    <3> QED
      BY <1>1, <1>2, <2>1, <3>1, UpsertedBook
  <2>2. CASE ~HasSide(o)
    <3>1. c = b
      BY <1>2, <2>2, NotUpserted
    <3>2. \A y \in InBook(b) : y.id # i
      BY <1>2, <1>4, <2>2 DEF HasSide
    <3> HIDE DEF c, x
    <3> QED
      BY <1>1, <2>2, <3>1, <3>2
  <2> QED
    BY <2>1, <2>2
<1> HIDE DEF c
<1>6. ASSUME NEW y \in InBook(c)
      PROVE  y.id \in ids \cup {i} /\ y = BookOrder(y.id, es[y.id])
  <2>1. CASE y = x
    BY <1>2, <2>1
  <2>2. CASE y \in InBook(b) /\ y.id # i
    <3>1. y.id \in ids /\ y = BookOrder(y.id, ds[y.id]) /\ y.id \in OrderIds
      BY <1>1, <2>2
    <3>2. es[y.id] = ds[y.id]
      BY <2>2, <3>1
    <3> QED
      BY <3>1, <3>2
  <2> QED
    BY <1>5, <1>6, <2>1, <2>2
<1>7. ASSUME NEW j \in ids \cup {i}
      PROVE  /\ j \in OrderIds /\ es[j] # NoDoc /\ es[j].market_id = m
             /\ OB!isLive(BookOrder(j, es[j])) /\ HasSide(es[j])
                  => BookOrder(j, es[j]) \in InBook(c)
  <2>1. CASE j = i
    BY <1>3, <1>5, <2>1
  <2>2. CASE j # i
    <3>1. /\ j \in OrderIds /\ ds[j] # NoDoc /\ ds[j].market_id = m
          /\ OB!isLive(BookOrder(j, ds[j])) /\ HasSide(ds[j])
               => BookOrder(j, ds[j]) \in InBook(b)
      BY <1>1, <2>2
    <3>2. es[j] = ds[j]
      BY <2>2, <3>1
    <3>3. BookOrder(j, ds[j]).id = j
      BY DEF BookOrder
    <3>4. BookOrder(j, ds[j]) \in InBook(b) => BookOrder(j, ds[j]) \in InBook(c)
      BY <1>5, <2>2, <3>3
    <3> QED
      BY <3>1, <3>2, <3>4
  <2> QED
    BY <2>1, <2>2
<1> QED
  BY <1>5, <1>6, <1>7 DEF ShowsStored, c, x

\* A book that only holds what can still be matched.
AllWanted(b) == \A x \in InBook(b) : OB!isLive(x) /\ HasSide(x)

\* What a book shows, it shows when the others are taken away.
LEMMA CleanedShown ==
  ASSUME NEW b, NEW ids, NEW m, NEW ds, ShowsStored(b, ids, m, ds)
  PROVE  /\ ShowsStored(OB!tryMatchOrder(b).book, ids, m, ds)
         /\ AllWanted(OB!tryMatchOrder(b).book)
<1> DEFINE c == OB!removeMatchOrder(b)
<1>1. OB!tryMatchOrder(b).book = c
  BY DEF OB!tryMatchOrder
<1>2. GoodBook(c) /\ InBook(c) = {x \in InBook(b) : OB!isLive(x)}
  BY CleanedBook DEF ShowsStored
<1> HIDE DEF c
<1>3. ShowsStored(c, ids, m, ds)
  BY <1>2 DEF ShowsStored
<1>4. AllWanted(c)
  BY <1>2, InBookAreOrders DEF AllWanted
<1> QED
  BY <1>1, <1>3, <1>4

\* A change of another market's order.
LEMMA OtherShown ==
  ASSUME NEW b, NEW ids, NEW m, NEW ds, ShowsStored(b, ids, m, ds),
         NEW es, \A j \in ids : es[j] = ds[j]
  PROVE  ShowsStored(b, ids, m, es)
BY DEF ShowsStored

LEMMA NothingShown ==
  ASSUME NEW m, NEW ds
  PROVE  ShowsStored(OB!EmptyBook, {}, m, ds)
BY NewBook DEF ShowsStored

\* What the application has does not change in the callback.
LEMMA RecordsFrame ==
  ASSUME TypeOK, WithinBounds, UNCHANGED vars
  PROVE  TypeOK' /\ WithinBounds' /\ UNCHANGED <<tokens, markets, orders, trades>>
<1>1. UNCHANGED <<accounts, listings, orders, trades, settlement, counter,
                  total_fee, event_id_counter, history>>
  BY DEF vars
<1>2. TypeOK'
  BY NextType
<1>3. UNCHANGED <<tokens, markets, orders, trades>>
  BY <1>1 DEF listings
<1> QED
  BY <1>2, <1>3 DEF WithinBounds

\* Documents and books that an event does not touch.
LEMMA BooksFrame2 ==
  ASSUME ServiceInv, UNCHANGED <<vars, written, db_orders, msM, listed, crashes>>,
         inbox # <<>>, inbox' = Tail(inbox),
         Head(inbox).kind \notin {"market", "order"},
         DOMAIN db_tokens' = DOMAIN db_tokens,
         DOMAIN db_markets' = DOMAIN db_markets,
         DOMAIN db_trades' = DOMAIN db_trades,
         DOMAIN db_positions' = DOMAIN db_positions,
         \A p \in Pids : DOMAIN db_positions'[p] = DOMAIN db_positions[p]
  PROVE  ServiceInv'
<1>1. TypeOK' /\ WithinBounds' /\ UNCHANGED <<tokens, markets, orders, trades>>
  BY RecordsFrame DEF ServiceInv
<1>2. InboxType' /\ BooksReady'
  BY EventsKeep
<1>3. ~written
  BY DEF ServiceInv, WrittenDocument
<1>4. CollectionsType' /\ WrittenDocument'
  BY <1>3 DEF ServiceInv, CollectionsType, WrittenDocument
<1>5. DocsAreOrders'
  BY <1>1 DEF ServiceInv, DocsAreOrders, OrderType
<1>6. \A m \in MarketIds : BookShowsDocs(m)
  BY <1>3, NoneAtHand, ShownNow DEF ServiceInv
<1>7. BooksShowStored'
  BY <1>5, <1>6, ShownThen DEF BookShowsDocs
<1> QED
  BY <1>1, <1>2, <1>4, <1>5, <1>7 DEF ServiceInv

LEMMA PositionKeepsServiceInv ==
  ASSUME ServiceInv, UNCHANGED <<vars, crashes>>, inbox # <<>>,
         Head(inbox).kind = "position", NEW p, NEW t, ApplyPosition(p, t)
  PROVE  ServiceInv'
<1>1. /\ UNCHANGED <<written, db_tokens, db_markets, db_orders, db_trades,
                     msM, listed>>
      /\ inbox' = Tail(inbox)
      /\ DOMAIN db_positions' = DOMAIN db_positions
      /\ \A q \in Pids : DOMAIN db_positions'[q] = DOMAIN db_positions[q]
  BY DEF ApplyPosition, ServiceInv, CollectionsType
<1> QED
  BY <1>1, BooksFrame2

LEMMA TokenKeepsServiceInv ==
  ASSUME ServiceInv, UNCHANGED <<vars, crashes>>, inbox # <<>>,
         Head(inbox).kind = "token", NEW t, ApplyToken(t)
  PROVE  ServiceInv'
<1>1. /\ UNCHANGED <<written, db_markets, db_orders, db_trades, db_positions,
                     msM, listed>>
      /\ inbox' = Tail(inbox) /\ DOMAIN db_tokens' = DOMAIN db_tokens
  BY DEF ApplyToken
<1> QED
  BY <1>1, BooksFrame2

LEMMA TradeKeepsServiceInv ==
  ASSUME ServiceInv, UNCHANGED <<vars, crashes>>, inbox # <<>>,
         Head(inbox).kind = "trade", NEW k, ApplyTrade(k)
  PROVE  ServiceInv'
<1>1. /\ UNCHANGED <<written, db_tokens, db_markets, db_orders, db_positions,
                     msM, listed>>
      /\ inbox' = Tail(inbox) /\ DOMAIN db_trades' = DOMAIN db_trades
  BY DEF ApplyTrade
<1> QED
  BY <1>1, BooksFrame2

LEMMA StoreMarketKeepsServiceInv ==
  ASSUME ServiceInv, UNCHANGED <<vars, crashes>>, inbox # <<>>,
         Head(inbox).kind = "market", NEW m \in DOMAIN markets,
         m = Head(inbox).market_id, StoreMarket(m)
  PROVE  ServiceInv'
<1>1. TypeOK' /\ WithinBounds' /\ UNCHANGED <<tokens, markets, orders, trades>>
  BY RecordsFrame DEF ServiceInv
<1>2. /\ UNCHANGED <<inbox, db_tokens, db_orders, db_trades, db_positions,
                     msM, listed>>
      /\ DOMAIN db_markets' = DOMAIN db_markets
      /\ db_markets'[m] = markets[m]
  <2>1. m \in DOMAIN db_markets
    BY IdsInBounds DEF ServiceInv, CollectionsType
  <2> QED
    BY <2>1 DEF StoreMarket
<1>3. InboxType' /\ BooksReady'
  BY <1>2, EventsWait
<1>4. CollectionsType' /\ WrittenDocument'
  BY <1>1, <1>2 DEF ServiceInv, CollectionsType, WrittenDocument
<1>5. DocsAreOrders'
  BY <1>1, <1>2 DEF ServiceInv, DocsAreOrders, OrderType
<1>6. \A n \in MarketIds : BookShowsDocs(n)
  BY NoneAtHand, ShownNow DEF ServiceInv
<1>7. BooksShowStored'
  BY <1>2, <1>5, <1>6, ShownThen DEF BookShowsDocs
<1> QED
  BY <1>1, <1>3, <1>4, <1>5, <1>7 DEF ServiceInv

LEMMA OpenBookKeepsServiceInv ==
  ASSUME ServiceInv, UNCHANGED <<vars, crashes>>, inbox # <<>>,
         Head(inbox).kind = "market", NEW m \in DOMAIN markets, OpenBook(m)
  PROVE  ServiceInv'
<1>1. TypeOK' /\ WithinBounds' /\ UNCHANGED <<tokens, markets, orders, trades>>
  BY RecordsFrame DEF ServiceInv
<1>2. m \in MarketIds /\ DOMAIN msM = MarketIds /\ DOMAIN listed = MarketIds
  BY IdsInBounds DEF ServiceInv, CollectionsType
<1>3. /\ UNCHANGED <<db_tokens, db_markets, db_orders, db_trades, db_positions>>
      /\ inbox' = Tail(inbox) /\ ~written'
      /\ DOMAIN msM' = MarketIds /\ DOMAIN listed' = MarketIds
      /\ msM'[m] = OB!EmptyBook /\ listed'[m] = {}
      /\ \A n \in MarketIds : n # m => msM'[n] = msM[n] /\ listed'[n] = listed[n]
  BY <1>2 DEF OpenBook, db
<1>4. OB!EmptyBook # NoBook
  BY NewBook, ABookIsABook
<1>5. InboxType' /\ BooksReady'
  BY <1>3, <1>4, EventsKeep
<1>6. CollectionsType' /\ WrittenDocument'
  BY <1>3 DEF ServiceInv, CollectionsType, WrittenDocument
<1>7. DocsAreOrders'
  BY <1>1, <1>3 DEF ServiceInv, DocsAreOrders, OrderType
<1>8. \A n \in MarketIds : BookShowsDocs(n)
  BY NoneAtHand, ShownNow DEF ServiceInv
<1>9. BooksShowStored'
  BY <1>3, <1>7, <1>8, NothingShown, ShownThen DEF BookShowsDocs
<1> QED
  BY <1>1, <1>5, <1>6, <1>7, <1>9 DEF ServiceInv

LEMMA TryMatchKeepsServiceInv ==
  ASSUME ServiceInv, UNCHANGED <<vars, crashes>>, inbox # <<>>,
         Head(inbox).kind = "try_match", NEW m, m = Head(inbox).market_id,
         ApplyTryMatch(m)
  PROVE  ServiceInv'
<1>1. TypeOK' /\ WithinBounds' /\ UNCHANGED <<tokens, markets, orders, trades>>
  BY RecordsFrame DEF ServiceInv
<1>2. /\ 1 \in 1 .. Len(inbox) /\ inbox[1] = Head(inbox)
      /\ Head(inbox) \in EventType
  BY EventsAfter DEF ServiceInv, InboxType
<1>3. m \in MarketIds
  <2>1. m \in DOMAIN markets
    BY <1>2, EventKinds DEF EventNames
  <2> QED
    BY <2>1, IdsInBounds DEF ServiceInv
<1>4. msM[m] # NoBook
  <2>1. ~\E j \in 1 .. 1 - 1 : TRUE
    OBVIOUS
  <2> QED
    BY <1>2, <2>1 DEF ServiceInv, BooksReady
<1>5. /\ ShowsStored(msM[m], listed[m], m, db_orders)
      /\ \A n \in MarketIds : BookShowsDocs(n)
  <2>1. \A n \in MarketIds : BookShowsDocs(n)
    BY NoneAtHand, ShownNow DEF ServiceInv
  <2> QED
    BY <1>3, <1>4, <2>1 DEF BookShowsDocs
<1>6. /\ UNCHANGED <<db_tokens, db_markets, db_orders, db_trades, db_positions,
                     listed>>
      /\ inbox' = Tail(inbox) /\ ~written'
      /\ DOMAIN msM' = MarketIds
      /\ msM'[m] = OB!tryMatchOrder(msM[m]).book
      /\ \A n \in MarketIds : n # m => msM'[n] = msM[n]
  BY <1>3 DEF ApplyTryMatch, ServiceInv, CollectionsType, WrittenDocument, db
<1>7. ShowsStored(msM'[m], listed[m], m, db_orders)
  BY <1>5, <1>6, CleanedShown
<1>8. msM'[m] # NoBook
  BY <1>7, ABookIsABook DEF ShowsStored
<1>9. InboxType' /\ BooksReady'
  BY <1>6, <1>8, EventsKeep
<1>10. CollectionsType' /\ WrittenDocument'
  BY <1>6 DEF ServiceInv, CollectionsType, WrittenDocument
<1>11. DocsAreOrders'
  BY <1>1, <1>6 DEF ServiceInv, DocsAreOrders, OrderType
<1>12. BooksShowStored'
  BY <1>5, <1>6, <1>7, <1>11, ShownThen DEF BookShowsDocs
<1> QED
  BY <1>1, <1>9, <1>10, <1>11, <1>12 DEF ServiceInv

LEMMA StoreOrderKeepsServiceInv ==
  ASSUME ServiceInv, UNCHANGED <<vars, crashes>>, inbox # <<>>,
         Head(inbox).kind = "order", NEW i \in DOMAIN orders,
         i = Head(inbox).order_id, StoreOrder(i)
  PROVE  ServiceInv'
<1>1. TypeOK' /\ WithinBounds' /\ UNCHANGED <<tokens, markets, orders, trades>>
  BY RecordsFrame DEF ServiceInv
<1>2. orders[i] \in OrderType /\ i \in OrderIds
  BY OrderAt, IdsInBounds DEF ServiceInv
<1>3. /\ UNCHANGED <<inbox, db_tokens, db_markets, db_trades, db_positions,
                     msM, listed>>
      /\ ~written /\ written'
      /\ DOMAIN db_orders' = OrderIds /\ db_orders'[i] = orders[i]
      /\ \A j \in OrderIds : j # i => db_orders'[j] = db_orders[j]
  BY <1>2 DEF StoreOrder, ServiceInv, CollectionsType
<1>4. DocsAreOrders'
  <2> SUFFICES ASSUME NEW j \in OrderIds, db_orders'[j] # NoDoc
               PROVE  /\ j \in DOMAIN orders /\ db_orders'[j] \in OrderType
                      /\ SameTerms(orders[j], db_orders'[j])
    BY <1>1 DEF DocsAreOrders, OrderType, SameTerms
  <2>1. CASE j = i
    BY <1>2, <1>3, <2>1 DEF SameTerms
  <2>2. CASE j # i
    BY <1>3, <2>2 DEF ServiceInv, DocsAreOrders
  <2> QED
    BY <2>1, <2>2
<1>5. InboxType' /\ BooksReady'
  BY <1>3, EventsWait
<1>6. CollectionsType' /\ WrittenDocument'
  BY <1>1, <1>3 DEF ServiceInv, CollectionsType, WrittenDocument
<1>7. AtHand' = {i}
  <2>1. Head(inbox) = OrderEvent(i)
    BY EventsAfter, EventIs DEF ServiceInv, InboxType
  <2>2. \A j : OrderEvent(j) = OrderEvent(i) => j = i
    BY DEF OrderEvent
  <2> QED
    BY <1>2, <1>3, <2>1, <2>2 DEF AtHand
\* The books show the documents of before.
<1>8. ASSUME NEW ds, ds = db_orders, NEW m \in MarketIds
      PROVE  BookShowsStored(m)'
  <2>1. BookShowsDocs(m)
    BY <1>3, NoneAtHand, ShownNow DEF ServiceInv
  <2>2. ShownDocs(ds)'
    <3>1. \A j \in OrderIds \ AtHand' : ds[j] = db_orders'[j]
      BY <1>3, <1>7, <1>8
    <3>2. ds[i] # NoDoc => DocOf(i, ds[i])'
      BY <1>1, <1>2, <1>8 DEF ServiceInv, DocsAreOrders, DocOf, OrderType, SameTerms
    <3> QED
      BY <1>7, <3>1, <3>2 DEF ShownDocs
  <2>3. \/ msM'[m] = NoBook /\ listed'[m] = {}
        \/ ShowsStored(msM'[m], listed'[m], m, ds)
    BY <1>3, <1>8, <2>1 DEF BookShowsDocs
  <2> QED
    BY <2>2, <2>3 DEF BookShowsStored
<1>9. BooksShowStored'
  BY <1>8 DEF BooksShowStored
<1> QED
  BY <1>1, <1>4, <1>5, <1>6, <1>9 DEF ServiceInv

LEMMA ListOrderKeepsServiceInv ==
  ASSUME ServiceInv, UNCHANGED <<vars, crashes>>, inbox # <<>>,
         Head(inbox).kind = "order", NEW i \in DOMAIN orders,
         i = Head(inbox).order_id, ListOrder(i),
         NEW m, m = orders[i].market_id
  PROVE  ServiceInv'
<1>1. TypeOK' /\ WithinBounds' /\ UNCHANGED <<tokens, markets, orders, trades>>
  BY RecordsFrame DEF ServiceInv
<1>2. /\ orders[i] \in OrderType /\ i \in OrderIds
      /\ DOMAIN markets \subseteq MarketIds
  BY OrderAt, IdsInBounds DEF ServiceInv
<1>3. m \in MarketIds
  BY <1>2 DEF OrderType
<1>4. /\ UNCHANGED <<db_tokens, db_markets, db_orders, db_trades, db_positions>>
      /\ written /\ ~written' /\ db_orders[i] = orders[i]
  BY DEF ListOrder, db, ServiceInv, WrittenDocument
<1>5. DocsAreOrders'
  BY <1>1, <1>4 DEF ServiceInv, DocsAreOrders, OrderType
<1>6. DOMAIN msM = MarketIds /\ DOMAIN listed = MarketIds
  BY DEF ServiceInv, CollectionsType
<1>7. AtHand = {i}
  <2>1. Head(inbox) = OrderEvent(i)
    BY EventsAfter, EventIs DEF ServiceInv, InboxType
  <2>2. \A j : OrderEvent(j) = OrderEvent(i) => j = i
    BY DEF OrderEvent
  <2> QED
    BY <1>2, <1>4, <2>1, <2>2 DEF AtHand
<1>8. ASSUME NEW ds, ShownDocs(ds)
      PROVE  /\ \A j \in OrderIds : j # i => db_orders[j] = ds[j]
             /\ ds[i] # NoDoc => /\ ds[i].type_ = orders[i].type_
                                 /\ ds[i].flag = orders[i].flag
                                 /\ ds[i].market_id = orders[i].market_id
  BY <1>7, <1>8 DEF ShownDocs, DocOf, SameTerms
\* The books of the other markets do not have the order.
<1>9. ASSUME NEW n \in MarketIds, n # m, msM'[n] = msM[n], listed'[n] = listed[n]
      PROVE  BookShowsDocs(n)'
  <2>1. CASE msM[n] = NoBook /\ listed[n] = {}
    BY <1>9, <2>1 DEF BookShowsDocs
  <2>2. ASSUME NEW ds, ShownDocs(ds), ShowsStored(msM[n], listed[n], n, ds)
        PROVE  BookShowsDocs(n)'
    <3>1. \A j \in listed[n] : j \in OrderIds /\ j # i
      BY <1>8, <1>9, <2>2 DEF ShowsStored
    <3>2. ShowsStored(msM[n], listed[n], n, db_orders)
      BY <1>8, <2>2, <3>1, OtherShown
    <3> QED
      BY <1>4, <1>9, <3>2 DEF BookShowsDocs
  <2> QED
    BY <2>1, <2>2 DEF ServiceInv, BooksShowStored, BookShowsStored
<1>10. WrittenDocument'
  BY <1>4 DEF WrittenDocument
<1>11. BookShowsStored(m)
  BY <1>3 DEF ServiceInv, BooksShowStored
<1>12. CASE msM[m] = NoBook
  <2>1. inbox' = <<>> /\ UNCHANGED <<msM, listed>>
    BY <1>12 DEF ListOrder
  <2>2. Len(<<>>) = 0 /\ <<>> \in Seq(EventType')
    BY EmptySeq
  <2>3. InboxType' /\ BooksReady'
    BY <2>1, <2>2 DEF InboxType, BooksReady
  <2>4. listed[m] = {}
    BY <1>11, <1>12, ABookIsABook DEF BookShowsStored, ShowsStored
  <2>5. BookShowsDocs(m)'
    BY <1>12, <2>1, <2>4 DEF BookShowsDocs
  <2>6. BooksShowStored'
    BY <1>5, <1>9, <2>1, <2>5, ShownThen
  <2>7. CollectionsType'
    BY <1>4, <1>6, <2>1 DEF ServiceInv, CollectionsType
  <2> QED
    BY <1>1, <1>5, <1>10, <2>3, <2>6, <2>7 DEF ServiceInv
<1>13. CASE msM[m] # NoBook
  <2>1. PICK ds : ShownDocs(ds) /\ ShowsStored(msM[m], listed[m], m, ds)
    BY <1>11, <1>13 DEF BookShowsStored
  <2>2. /\ inbox' = Tail(inbox)
        /\ DOMAIN msM' = MarketIds /\ DOMAIN listed' = MarketIds
        /\ msM'[m] = OB!upsertOrder(msM[m], BookOrder(i, orders[i]))
        /\ listed'[m] = listed[m] \cup {i}
        /\ \A n \in MarketIds : n # m => msM'[n] = msM[n] /\ listed'[n] = listed[n]
    BY <1>3, <1>6, <1>13 DEF ListOrder
  <2>3. ShowsStored(msM'[m], listed'[m], m, db_orders)
    BY <1>2, <1>4, <1>8, <2>1, <2>2, OrderShown
  <2>4. msM'[m] # NoBook
    BY <2>3, ABookIsABook DEF ShowsStored
  <2>5. InboxType' /\ BooksReady'
    BY <2>2, <2>4, EventsKeep
  <2>6. BookShowsDocs(m)'
    BY <1>4, <2>3 DEF BookShowsDocs
  <2>7. BooksShowStored'
    BY <1>5, <1>9, <2>2, <2>6, ShownThen
  <2>8. CollectionsType'
    BY <1>4, <2>2 DEF ServiceInv, CollectionsType
  <2> QED
    BY <1>1, <1>5, <1>10, <2>5, <2>7, <2>8 DEF ServiceInv
<1> QED
  BY <1>12, <1>13

\* The head of the inbox, its kind and its step.
LEMMA ApplyKinds ==
  ASSUME ServiceInv, ApplyEvent
  PROVE  LET e == Head(inbox)
         IN  /\ inbox # <<>> /\ UNCHANGED <<vars, serving, crashes>> /\ EventNames(e)
             /\ \/ e.kind = "position" /\ ApplyPosition(e.pid, e.token_idx)
                \/ e.kind = "token" /\ ApplyToken(e.token_idx)
                \/ e.kind = "market" /\ StoreMarket(e.market_id)
                \/ e.kind = "market" /\ OpenBook(e.market_id)
                \/ e.kind = "order" /\ StoreOrder(e.order_id)
                \/ e.kind = "order" /\ ListOrder(e.order_id)
                \/ e.kind = "trade" /\ ApplyTrade(e.trade_id)
                \/ e.kind = "try_match" /\ ApplyTryMatch(e.market_id)
<1>1. inbox # <<>> /\ inbox \in Seq(EventType)
  BY DEF ApplyEvent, ServiceInv, InboxType
<1>2. Head(inbox) \in EventType
  BY <1>1, EventsAfter
<1>3. EventNames(Head(inbox))
  BY <1>2, EventKinds
<1> QED
  BY <1>1, <1>3 DEF ApplyEvent

LEMMA ApplyKeepsServiceInv ==
  ASSUME ServiceInv, ApplyEvent PROVE ServiceInv'
<1> DEFINE e == Head(inbox)
<1>1. inbox # <<>> /\ UNCHANGED <<vars, crashes>> /\ EventNames(e)
  BY ApplyKinds
<1>2. CASE e.kind = "position" /\ ApplyPosition(e.pid, e.token_idx)
  BY <1>1, <1>2, PositionKeepsServiceInv
<1>3. CASE e.kind = "token" /\ ApplyToken(e.token_idx)
  BY <1>1, <1>3, TokenKeepsServiceInv
<1>4. CASE e.kind = "market" /\ (StoreMarket(e.market_id) \/ OpenBook(e.market_id))
  <2>1. e.market_id \in DOMAIN markets
    BY <1>1, <1>4 DEF EventNames
  <2>2. CASE StoreMarket(e.market_id)
    BY <1>1, <1>4, <2>1, <2>2, StoreMarketKeepsServiceInv
  <2>3. CASE OpenBook(e.market_id)
    BY <1>1, <1>4, <2>1, <2>3, OpenBookKeepsServiceInv
  <2> QED
    BY <1>4, <2>2, <2>3
<1>5. CASE e.kind = "order" /\ (StoreOrder(e.order_id) \/ ListOrder(e.order_id))
  <2>1. e.order_id \in DOMAIN orders
    BY <1>1, <1>5 DEF EventNames
  <2>2. CASE StoreOrder(e.order_id)
    BY <1>1, <1>5, <2>1, <2>2, StoreOrderKeepsServiceInv
  <2>3. CASE ListOrder(e.order_id)
    <3>1. PICK m : m = orders[e.order_id].market_id
      OBVIOUS
    <3> QED
      BY <1>1, <1>5, <2>1, <2>3, <3>1, ListOrderKeepsServiceInv
  <2> QED
    BY <1>5, <2>2, <2>3
<1>6. CASE e.kind = "trade" /\ ApplyTrade(e.trade_id)
  BY <1>1, <1>6, TradeKeepsServiceInv
<1>7. CASE e.kind = "try_match" /\ ApplyTryMatch(e.market_id)
  BY <1>1, <1>7, TryMatchKeepsServiceInv
<1> QED
  BY <1>2, <1>3, <1>4, <1>5, <1>6, <1>7, ApplyKinds

-----------------------------------------------------------------------------
(* The start after a crash.                                                *)

\* The books that Loaded goes through.
LoadedFrom(list) ==
  CHOOSE h :
    h = [n \in 0 .. Len(list) |->
           IF n = 0 THEN OB!EmptyBook
           ELSE OB!upsertOrder(h[n - 1], BookOrder(list[n], db_orders[list[n]]))]

LEMMA LoadedEquation ==
  ASSUME NEW list, Len(list) \in Nat
  PROVE  /\ Loaded(list) = OB!tryMatchOrder(LoadedFrom(list)[Len(list)])
         /\ \A n \in 0 .. Len(list) :
              LoadedFrom(list)[n] =
                IF n = 0 THEN OB!EmptyBook
                ELSE OB!upsertOrder(LoadedFrom(list)[n - 1],
                                    BookOrder(list[n], db_orders[list[n]]))
<1> DEFINE x(n) == BookOrder(list[n], db_orders[list[n]])
           Seg(m, h) ==
      h = [n \in 0 .. m |-> IF n = 0 THEN OB!EmptyBook
                            ELSE OB!upsertOrder(h[n - 1], x(n))]
<1>1. \A m \in Nat : \E h : Seg(m, h)
  <2> DEFINE S == {m \in Nat : \E h : Seg(m, h)}
  <2>1. 0 \in S
    <3>1. Seg(0, [n \in 0 .. 0 |-> OB!EmptyBook])
      OBVIOUS
    <3> QED
      BY <3>1
  <2>2. ASSUME NEW m \in Nat, m \in S PROVE m + 1 \in S
    <3>1. PICK h : Seg(m, h)
      BY <2>2
    <3> DEFINE last == OB!upsertOrder(h[m], x(m + 1))
               g == [n \in 0 .. m + 1 |-> IF n <= m THEN h[n] ELSE last]
    <3> HIDE DEF x
    <3>2. \A n \in 0 .. m :
            h[n] = IF n = 0 THEN OB!EmptyBook
                   ELSE OB!upsertOrder(h[n - 1], x(n))
      BY <3>1
    <3>3. ASSUME NEW n \in 0 .. m + 1
          PROVE  g[n] = IF n = 0 THEN OB!EmptyBook
                        ELSE OB!upsertOrder(g[n - 1], x(n))
      <4>1. CASE n = m + 1
        BY <4>1
      <4>2. CASE n \in 0 .. m
        BY <3>2, <4>2
      <4> QED
        BY <4>1, <4>2
    <3>4. Seg(m + 1, g)
      BY <3>3
    <3>5. \E h1 : Seg(m + 1, h1)
      <4> HIDE DEF Seg, g
      <4> QED
        BY <3>4
    <3> QED
      BY <3>5
  <2> QED
    BY <2>1, <2>2, NatSetInduction
<1>2. \E h : Seg(Len(list), h)
  <2> HIDE DEF Seg
  <2> QED
    BY <1>1
<1>3. LoadedFrom(list) = CHOOSE h : Seg(Len(list), h)
  BY DEF LoadedFrom
<1>4. Seg(Len(list), CHOOSE h : Seg(Len(list), h))
  <2> HIDE DEF Seg
  <2> QED
    BY <1>2
<1>5. Loaded(list) = OB!tryMatchOrder(LoadedFrom(list)[Len(list)])
  BY DEF Loaded, LoadedFrom
<1>6. Seg(Len(list), LoadedFrom(list))
  <2> HIDE DEF Seg
  <2> QED
    BY <1>3, <1>4
<1> DEFINE f == LoadedFrom(list)
<1> HIDE DEF f, x
<1>7. \A n \in 0 .. Len(list) :
        f[n] = IF n = 0 THEN OB!EmptyBook ELSE OB!upsertOrder(f[n - 1], x(n))
  BY <1>6 DEF f
<1> QED
  BY <1>5, <1>7 DEF f, x

LEMMA StoredLiveAre ==
  ASSUME ServiceInv, NEW m, NEW i \in StoredLive(m)
  PROVE  /\ i \in OrderIds /\ db_orders[i] # NoDoc /\ db_orders[i] \in OrderType
         /\ db_orders[i].market_id = m /\ is_live(db_orders[i])
BY DEF StoredLive, ServiceInv, DocsAreOrders

LEMMA FoundAre ==
  ASSUME NEW m, NEW list \in Found(m)
  PROVE  /\ Len(list) \in Nat
         /\ \A k \in 1 .. Len(list) : list[k] \in StoredLive(m)
         /\ StoredLive(m) = {list[k] : k \in 1 .. Len(list)}
<1> DEFINE n == Cardinality(StoredLive(m))
<1>1. n \in Nat
  <2>1. StoredLive(m) \in SUBSET OrderIds
    BY DEF StoredLive
  <2>2. IsFiniteSet(OrderIds)
    <3>1. 1 \in Int /\ MaxOrders \in Int
      BY BoundAssumption
    <3> QED
      BY <3>1, FS_Interval DEF OrderIds
  <2>3. IsFiniteSet(StoredLive(m))
    BY <2>1, <2>2, FS_Subset
  <2> QED
    BY <2>3, FS_CardinalityType
<1>2. /\ list \in [1 .. n -> StoredLive(m)]
      /\ \A i \in StoredLive(m) : \E k \in 1 .. n : list[k] = i
  BY DEF Found
<1> HIDE DEF n
<1>3. list \in Seq(StoredLive(m)) /\ Len(list) = n
  BY <1>1, <1>2
<1> QED
  BY <1>1, <1>2, <1>3

\* The start puts all live orders that are stored into their book, and searches
\* it for a trade.
LEMMA LoadedIs ==
  ASSUME ServiceInv, NEW m \in MarketIds, NEW list \in Found(m)
  PROVE  \E b : /\ ShowsStored(b, StoredLive(m), m, db_orders)
               /\ Loaded(list) = OB!tryMatchOrder(b)
<1> DEFINE f == LoadedFrom(list)
           ids(n) == {list[k] : k \in 1 .. n}
           S == {n \in Nat : n <= Len(list) =>
                               ShowsStored(f[n], ids(n), m, db_orders)}
<1>1. /\ Len(list) \in Nat
      /\ \A k \in 1 .. Len(list) : list[k] \in StoredLive(m)
      /\ StoredLive(m) = ids(Len(list))
  BY FoundAre
<1>2. \A n \in 0 .. Len(list) :
        f[n] = IF n = 0 THEN OB!EmptyBook
               ELSE OB!upsertOrder(f[n - 1], BookOrder(list[n], db_orders[list[n]]))
  BY <1>1, LoadedEquation
<1>3. Loaded(list) = OB!tryMatchOrder(f[Len(list)])
  BY <1>1, LoadedEquation
<1> HIDE DEF f
<1>4. 0 \in S
  <2>1. f[0] = OB!EmptyBook
    BY <1>1, <1>2
  <2>2. ids(0) = {}
    OBVIOUS
  <2> HIDE DEF ids
  <2> QED
    BY <2>1, <2>2, NothingShown
<1>5. ASSUME NEW n \in Nat, n \in S PROVE n + 1 \in S
  <2> SUFFICES ASSUME n + 1 <= Len(list)
               PROVE  ShowsStored(f[n + 1], ids(n + 1), m, db_orders)
    OBVIOUS
  <2> DEFINE i == list[n + 1]
             o == db_orders[i]
  <2>1. ShowsStored(f[n], ids(n), m, db_orders)
    <3>1. n <= Len(list)
      BY <1>1
    <3>2. n <= Len(list) => ShowsStored(f[n], ids(n), m, db_orders)
      <4> HIDE DEF ids
      <4> QED
        BY <1>5
    <3> QED
      BY <3>1, <3>2
  <2>2. /\ i \in OrderIds /\ o \in OrderType /\ o.market_id = m
    <3>1. n + 1 \in 1 .. Len(list)
      BY <1>1
    <3>2. i \in StoredLive(m)
      <4> HIDE DEF ids
      <4> QED
        BY <1>1, <3>1
    <3> HIDE DEF i
    <3> QED
      BY <3>2, StoredLiveAre
  <2>3. f[n + 1] = OB!upsertOrder(f[n], BookOrder(i, o))
    <3>1. n + 1 \in 0 .. Len(list) /\ n + 1 # 0 /\ (n + 1) - 1 = n
      BY <1>1
    <3> QED
      BY <1>2, <3>1
  <2>4. ids(n + 1) = ids(n) \cup {i}
    OBVIOUS
  <2> HIDE DEF ids, i
  <2> QED
    BY <2>1, <2>2, <2>3, <2>4, OrderShown
<1>6. ShowsStored(f[Len(list)], ids(Len(list)), m, db_orders)
  <2> HIDE DEF S
  <2>1. Len(list) \in S
    BY <1>1, <1>4, <1>5, NatSetInduction
  <2> QED
    BY <2>1 DEF S
<1> HIDE DEF ids
<1> QED
  BY <1>1, <1>3, <1>6

LEMMA LoadedShown ==
  ASSUME ServiceInv, NEW m \in MarketIds, NEW list \in Found(m)
  PROVE  /\ ShowsStored(Loaded(list).book, StoredLive(m), m, db_orders)
         /\ AllWanted(Loaded(list).book)
<1>1. PICK b : /\ ShowsStored(b, StoredLive(m), m, db_orders)
               /\ Loaded(list) = OB!tryMatchOrder(b)
  BY LoadedIs
<1> QED
  BY <1>1, CleanedShown

LEMMA RestartedBooks ==
  ASSUME ServiceInv, Restart, NEW m \in MarketIds
  PROVE  \/ /\ db_markets[m] = NoDoc \/ ~serving'
            /\ msM'[m] = NoBook /\ listed'[m] = {}
         \/ /\ db_markets[m] # NoDoc /\ listed'[m] = StoredLive(m)
            /\ ShowsStored(msM'[m], StoredLive(m), m, db_orders)
            /\ AllWanted(msM'[m])
<1>1. PICK found \in [MarketIds -> UNION {Found(n) : n \in MarketIds}] :
        /\ \A n \in MarketIds : found[n] \in Found(n)
        /\ serving' = ~StartThrows(found)
        /\ msM' = [n \in MarketIds |->
                     IF db_markets[n] = NoDoc \/ StartThrows(found) THEN NoBook
                     ELSE Loaded(found[n]).book]
        /\ listed' = [n \in MarketIds |->
                        IF db_markets[n] = NoDoc \/ StartThrows(found) THEN {}
                        ELSE StoredLive(n)]
  BY DEF Restart
<1>2. /\ ShowsStored(Loaded(found[m]).book, StoredLive(m), m, db_orders)
      /\ AllWanted(Loaded(found[m]).book)
  BY <1>1, LoadedShown
<1>3. CASE db_markets[m] = NoDoc \/ StartThrows(found)
  BY <1>1, <1>3
<1>4. CASE db_markets[m] # NoDoc /\ ~StartThrows(found)
  BY <1>1, <1>2, <1>4
<1> QED
  BY <1>3, <1>4

LEMMA RestartKeepsServiceInv ==
  ASSUME ServiceInv, Restart PROVE ServiceInv'
<1>1. /\ UNCHANGED <<db_tokens, db_markets, db_orders, db_trades, db_positions>>
      /\ inbox' = <<>> /\ ~written' /\ crashes' = crashes + 1 /\ UNCHANGED vars
      /\ DOMAIN msM' = MarketIds /\ DOMAIN listed' = MarketIds
  BY DEF Restart, db
<1>2. TypeOK' /\ WithinBounds' /\ UNCHANGED <<tokens, markets, orders, trades>>
  BY <1>1, RecordsFrame DEF ServiceInv
<1>3. CollectionsType' /\ WrittenDocument'
  BY <1>1 DEF ServiceInv, CollectionsType, WrittenDocument
<1>4. DocsAreOrders'
  BY <1>1, <1>2 DEF ServiceInv, DocsAreOrders, OrderType
<1>5. InboxType' /\ BooksReady'
  <2>1. Len(<<>>) = 0 /\ <<>> \in Seq(EventType')
    BY EmptySeq
  <2> QED
    BY <1>1, <2>1 DEF InboxType, BooksReady
<1>6. BooksShowStored'
  BY <1>1, <1>4, RestartedBooks, ShownThen DEF BookShowsDocs
<1> QED
  BY <1>2, <1>3, <1>4, <1>5, <1>6 DEF ServiceInv

LEMMA ServiceInvNext ==
  ServiceInv /\ [ServiceNext]_<<vars, service_vars>> => ServiceInv'
<1> SUFFICES ASSUME ServiceInv, [ServiceNext]_<<vars, service_vars>>
             PROVE  ServiceInv'
  OBVIOUS
<1>1. [Next]_vars /\ TypeOK'
  BY ServiceStepsAreSteps, NextType DEF ServiceInv
<1>2. CASE Listing \/ Moving \/ Ordering \/ AnyTrade
  <2>1. AppStep
    BY <1>1, <1>2, ApplicationSteps DEF ServiceInv
  <2> QED
    BY <1>1, <2>1, AppKeepsServiceInv
<1>3. CASE ApplyEvent
  BY <1>3, ApplyKeepsServiceInv
<1>4. CASE Restart
  BY <1>4, RestartKeepsServiceInv
<1>5. CASE UNCHANGED <<vars, service_vars>>
  <2>1. /\ UNCHANGED <<db_tokens, db_markets, db_orders, db_trades, db_positions>>
        /\ UNCHANGED <<inbox, written, msM, listed, crashes>> /\ UNCHANGED vars
    BY <1>5 DEF service_vars, db
  <2>2. TypeOK' /\ WithinBounds' /\ UNCHANGED <<tokens, markets, orders, trades>>
    BY <2>1, RecordsFrame DEF ServiceInv
  <2>3. CollectionsType' /\ WrittenDocument'
    BY <2>1, <2>2 DEF ServiceInv, CollectionsType, WrittenDocument
  <2>4. DocsAreOrders' /\ InboxType' /\ BooksReady'
    BY <2>1, <2>2 DEF ServiceInv, DocsAreOrders, OrderType, InboxType,
                      BooksReady, EventType
  <2>5. BooksShowStored'
    <3>1. \A ds : ShownDocs(ds) => ShownDocs(ds)'
      <4>1. AtHand' = AtHand
        BY <2>1 DEF AtHand
      <4> QED
        BY <2>1, <2>2, <4>1 DEF ShownDocs, DocOf, OrderType, SameTerms
    <3> QED
      BY <2>1, <3>1 DEF ServiceInv, BooksShowStored, BookShowsStored
  <2> QED
    BY <2>2, <2>3, <2>4, <2>5 DEF ServiceInv
<1> QED
  BY <1>2, <1>3, <1>4, <1>5 DEF ServiceNext

\* Whatever the callback and the crashes do, the application under the service
\* behaves as Exchange specifies: what is proved of Exchange holds here.
THEOREM ServiceRunsTheExchange == ServiceSpec => Spec
<1>1. ServiceInit => Init
  BY DEF ServiceInit
<1> QED
  BY <1>1, ServiceStepsAreSteps, PTL DEF ServiceSpec, Spec

LEMMA ServiceInvCorrect == ServiceSpec => []ServiceInv
BY ServiceInvInit, ServiceInvNext, PTL DEF ServiceSpec

-----------------------------------------------------------------------------
LEMMA OrdersAreDocs == \A o \in OrderType : o # NoDoc
<1> SUFFICES ASSUME NEW o \in OrderType PROVE o # NoDoc
  OBVIOUS
<1>1. "status" \in DOMAIN o
  BY DEF OrderType
<1>2. "status" \notin DOMAIN NoDoc
  BY DEF NoDoc
<1> QED
  BY <1>1, <1>2

\* PairShowsStoredOrders: in the middle of a callback and after any number of
\* crashes, what /data/pair shows of an order is what is stored of it; while the
\* callback awaits the document of an order, only its progress can be older.
THEOREM PairShowsStoredOrdersCorrect == ServiceSpec => []PairShowsStoredOrders
<1>1. ServiceInv => PairShowsStoredOrders
  <2> SUFFICES ASSUME ServiceInv, NEW m \in MarketIds, NEW x \in pair(m)
               PROVE  /\ db_orders[x.id] # NoDoc
                      /\ LET stored == BookOrder(x.id, db_orders[x.id])
                         IN  IF x.id \in AtHand
                             THEN ExceptProgress(x) = ExceptProgress(stored)
                             ELSE x = stored
    BY DEF PairShowsStoredOrders
  <2>1. msM[m] # NoBook /\ x \in InBook(OB!queryInfo(msM[m]))
    BY DEF pair
  <2>2. PICK ds : ShownDocs(ds) /\ ShowsStored(msM[m], listed[m], m, ds)
    BY <2>1 DEF ServiceInv, BooksShowStored, BookShowsStored
  <2> DEFINE b == msM[m]
             q == OB!queryInfo(b)
  <2>3. /\ DOMAIN q = Lists /\ q["bids"] = b["bids"] /\ q["asks"] = b["asks"]
        /\ q["market_bids"] = b["market_bids"]
        /\ q["market_asks"] = b["market_bids"]
    BY DEF OB!queryInfo, Lists
  <2>4. DOMAIN b = Lists
    BY <2>2 DEF ShowsStored, GoodBook
  <2> HIDE DEF b, q
  <2>5. PICK name \in Lists : x \in OnList(q[name])
    BY <2>1, <2>3 DEF InBook, b, q
  <2>6. \E other \in Lists : q[name] = b[other]
    BY <2>3 DEF Lists
  <2>7. x \in InBook(b)
    BY <2>4, <2>5, <2>6 DEF InBook
  <2>8. x.id \in OrderIds /\ x = BookOrder(x.id, ds[x.id]) /\ ds[x.id] # NoDoc
    BY <2>2, <2>7 DEF ShowsStored, b
  <2>9. CASE x.id \notin AtHand
    BY <2>2, <2>8, <2>9 DEF ShownDocs
  <2>10. CASE x.id \in AtHand
    <3> DEFINE i == x.id
    <3>1. SameTerms(orders[i], ds[i])
      BY <2>2, <2>8, <2>10 DEF ShownDocs, DocOf
    <3>2. i \in DOMAIN orders /\ db_orders[i] = orders[i]
      <4>1. written /\ Head(inbox) = OrderEvent(i) /\ inbox # <<>>
        BY <2>10 DEF AtHand, ServiceInv, WrittenDocument
      <4>2. EventNames(Head(inbox))
        BY <4>1, EventsAfter, EventKinds DEF ServiceInv, InboxType
      <4> HIDE DEF i
      <4> QED
        BY <4>1, <4>2 DEF ServiceInv, WrittenDocument, EventNames, OrderEvent
    <3>3. orders[i] \in OrderType /\ orders[i] # NoDoc
      <4> HIDE DEF i
      <4>1. orders[i] \in OrderType
        BY <3>2, OrderAt DEF ServiceInv
      <4> QED
        BY <4>1, OrdersAreDocs
    <3> HIDE DEF i
    <3>4. ExceptProgress(BookOrder(i, ds[i])) =
            ExceptProgress(BookOrder(i, db_orders[i]))
      <4> DEFINE rest(o) ==
            [id |-> i, type_ |-> o.type_, status |-> STATUS_LIVE, pid |-> o.pid,
             flag |-> o.flag, price |-> o.price,
             b_token_amount |-> o.b_token_amount,
             a_token_amount |-> o.a_token_amount, already_deal_amount |-> 0]
      <4>1. ASSUME NEW o PROVE ExceptProgress(BookOrder(i, o)) = rest(o)
        <5> DEFINE x1 == BookOrder(i, o)
                   x2 == [x1 EXCEPT !.status = STATUS_LIVE]
        <5>1. x2 = [id |-> i, type_ |-> o.type_, status |-> STATUS_LIVE,
                    pid |-> o.pid, flag |-> o.flag, price |-> o.price,
                    b_token_amount |-> o.b_token_amount,
                    a_token_amount |-> o.a_token_amount,
                    already_deal_amount |-> o.already_deal_amount]
          BY DEF BookOrder
        <5>2. ExceptProgress(x1) = [x2 EXCEPT !.already_deal_amount = 0]
          BY DEF ExceptProgress
        <5> HIDE DEF x1, x2
        <5>3. ExceptProgress(x1) = rest(o)
          BY <5>1, <5>2
        <5> QED
          BY <5>3 DEF x1
      <4>2. rest(ds[i]) = rest(db_orders[i])
        BY <3>1, <3>2 DEF SameTerms
      <4> HIDE DEF rest
      <4> QED
        BY <4>1, <4>2
    <3>5. x = BookOrder(i, ds[i]) /\ x.id = i /\ i \in AtHand
      BY <2>8, <2>10 DEF i
    <3> QED
      BY <3>2, <3>3, <3>4, <3>5
  <2> QED
    BY <2>9, <2>10
<1> QED
  BY <1>1, ServiceInvCorrect, PTL

-----------------------------------------------------------------------------
(* The mirror of a service that has not crashed: whatever differs from the  *)
(* application's records has its event still waiting.                       *)

Mirrored(doc, records, i, event) ==
  doc = Stored(records, i) \/ Has(inbox, event)

TokensMirrored ==
  \A t \in TokenIdxs :
    tokens[t] # MarketRecord =>
      db_tokens[t] = tokens[t] \/ Has(inbox, TokenEvent(t))

MarketsMirrored ==
  \A m \in MarketIds : Mirrored(db_markets[m], markets, m, MarketEvent(m))

OrdersMirrored ==
  \A i \in OrderIds : Mirrored(db_orders[i], orders, i, OrderEvent(i))

TradesMirrored ==
  \A k \in 1 .. MaxTrades : Mirrored(db_trades[k], trades, k, TradeEvent(k))

\* The lock that is mirrored for token t of player p.
MirroredLock(p, t) ==
  IF db_positions[p][t] = NoDoc THEN 0 ELSE db_positions[p][t].lock_balance

LocksMirrored ==
  \A p \in Pids, t \in TokenIdxs :
    lock_balance[p][t] = MirroredLock(p, t) \/ Has(inbox, PositionEvent(p, t))

\* Every market has its matching system, or gets it with the next event.
BooksKnown ==
  \A m \in DOMAIN markets : msM[m] # NoBook \/ inbox = <<MarketEvent(m)>>

\* An order of the last trade is in its book to stay, or will be put there after
\* the MARKET event that empties the book.
StaysListed(i, m) ==
  \/ i \in listed[m] /\ ~Has(inbox, MarketEvent(m))
  \/ ComesAfterMarket(inbox, i, m)

TradeListed ==
  trades # <<>> =>
    LET last == trades[Len(trades)]
        m == orders[last.a_order_id].market_id
    IN  /\ orders[last.b_order_id].market_id = m
        /\ \/ is_close(markets[m])
           \/ StaysListed(last.a_order_id, m) /\ StaysListed(last.b_order_id, m)

Mirror ==
  /\ TokensMirrored /\ MarketsMirrored /\ OrdersMirrored /\ TradesMirrored
  /\ LocksMirrored /\ BooksKnown /\ TradeListed

MirrorInv == crashes = 0 => Mirror

LEMMA NothingWaits == \A e : ~Has(<<>>, e)
BY DEF Has

\* The orders of a trade, before and after a step of the application.
LEMMA TradedOrdersAre ==
  ASSUME TypeOK, TypeOK', [Next]_vars, trades # <<>>, trades' = trades
  PROVE  LET last == trades[Len(trades)]
         IN  /\ last.a_order_id \in DOMAIN orders
             /\ last.b_order_id \in DOMAIN orders
             /\ orders[last.a_order_id].market_id \in DOMAIN markets
             /\ orders'[last.a_order_id].market_id = orders[last.a_order_id].market_id
             /\ orders'[last.b_order_id].market_id = orders[last.b_order_id].market_id
<1> DEFINE last == trades[Len(trades)]
<1>1. trades \in Seq(TradeType)
  BY DEF TypeOK
<1>2. Len(trades) \in 1 .. Len(trades)
  <2>1. Len(trades) \in Nat /\ Len(trades) # 0
    BY <1>1, EmptySeq, LenProperties
  <2> QED
    BY <2>1
<1>3. last \in TradeType
  BY <1>1, <1>2, ElementOfSeq
<1>4. last.a_order_id \in DOMAIN orders /\ last.b_order_id \in DOMAIN orders
  <2> HIDE DEF last
  <2> QED
    BY <1>3 DEF TradeType
<1> HIDE DEF last
<1>5. orders[last.a_order_id].market_id \in DOMAIN markets
  BY <1>4, OrderAt DEF OrderType
<1>6. \A i \in DOMAIN orders : SameTerms(orders[i], orders'[i])
  BY EveryStep, TermsKept
<1> QED
  BY <1>4, <1>5, <1>6 DEF SameTerms, last

LEMMA AppKeepsTradeListed ==
  ASSUME ServiceInv, TypeOK', [Next]_vars, AppStep, TradeListed, trades' # <<>>
  PROVE  TradeListed'
<1> DEFINE last == trades[Len(trades)]
           m == orders[last.a_order_id].market_id
<1>1. TypeOK /\ inbox = <<>> /\ listed' = listed /\ Announced
  BY DEF ServiceInv, AppStep
<1>2. CASE TradeOrdersAfterMarket
  BY <1>2 DEF TradeOrdersAfterMarket, TradeListed, StaysListed
<1>3. CASE OpenMarketsQuiet
  <2>1. trades' = trades /\ trades # <<>>
    BY <1>3 DEF OpenMarketsQuiet
  <2>2. /\ m \in DOMAIN markets
        /\ orders'[last.a_order_id].market_id = m
        /\ orders'[last.b_order_id].market_id = orders[last.b_order_id].market_id
    BY <1>1, <2>1, TradedOrdersAre
  <2>3. /\ orders[last.b_order_id].market_id = m
        /\ \/ is_close(markets[m])
           \/ StaysListed(last.a_order_id, m) /\ StaysListed(last.b_order_id, m)
    BY <2>1 DEF TradeListed
  <2>4. /\ is_close(markets[m]) => is_close(markets'[m])
        /\ Has(inbox', MarketEvent(m)) => is_close(markets'[m])
    BY <1>3, <2>2 DEF OpenMarketsQuiet
  <2> DEFINE last1 == trades'[Len(trades')]
             m1 == orders'[last1.a_order_id].market_id
  <2>5. last1 = last /\ m1 = m
    BY <2>1, <2>2
  <2> HIDE DEF m, last, last1, m1
  <2>6. ~is_close(markets'[m]) =>
          /\ last.a_order_id \in listed'[m] /\ last.b_order_id \in listed'[m]
          /\ ~Has(inbox', MarketEvent(m))
    <3>1. \A i : ~ComesAfterMarket(inbox, i, m)
      BY <1>1 DEF ComesAfterMarket
    <3> QED
      BY <1>1, <2>3, <2>4, <3>1 DEF StaysListed
  <2>7. /\ orders'[last1.b_order_id].market_id = m1
        /\ \/ is_close(markets'[m1])
           \/ /\ last1.a_order_id \in listed'[m1] /\ ~Has(inbox', MarketEvent(m1))
              /\ last1.b_order_id \in listed'[m1]
    BY <2>2, <2>3, <2>5, <2>6
  <2> QED
    BY <2>7 DEF TradeListed, StaysListed, last1, m1
<1> QED
  BY <1>1, <1>2, <1>3 DEF Announced

LEMMA AppKeepsMirror ==
  ASSUME ServiceInv, TypeOK', [Next]_vars, AppStep, Mirror
  PROVE  Mirror'
<1>1. /\ inbox = <<>> /\ Announced
      /\ UNCHANGED <<db_tokens, db_markets, db_orders, db_trades, db_positions,
                     msM, listed>>
  BY DEF AppStep, db
<1>2. \A e : ~Has(inbox, e)
  BY <1>1, NothingWaits
<1>3. TokensMirrored'
  BY <1>1, <1>2 DEF Mirror, TokensMirrored, Announced, TokensAnnounced
<1>4. MarketsMirrored'
  BY <1>1, <1>2 DEF Mirror, MarketsMirrored, Mirrored, Announced, MarketsAnnounced
<1>5. OrdersMirrored'
  BY <1>1, <1>2 DEF Mirror, OrdersMirrored, Mirrored, Announced, OrdersAnnounced
<1>6. TradesMirrored'
  BY <1>1, <1>2 DEF Mirror, TradesMirrored, Mirrored, Announced, TradesAnnounced
<1>7. LocksMirrored'
  BY <1>1, <1>2
     DEF Mirror, LocksMirrored, MirroredLock, Announced, LocksAnnounced
<1>8. BooksKnown'
  <2>1. \A m : inbox # <<MarketEvent(m)>>
    BY <1>1
  <2> QED
    BY <1>1, <2>1 DEF Mirror, BooksKnown, Announced, MarketsAnnounced
<1>9. TradeListed'
  <2>1. CASE trades' # <<>>
    BY <2>1, AppKeepsTradeListed DEF Mirror
  <2>2. CASE trades' = <<>>
    BY <2>2 DEF TradeListed
  <2> QED
    BY <2>1, <2>2
<1> QED
  BY <1>3, <1>4, <1>5, <1>6, <1>7, <1>8, <1>9 DEF Mirror

\* The callback writes a document whose event is not done with that.
Storing ==
  LET e == Head(inbox)
  IN  \/ e.kind = "market" /\ StoreMarket(e.market_id)
      \/ e.kind = "order" /\ StoreOrder(e.order_id)

LEMMA StoringLeaves ==
  Storing => UNCHANGED <<inbox, msM, listed>> /\ ~written
BY DEF Storing, StoreMarket, StoreOrder

\* The books when the callback has applied an event.
LEMMA BooksStay ==
  ASSUME ServiceInv, ApplyEvent, ~Storing
  PROVE  /\ \A m \in MarketIds :
              msM[m] # NoBook \/ Head(inbox) = MarketEvent(m) => msM'[m] # NoBook
         /\ \A m \in MarketIds :
              Head(inbox) # MarketEvent(m) => listed[m] \subseteq listed'[m]
<1> DEFINE e == Head(inbox)
<1>1. inbox # <<>> /\ EventNames(e)
  BY ApplyKinds
<1>2. /\ DOMAIN msM = MarketIds /\ DOMAIN listed = MarketIds
      /\ DOMAIN markets \subseteq MarketIds
      /\ \A m \in MarketIds : BookShowsStored(m)
      /\ \A m \in MarketIds : BookShowsStored(m)'
  BY IdsInBounds, ApplyKeepsServiceInv
     DEF ServiceInv, CollectionsType, BooksShowStored
<1> SUFFICES ASSUME NEW m \in MarketIds
             PROVE  /\ msM[m] # NoBook \/ e = MarketEvent(m) => msM'[m] # NoBook
                    /\ e # MarketEvent(m) => listed[m] \subseteq listed'[m]
  BY <1>2
<1>3. CASE e.kind = "market" /\ OpenBook(e.market_id)
  <2>1. e.market_id \in MarketIds /\ e = MarketEvent(e.market_id)
    <3>1. e \in EventType
      BY <1>1, EventsAfter DEF ServiceInv, InboxType
    <3> QED
      BY <1>1, <1>2, <1>3, <3>1, EventIs DEF EventNames
  <2>2. CASE e.market_id = m
    <3>1. msM'[m] = OB!EmptyBook
      BY <1>2, <1>3, <2>2 DEF OpenBook
    <3>2. OB!EmptyBook # NoBook
      BY NewBook, ABookIsABook
    <3> QED
      BY <2>1, <2>2, <3>1, <3>2
  <2>3. CASE e.market_id # m
    <3>1. msM'[m] = msM[m] /\ listed'[m] = listed[m]
      BY <1>2, <1>3, <2>3 DEF OpenBook
    <3>2. e # MarketEvent(m)
      BY <2>3 DEF MarketEvent
    <3> QED
      BY <3>1, <3>2
  <2> QED
    BY <2>2, <2>3
<1>4. CASE e.kind # "market"
  <2>1. e # MarketEvent(m)
    BY <1>4 DEF MarketEvent
  <2>2. CASE UNCHANGED <<msM, listed>>
    BY <2>1, <2>2
  <2>3. CASE e.kind = "order" /\ ListOrder(e.order_id)
    <3> DEFINE n == orders[e.order_id].market_id
    <3>1. CASE msM[n] = NoBook
      BY <2>1, <2>3, <3>1 DEF ListOrder
    <3>2. CASE msM[n] # NoBook /\ n # m
      BY <1>2, <2>1, <2>3, <3>2 DEF ListOrder
    <3>3. CASE msM[n] # NoBook /\ n = m
      <4>1. listed'[m] = listed[m] \cup {e.order_id}
        BY <1>2, <2>3, <3>3 DEF ListOrder
      <4>2. msM'[m] # NoBook
        <5>1. BookShowsStored(m)'
          BY <1>2
        <5> QED
          BY <4>1, <5>1, ABookIsABook DEF BookShowsStored, ShowsStored
      <4> QED
        BY <2>1, <4>1, <4>2
    <3> QED
      BY <3>1, <3>2, <3>3
  <2>4. CASE e.kind = "try_match" /\ ApplyTryMatch(e.market_id)
    <3>1. listed' = listed
      BY <2>4 DEF ApplyTryMatch
    <3>2. CASE e.market_id # m
      BY <1>2, <2>1, <2>4, <3>1, <3>2 DEF ApplyTryMatch
    <3>3. CASE e.market_id = m /\ msM[m] # NoBook
      <4>1. msM'[m] = OB!tryMatchOrder(msM[m]).book
        BY <1>2, <2>4, <3>3 DEF ApplyTryMatch
      <4>2. PICK ds : ShowsStored(msM[m], listed[m], m, ds)
        BY <1>2, <3>3 DEF BookShowsStored
      <4>3. ShowsStored(msM'[m], listed[m], m, ds)
        BY <4>1, <4>2, CleanedShown
      <4>4. msM'[m] # NoBook
        BY <4>3, ABookIsABook DEF ShowsStored
      <4> QED
        BY <2>1, <3>1, <4>4
    <3>4. CASE msM[m] = NoBook
      BY <2>1, <3>1, <3>4
    <3> QED
      BY <3>2, <3>3, <3>4
  <2>5. \/ UNCHANGED <<msM, listed>>
        \/ e.kind = "order" /\ ListOrder(e.order_id)
        \/ e.kind = "try_match" /\ ApplyTryMatch(e.market_id)
    BY <1>4, ApplyKinds DEF Storing, ApplyPosition, ApplyToken, ApplyTrade
  <2> QED
    BY <2>2, <2>3, <2>4, <2>5
<1> QED
  BY <1>3, <1>4, ApplyKinds DEF Storing

\* The documents when the callback applies event e: what e names is copied.
TokensCopied(e) ==
  \A t \in TokenIdxs :
    db_tokens'[t] = IF e = TokenEvent(t) THEN tokens[t] ELSE db_tokens[t]

MarketsCopied(e) ==
  \A m \in MarketIds :
    db_markets'[m] = IF e = MarketEvent(m) THEN markets[m] ELSE db_markets[m]

OrdersCopied(e) ==
  \A i \in OrderIds :
    db_orders'[i] = IF e = OrderEvent(i) THEN orders[i] ELSE db_orders[i]

TradesCopied(e) ==
  \A k \in 1 .. MaxTrades :
    db_trades'[k] = IF e = TradeEvent(k) THEN trades[k] ELSE db_trades[k]

PositionsCopied(e) ==
  \A p \in Pids, t \in TokenIdxs :
    db_positions'[p][t] =
      IF e = PositionEvent(p, t)
      THEN [balance |-> balance[p][t], lock_balance |-> lock_balance[p][t]]
      ELSE db_positions[p][t]

EventCopied(e) ==
  /\ TokensCopied(e) /\ MarketsCopied(e) /\ OrdersCopied(e)
  /\ TradesCopied(e) /\ PositionsCopied(e)

\* A collection that an event is not about stays.
LEMMA OthersStay ==
  ASSUME NEW e
  PROVE  /\ e.kind # "token" /\ UNCHANGED db_tokens => TokensCopied(e)
         /\ e.kind # "market" /\ UNCHANGED db_markets => MarketsCopied(e)
         /\ e.kind # "order" /\ UNCHANGED db_orders => OrdersCopied(e)
         /\ e.kind # "trade" /\ UNCHANGED db_trades => TradesCopied(e)
         /\ e.kind # "position" /\ UNCHANGED db_positions => PositionsCopied(e)
<1>1. e.kind # "token" => \A t : e # TokenEvent(t)
  BY DEF TokenEvent
<1>2. e.kind # "market" => \A m : e # MarketEvent(m)
  BY DEF MarketEvent
<1>3. e.kind # "order" => \A i : e # OrderEvent(i)
  BY DEF OrderEvent
<1>4. e.kind # "trade" => \A k : e # TradeEvent(k)
  BY DEF TradeEvent
<1>5. e.kind # "position" => \A p, t : e # PositionEvent(p, t)
  BY DEF PositionEvent
<1>6. e.kind # "token" /\ UNCHANGED db_tokens => TokensCopied(e)
  BY <1>1 DEF TokensCopied
<1>7. e.kind # "market" /\ UNCHANGED db_markets => MarketsCopied(e)
  BY <1>2 DEF MarketsCopied
<1>8. e.kind # "order" /\ UNCHANGED db_orders => OrdersCopied(e)
  BY <1>3 DEF OrdersCopied
<1>9. e.kind # "trade" /\ UNCHANGED db_trades => TradesCopied(e)
  BY <1>4 DEF TradesCopied
<1>10. e.kind # "position" /\ UNCHANGED db_positions => PositionsCopied(e)
  BY <1>5 DEF PositionsCopied
<1> QED
  BY <1>6, <1>7, <1>8, <1>9, <1>10

LEMMA DocumentsCopied ==
  ASSUME ServiceInv, ApplyEvent
  PROVE  EventCopied(Head(inbox))
<1> DEFINE e == Head(inbox)
<1>1. inbox # <<>> /\ EventNames(e)
  BY ApplyKinds
<1>2. e \in EventType
  BY <1>1, EventsAfter DEF ServiceInv, InboxType
<1>3. /\ CollectionsType /\ WrittenDocument
      /\ \/ e.kind = "position" /\ ApplyPosition(e.pid, e.token_idx)
         \/ e.kind = "token" /\ ApplyToken(e.token_idx)
         \/ e.kind = "market" /\ StoreMarket(e.market_id)
         \/ e.kind = "market" /\ OpenBook(e.market_id)
         \/ e.kind = "order" /\ StoreOrder(e.order_id)
         \/ e.kind = "order" /\ ListOrder(e.order_id)
         \/ e.kind = "trade" /\ ApplyTrade(e.trade_id)
         \/ e.kind = "try_match" /\ ApplyTryMatch(e.market_id)
  BY ApplyKinds DEF ServiceInv
<1> SUFFICES EventCopied(e)
  OBVIOUS
<1>11. /\ e.kind = "market" /\ OpenBook(e.market_id)
           => db_markets[e.market_id] = markets[e.market_id]
       /\ e.kind = "order" /\ ListOrder(e.order_id)
            => db_orders[e.order_id] = orders[e.order_id]
  BY <1>3 DEF WrittenDocument, OpenBook, ListOrder
<1> HIDE DEF e
<1>4. /\ e.kind # "token" /\ UNCHANGED db_tokens => TokensCopied(e)
      /\ e.kind # "market" /\ UNCHANGED db_markets => MarketsCopied(e)
      /\ e.kind # "order" /\ UNCHANGED db_orders => OrdersCopied(e)
      /\ e.kind # "trade" /\ UNCHANGED db_trades => TradesCopied(e)
      /\ e.kind # "position" /\ UNCHANGED db_positions => PositionsCopied(e)
  BY OthersStay
<1>5. CASE e.kind = "position" /\ ApplyPosition(e.pid, e.token_idx)
  <2>1. e = PositionEvent(e.pid, e.token_idx)
    BY <1>2, <1>5, EventIs
  <2>2. \A p, t : e = PositionEvent(p, t) <=> p = e.pid /\ t = e.token_idx
    BY <2>1 DEF PositionEvent
  <2>3. e.pid \in Pids /\ e.token_idx \in TokenIdxs
    BY <1>1, <1>5 DEF EventNames
  <2>4. PositionsCopied(e)
    BY <1>3, <1>5, <2>2, <2>3 DEF ApplyPosition, PositionsCopied, CollectionsType
  <2> QED
    BY <1>4, <1>5, <2>4 DEF ApplyPosition, EventCopied
<1>6. CASE e.kind = "token" /\ ApplyToken(e.token_idx)
  <2>1. e = TokenEvent(e.token_idx)
    BY <1>2, <1>6, EventIs
  <2>2. \A t : e = TokenEvent(t) <=> t = e.token_idx
    BY <2>1 DEF TokenEvent
  <2>3. TokensCopied(e)
    BY <1>3, <1>6, <2>2 DEF ApplyToken, TokensCopied, CollectionsType
  <2> QED
    BY <1>4, <1>6, <2>3 DEF ApplyToken, EventCopied
<1>7. CASE e.kind = "market" /\ (StoreMarket(e.market_id) \/ OpenBook(e.market_id))
  <2>1. e = MarketEvent(e.market_id)
    BY <1>2, <1>7, EventIs
  <2>2. \A m : e = MarketEvent(m) <=> m = e.market_id
    BY <2>1 DEF MarketEvent
  <2>3. CASE StoreMarket(e.market_id)
    <3>1. MarketsCopied(e)
      BY <1>3, <2>2, <2>3 DEF StoreMarket, MarketsCopied, CollectionsType
    <3> QED
      BY <1>4, <1>7, <2>3, <3>1 DEF StoreMarket, EventCopied
  <2>4. CASE OpenBook(e.market_id)
    <3>1. MarketsCopied(e)
      BY <1>7, <1>11, <2>2, <2>4 DEF OpenBook, MarketsCopied, db
    <3> QED
      BY <1>4, <1>7, <2>4, <3>1 DEF OpenBook, EventCopied, db
  <2> QED
    BY <1>7, <2>3, <2>4
<1>8. CASE e.kind = "order" /\ (StoreOrder(e.order_id) \/ ListOrder(e.order_id))
  <2>1. e = OrderEvent(e.order_id)
    BY <1>2, <1>8, EventIs
  <2>2. \A i : e = OrderEvent(i) <=> i = e.order_id
    BY <2>1 DEF OrderEvent
  <2>3. CASE StoreOrder(e.order_id)
    <3>1. OrdersCopied(e)
      BY <1>3, <2>2, <2>3 DEF StoreOrder, OrdersCopied, CollectionsType
    <3> QED
      BY <1>4, <1>8, <2>3, <3>1 DEF StoreOrder, EventCopied
  <2>4. CASE ListOrder(e.order_id)
    <3>1. UNCHANGED db
      BY <2>4 DEF ListOrder
    <3>2. OrdersCopied(e)
      BY <1>8, <1>11, <2>2, <2>4, <3>1 DEF OrdersCopied, db
    <3> QED
      BY <1>4, <1>8, <3>1, <3>2 DEF EventCopied, db
  <2> QED
    BY <1>8, <2>3, <2>4
<1>9. CASE e.kind = "trade" /\ ApplyTrade(e.trade_id)
  <2>1. e = TradeEvent(e.trade_id)
    BY <1>2, <1>9, EventIs
  <2>2. \A k : e = TradeEvent(k) <=> k = e.trade_id
    BY <2>1 DEF TradeEvent
  <2>3. TradesCopied(e)
    BY <1>3, <1>9, <2>2 DEF ApplyTrade, TradesCopied, CollectionsType
  <2> QED
    BY <1>4, <1>9, <2>3 DEF ApplyTrade, EventCopied
<1>10. CASE e.kind = "try_match" /\ ApplyTryMatch(e.market_id)
  BY <1>4, <1>10 DEF ApplyTryMatch, EventCopied, db
<1> QED
  BY <1>5, <1>6, <1>7, <1>8, <1>9, <1>10, <1>3

\* No event is lost: the callback takes them one by one.
LEMMA OneByOne ==
  ASSUME ServiceInv, ApplyEvent, BooksKnown, ~Storing
  PROVE  inbox' = Tail(inbox)
<1> DEFINE e == Head(inbox)
<1>1. CASE e.kind = "order" /\ ListOrder(e.order_id)
  <2> DEFINE m == orders[e.order_id].market_id
  <2>1. inbox # <<>> /\ EventNames(e) /\ e.kind = "order"
    BY <1>1, ApplyKinds
  <2>2. e.order_id \in DOMAIN orders
    BY <2>1 DEF EventNames
  <2>3. m \in DOMAIN markets
    BY <2>2, OrderAt DEF OrderType, ServiceInv
  <2>4. \A n : inbox # <<MarketEvent(n)>>
    BY <2>1 DEF MarketEvent
  <2>5. msM[m] # NoBook
    BY <2>3, <2>4 DEF BooksKnown
  <2> QED
    BY <1>1, <2>5 DEF ListOrder
<1>2. CASE e.kind # "order"
  BY <1>2, ApplyKinds
     DEF Storing, ApplyPosition, ApplyToken, OpenBook, ApplyTrade, ApplyTryMatch
<1> QED
  BY <1>1, <1>2, ApplyKinds DEF Storing

LEMMA ApplyKeepsTradeListed ==
  ASSUME ServiceInv, ApplyEvent, ~Storing, BooksKnown, TradeListed, trades # <<>>
  PROVE  TradeListed'
<1> DEFINE last == trades[Len(trades)]
           m == orders[last.a_order_id].market_id
           e == Head(inbox)
<1>1. /\ UNCHANGED <<markets, orders, trades>> /\ TypeOK
      /\ inbox # <<>> /\ inbox \in Seq(EventType)
      /\ [Next]_vars /\ TypeOK'
  BY ApplyKinds, RecordsFrame DEF ServiceInv, InboxType
<1>2. /\ last.a_order_id \in DOMAIN orders /\ last.b_order_id \in DOMAIN orders
      /\ m \in DOMAIN markets
  BY <1>1, TradedOrdersAre
<1>3. /\ orders[last.b_order_id].market_id = m
      /\ \/ is_close(markets[m])
         \/ StaysListed(last.a_order_id, m) /\ StaysListed(last.b_order_id, m)
  BY DEF TradeListed
<1>4. m \in MarketIds
  BY <1>2, IdsInBounds DEF ServiceInv
<1> HIDE DEF last, m
<1>5. ASSUME NEW i \in DOMAIN orders, orders[i].market_id = m, StaysListed(i, m)
      PROVE  \/ i \in listed'[m] /\ ~Has(inbox', MarketEvent(m))
             \/ ComesAfterMarket(inbox', i, m)
  <2>1. inbox' = Tail(inbox) /\ DOMAIN listed = MarketIds
    BY OneByOne DEF ServiceInv, CollectionsType
  <2>2. /\ Len(inbox) \in Nat /\ e = inbox[1] /\ 1 \in 1 .. Len(inbox)
        /\ Len(inbox') = Len(inbox) - 1
        /\ \A k \in 1 .. Len(inbox') :
             k + 1 \in 1 .. Len(inbox) /\ inbox'[k] = inbox[k + 1]
    BY <1>1, <2>1, EventsAfter
  <2>3. CASE i \in listed[m] /\ ~Has(inbox, MarketEvent(m))
    <3>1. e # MarketEvent(m)
      BY <2>2, <2>3 DEF Has
    <3>2. i \in listed'[m]
      BY <1>4, <2>3, <3>1, BooksStay
    <3>3. ~Has(inbox', MarketEvent(m))
      BY <1>1, <2>1, <2>3, HasBefore
    <3> QED
      BY <3>2, <3>3
  <2>4. CASE ComesAfterMarket(inbox, i, m)
    <3>1. PICK k \in 1 .. Len(inbox) :
            /\ inbox[k] = OrderEvent(i)
            /\ \A l \in k .. Len(inbox) : inbox[l] # MarketEvent(m)
      BY <2>4 DEF ComesAfterMarket
    <3>2. CASE k = 1
      <4>1. e.kind = "order" /\ e.order_id = i
        BY <2>2, <3>1, <3>2 DEF OrderEvent
      <4>2. ListOrder(i)
        BY <4>1, ApplyKinds DEF Storing
      <4>3. msM[m] # NoBook
        <5>1. \A n : inbox # <<MarketEvent(n)>>
          BY <4>1 DEF MarketEvent
        <5> QED
          BY <1>2, <5>1 DEF BooksKnown
      <4>4. i \in listed'[m]
        BY <1>4, <1>5, <2>1, <4>2, <4>3 DEF ListOrder
      <4>5. ASSUME NEW n \in 1 .. Len(inbox') PROVE inbox'[n] # MarketEvent(m)
        <5>1. n + 1 \in k .. Len(inbox) /\ inbox'[n] = inbox[n + 1]
          BY <2>2, <3>2
        <5> QED
          BY <3>1, <5>1
      <4> QED
        BY <4>4, <4>5 DEF Has
    <3>3. CASE k # 1
      <4> DEFINE j == k - 1
      <4>1. j \in 1 .. Len(inbox') /\ j + 1 = k
        BY <2>2, <3>3
      <4>2. inbox'[j] = OrderEvent(i)
        BY <2>2, <3>1, <4>1
      <4>3. ASSUME NEW n \in j .. Len(inbox') PROVE inbox'[n] # MarketEvent(m)
        <5>1. n \in 1 .. Len(inbox') /\ n + 1 \in k .. Len(inbox)
          BY <2>2, <4>1
        <5>2. inbox'[n] = inbox[n + 1]
          BY <2>2, <5>1
        <5> QED
          BY <3>1, <5>1, <5>2
      <4> HIDE DEF j
      <4> QED
        BY <4>1, <4>2, <4>3 DEF ComesAfterMarket
    <3> QED
      BY <3>2, <3>3
  <2> QED
    BY <1>5, <2>3, <2>4 DEF StaysListed
<1> DEFINE last1 == trades'[Len(trades')]
           m1 == orders'[last1.a_order_id].market_id
<1>6. last1 = last /\ m1 = m
  BY <1>1 DEF last, m
<1> HIDE DEF last1, m1
<1>7. orders[last.a_order_id].market_id = m
  BY DEF m
<1>8. /\ orders'[last1.b_order_id].market_id = m1
      /\ \/ is_close(markets'[m1])
         \/ /\ \/ last1.a_order_id \in listed'[m1] /\ ~Has(inbox', MarketEvent(m1))
               \/ ComesAfterMarket(inbox', last1.a_order_id, m1)
            /\ \/ last1.b_order_id \in listed'[m1] /\ ~Has(inbox', MarketEvent(m1))
               \/ ComesAfterMarket(inbox', last1.b_order_id, m1)
  BY <1>1, <1>2, <1>3, <1>5, <1>6, <1>7
<1> QED
  BY <1>8 DEF TradeListed, StaysListed, last1, m1

LEMMA ApplyKeepsMirror ==
  ASSUME ServiceInv, ApplyEvent, Mirror
  PROVE  Mirror'
<1> DEFINE e == Head(inbox)
<1>1. /\ inbox # <<>> /\ inbox \in Seq(EventType) /\ UNCHANGED vars
      /\ UNCHANGED <<tokens, markets, orders, trades>>
      /\ EventNames(e)
  BY ApplyKinds, RecordsFrame DEF ServiceInv, InboxType
<1>2. UNCHANGED <<balance, lock_balance>>
  BY <1>1 DEF vars, accounts
<1>3. Storing \/ inbox' = Tail(inbox)
  BY OneByOne DEF Mirror
<1>4. \A f : Has(inbox, f) => f = e \/ Has(inbox', f)
  BY <1>1, <1>3, HasAfter, StoringLeaves
<1>5. EventCopied(e)
  BY DocumentsCopied
<1>6. DOMAIN markets \subseteq MarketIds
  BY IdsInBounds DEF ServiceInv
<1>7. BooksKnown'
  <2>3. CASE Storing
    BY <1>1, <2>3, StoringLeaves DEF Mirror, BooksKnown
  <2> SUFFICES ASSUME ~Storing, NEW m \in DOMAIN markets PROVE msM'[m] # NoBook
    BY <1>1, <2>3 DEF BooksKnown
  <2>1. CASE msM[m] # NoBook
    BY <1>6, <2>1, BooksStay
  <2>2. CASE inbox = <<MarketEvent(m)>>
    <3>1. e = MarketEvent(m)
      BY <2>2
    <3> QED
      BY <1>6, <3>1, BooksStay
  <2> QED
    BY <2>1, <2>2 DEF Mirror, BooksKnown
<1>8. TradeListed'
  <2>1. CASE trades # <<>> /\ ~Storing
    BY <2>1, ApplyKeepsTradeListed DEF Mirror
  <2>3. CASE Storing
    BY <1>1, <2>3, StoringLeaves DEF Mirror, TradeListed, StaysListed
  <2>2. CASE trades = <<>>
    BY <1>1, <2>2 DEF TradeListed
  <2> QED
    BY <2>1, <2>2, <2>3
<1> HIDE DEF e
<1>9. TokensMirrored'
  BY <1>1, <1>4, <1>5 DEF Mirror, TokensMirrored, EventCopied, TokensCopied
<1>10. MarketsMirrored'
  <2>1. \A m : e = MarketEvent(m) => m \in DOMAIN markets
    BY <1>1 DEF EventNames, MarketEvent
  <2> QED
    BY <1>1, <1>4, <1>5, <2>1
       DEF Mirror, MarketsMirrored, Mirrored, Stored, EventCopied, MarketsCopied
<1>11. OrdersMirrored'
  <2>1. \A i : e = OrderEvent(i) => i \in DOMAIN orders
    BY <1>1 DEF EventNames, OrderEvent
  <2> QED
    BY <1>1, <1>4, <1>5, <2>1
       DEF Mirror, OrdersMirrored, Mirrored, Stored, EventCopied, OrdersCopied
<1>12. TradesMirrored'
  <2>1. \A k : e = TradeEvent(k) => k \in DOMAIN trades
    BY <1>1 DEF EventNames, TradeEvent
  <2> QED
    BY <1>1, <1>4, <1>5, <2>1
       DEF Mirror, TradesMirrored, Mirrored, Stored, EventCopied, TradesCopied
<1>13. LocksMirrored'
  <2> SUFFICES ASSUME NEW p \in Pids, NEW t \in TokenIdxs,
                      ~Has(inbox', PositionEvent(p, t))
               PROVE  lock_balance[p][t] =
                        IF db_positions'[p][t] = NoDoc THEN 0
                        ELSE db_positions'[p][t].lock_balance
    BY <1>2 DEF LocksMirrored, MirroredLock
  <2>1. CASE e = PositionEvent(p, t)
    <3>1. db_positions'[p][t] =
            [balance |-> balance[p][t], lock_balance |-> lock_balance[p][t]]
      BY <1>5, <2>1 DEF EventCopied, PositionsCopied
    <3>2. db_positions'[p][t] # NoDoc
      <4>1. "balance" \in DOMAIN db_positions'[p][t]
        BY <3>1
      <4>2. "balance" \notin DOMAIN NoDoc
        BY DEF NoDoc
      <4> QED
        BY <4>1, <4>2
    <3> QED
      BY <3>1, <3>2
  <2>2. CASE e # PositionEvent(p, t)
    <3>1. db_positions'[p][t] = db_positions[p][t]
      BY <1>5, <2>2 DEF EventCopied, PositionsCopied
    <3> QED
      BY <1>4, <2>2, <3>1 DEF Mirror, LocksMirrored, MirroredLock
  <2> QED
    BY <2>1, <2>2
<1> QED
  BY <1>7, <1>8, <1>9, <1>10, <1>11, <1>12, <1>13 DEF Mirror

LEMMA MirrorInvInit == ServiceInit => MirrorInv
<1> SUFFICES ASSUME ServiceInit PROVE Mirror
  BY DEF MirrorInv
<1>1. /\ tokens = [t \in TokenIdxs |-> NoToken]
      /\ markets = <<>> /\ orders = <<>> /\ trades = <<>>
      /\ lock_balance = [p \in Pids |-> [t \in TokenIdxs |-> 0]]
  BY DEF ServiceInit, Init
<1>2. /\ db_tokens = [t \in TokenIdxs |-> NoToken]
      /\ db_markets = [m \in MarketIds |-> NoDoc]
      /\ db_orders = [i \in OrderIds |-> NoDoc]
      /\ db_trades = [k \in 1 .. MaxTrades |-> NoDoc]
      /\ db_positions = [p \in Pids |-> [t \in TokenIdxs |-> NoDoc]]
  BY DEF ServiceInit, EmptyService
<1>3. DOMAIN markets = {} /\ DOMAIN orders = {} /\ DOMAIN trades = {}
  BY <1>1
<1>4. TokensMirrored
  BY <1>1, <1>2 DEF TokensMirrored
<1>5. MarketsMirrored /\ OrdersMirrored /\ TradesMirrored
  BY <1>2, <1>3
     DEF MarketsMirrored, OrdersMirrored, TradesMirrored, Mirrored, Stored
<1>6. LocksMirrored
  BY <1>1, <1>2 DEF LocksMirrored, MirroredLock
<1>7. BooksKnown /\ TradeListed
  BY <1>1, <1>3 DEF BooksKnown, TradeListed
<1> QED
  BY <1>4, <1>5, <1>6, <1>7 DEF Mirror

LEMMA MirrorInvNext ==
  ServiceInv /\ MirrorInv /\ [ServiceNext]_<<vars, service_vars>> => MirrorInv'
<1> SUFFICES ASSUME ServiceInv, MirrorInv, crashes' = 0,
                    [ServiceNext]_<<vars, service_vars>>
             PROVE  Mirror'
  BY DEF MirrorInv
<1>1. [Next]_vars /\ TypeOK' /\ crashes \in Nat
  BY ServiceStepsAreSteps, NextType DEF ServiceInv, CollectionsType
<1>2. CASE Listing \/ Moving \/ Ordering \/ AnyTrade
  <2>1. AppStep
    BY <1>1, <1>2, ApplicationSteps DEF ServiceInv
  <2>2. crashes' = crashes
    BY <2>1 DEF AppStep
  <2> QED
    BY <1>1, <2>1, <2>2, AppKeepsMirror DEF MirrorInv
<1>3. CASE ApplyEvent
  <2>1. crashes' = crashes
    BY <1>3 DEF ApplyEvent
  <2> QED
    BY <1>3, <2>1, ApplyKeepsMirror DEF MirrorInv
<1>4. CASE Restart
  <2>1. crashes' = crashes + 1
    BY <1>4 DEF Restart
  <2> QED
    BY <1>1, <2>1
<1>5. CASE UNCHANGED <<vars, service_vars>>
  <2>1. UNCHANGED <<db_tokens, db_markets, db_orders, db_trades, db_positions,
                    inbox, msM, listed, crashes, vars>>
    BY <1>5 DEF service_vars, db
  <2>2. UNCHANGED <<tokens, markets, orders, trades, lock_balance>>
    BY <2>1 DEF vars, listings, accounts
  <2>3. Mirror
    BY <2>1 DEF MirrorInv
  <2>4. TokensMirrored' /\ MarketsMirrored' /\ OrdersMirrored' /\ TradesMirrored'
    BY <2>1, <2>2, <2>3 DEF Mirror, TokensMirrored, MarketsMirrored,
                            OrdersMirrored, TradesMirrored, Mirrored
  <2>5. LocksMirrored' /\ BooksKnown'
    BY <2>1, <2>2, <2>3 DEF Mirror, LocksMirrored, MirroredLock, BooksKnown
  <2>6. TradeListed'
    BY <2>1, <2>2, <2>3 DEF Mirror, TradeListed, StaysListed
  <2> QED
    BY <2>4, <2>5, <2>6 DEF Mirror
<1> QED
  BY <1>2, <1>3, <1>4, <1>5 DEF ServiceNext

LEMMA MirrorInvCorrect == ServiceSpec => [](ServiceInv /\ MirrorInv)
<1>1. ServiceSpec => []ServiceInv
  BY ServiceInvCorrect
<1> QED
  BY <1>1, MirrorInvInit, MirrorInvNext, PTL DEF ServiceSpec

-----------------------------------------------------------------------------
\* MirrorIsCurrent: as long as the service does not crash, the mirrored tokens,
\* markets, orders and trades are the application's when the callback has ended.
THEOREM MirrorIsCurrentCorrect == ServiceSpec => []MirrorIsCurrent
<1>1. MirrorInv => MirrorIsCurrent
  <2> SUFFICES ASSUME Mirror, inbox = <<>> PROVE MirrorIsCurrent
    BY DEF MirrorInv, MirrorIsCurrent, Handled
  <2>1. \A e : ~Has(inbox, e)
    BY NothingWaits
  <2> QED
    BY <2>1 DEF Mirror, TokensMirrored, MarketsMirrored, OrdersMirrored,
                TradesMirrored, Mirrored, Stored, MirrorIsCurrent
<1> QED
  BY <1>1, MirrorInvCorrect, PTL

\* LocksAreMirrored: the events name every position whose lock has changed.
THEOREM LocksAreMirroredCorrect == ServiceSpec => []LocksAreMirrored
<1>1. MirrorInv => LocksAreMirrored
  <2> SUFFICES ASSUME Mirror, inbox = <<>> PROVE LocksAreMirrored
    BY DEF MirrorInv, LocksAreMirrored, Handled
  <2> QED
    BY NothingWaits DEF Mirror, LocksMirrored, MirroredLock, LocksAreMirrored
<1> QED
  BY <1>1, MirrorInvCorrect, PTL

\* TradedOrdersStayListed: the MARKET event of a trade empties the book before
\* the two ORDER events put its orders back.
THEOREM TradedOrdersStayListedCorrect == ServiceSpec => []TradedOrdersStayListed
<1>1. MirrorInv => TradedOrdersStayListed
  <2> SUFFICES ASSUME Mirror, inbox = <<>> PROVE TradedOrdersStayListed
    BY DEF MirrorInv, TradedOrdersStayListed, Handled
  <2>1. \A i, m : ~ComesAfterMarket(inbox, i, m)
    BY DEF ComesAfterMarket
  <2> QED
    BY <2>1 DEF Mirror, TradeListed, StaysListed, TradedOrdersStayListed
<1> QED
  BY <1>1, MirrorInvCorrect, PTL

\* Between two transactions the books show the orders as they are stored.
LEMMA HandledBooks ==
  ASSUME ServiceInv, inbox = <<>>, NEW m \in MarketIds PROVE BookShowsDocs(m)
<1>1. ~written /\ BooksShowStored
  BY DEF ServiceInv, WrittenDocument
<1> QED
  BY <1>1, NoneAtHand, ShownNow

LEMMA BooksAreExact == ServiceInv /\ MirrorInv => BookIsExact
<1> SUFFICES ASSUME ServiceInv, Mirror, inbox = <<>>, NEW m \in MarketIds,
                    msM[m] # NoBook
             PROVE  InBook(OB!removeMatchOrder(msM[m])) =
                      {o \in {BookOrder(i, orders[i]) : i \in listed[m]} :
                         OB!isLive(o) /\ HasSide(o)}
  BY DEF MirrorInv, BookIsExact, Handled
<1> DEFINE b == msM[m]
           c == OB!removeMatchOrder(b)
           wanted == {o \in {BookOrder(i, orders[i]) : i \in listed[m]} :
                        OB!isLive(o) /\ HasSide(o)}
<1>1. ShowsStored(b, listed[m], m, db_orders)
  BY HandledBooks DEF BookShowsDocs
<1>2. InBook(c) = {x \in InBook(b) : OB!isLive(x)}
  BY <1>1, CleanedBook DEF ShowsStored
<1>3. \A x \in InBook(b) : HasSide(x)
  BY <1>1, InBookAreOrders DEF ShowsStored
<1>4. ASSUME NEW i \in listed[m]
      PROVE  /\ i \in OrderIds /\ db_orders[i] = orders[i]
             /\ HasSide(BookOrder(i, orders[i])) <=> HasSide(orders[i])
  <2>1. i \in OrderIds /\ db_orders[i] # NoDoc
    BY <1>1 DEF ShowsStored
  <2>2. i \in DOMAIN orders /\ orders[i] \in OrderType
    BY <2>1, OrderAt DEF ServiceInv, DocsAreOrders
  <2>3. db_orders[i] = Stored(orders, i)
    BY <2>1, NothingWaits DEF Mirror, OrdersMirrored, Mirrored
  <2> QED
    BY <2>1, <2>2, <2>3, BookOrderIs DEF Stored
<1> HIDE DEF c, b
<1>5. ASSUME NEW x \in InBook(c) PROVE x \in wanted
  <2>1. x \in InBook(b) /\ OB!isLive(x) /\ HasSide(x)
    BY <1>2, <1>3, <1>5
  <2>2. x.id \in listed[m] /\ x = BookOrder(x.id, db_orders[x.id])
    BY <1>1, <2>1 DEF ShowsStored
  <2>3. x = BookOrder(x.id, orders[x.id])
    BY <1>4, <2>2
  <2> QED
    BY <2>1, <2>2, <2>3
<1>6. ASSUME NEW x \in wanted PROVE x \in InBook(c)
  <2>1. PICK i \in listed[m] : x = BookOrder(i, orders[i])
    OBVIOUS
  <2>2. OB!isLive(x) /\ HasSide(x)
    OBVIOUS
  <2> HIDE DEF wanted
  <2>3. db_orders[i] = orders[i] /\ HasSide(orders[i])
    BY <1>4, <2>1, <2>2
  <2>4. x \in InBook(b)
    BY <1>1, <2>1, <2>2, <2>3 DEF ShowsStored
  <2> QED
    BY <1>2, <2>2, <2>4
<1> HIDE DEF wanted
<1>7. InBook(c) = wanted
  BY <1>5, <1>6
<1> QED
  BY <1>7 DEF wanted, c, b

\* BookIsExact: a book has the live orders that were put into it, and has them
\* as the application does.
THEOREM BookIsExactCorrect == ServiceSpec => []BookIsExact
BY BooksAreExact, MirrorInvCorrect, PTL
-----------------------------------------------------------------------------
(* The pair of two lists, and what the service proposes.                   *)

LEMMA BooksAreMatchers == MP!MatcherAssumption
BY ConfigAssumption DEF MP!MatcherAssumption

LEMMA SameMatch ==
  \A x, y :
    /\ OB!canMatch(x, y) <=> MP!canMatch(x, y)
    /\ OB!processMatch(x, y) = MP!processMatch(x, y)
    /\ OB!MatchPrice(x, y) = MP!MatchPrice(x, y)
    /\ OB!Left(x) = MP!Left(x)
    /\ OB!SizedInA(x) <=> MP!SizedInA(x)
<1>1. \A x : /\ OB!SizedInA(x) <=> MP!SizedInA(x)
             /\ OB!get_amount(x) = MP!get_amount(x)
             /\ OB!isLimitOrder(x) <=> MP!isLimitOrder(x)
  BY DEF OB!SizedInA, MP!SizedInA, OB!isMarketOrder, MP!isMarketOrder,
         OB!isLimitOrder, MP!isLimitOrder, OB!get_amount, MP!get_amount,
         OB!TYPE_LIMIT, MP!TYPE_LIMIT, OB!TYPE_MARKET, MP!TYPE_MARKET
<1>2. \A x : OB!Left(x) = MP!Left(x)
  BY <1>1 DEF OB!Left, MP!Left
<1>3. \A x, y : OB!PricesMeet(x, y) <=> MP!PricesMeet(x, y)
  BY <1>1 DEF OB!PricesMeet, MP!PricesMeet, OB!FLAG_SELL, MP!FLAG_SELL
<1>4. \A x, y : OB!canMatch(x, y) <=> MP!canMatch(x, y)
  BY <1>2, <1>3 DEF OB!canMatch, MP!canMatch
<1>5. \A x, y : OB!MatchPrice(x, y) = MP!MatchPrice(x, y)
  BY <1>1 DEF OB!MatchPrice, MP!MatchPrice
<1>6. \A u, v : OB!Quotient(u, v) = MP!Quotient(u, v)
  BY DEF OB!Quotient, MP!Quotient
<1>7. \A x, p : OB!LeftInB(x, p) = MP!LeftInB(x, p)
  BY <1>1, <1>2, <1>6 DEF OB!LeftInB, MP!LeftInB
<1>8. \A x, y : OB!Smaller(x, y) = MP!Smaller(x, y)
  BY DEF OB!Smaller, MP!Smaller
<1>9. \A x, y : OB!processMatch(x, y) = MP!processMatch(x, y)
  BY <1>1, <1>5, <1>6, <1>7, <1>8
  DEF OB!processMatch, MP!processMatch, OB!Thrown, MP!Thrown
<1> QED
  BY <1>1, <1>2, <1>4, <1>5, <1>9

\* canMatch does not ask which of the two is the buyer.
LEMMA MatchesBothWays ==
  ASSUME NEW x, NEW y, HasSide(x), HasSide(y), OB!canMatch(x, y)
  PROVE  OB!canMatch(y, x)
BY DEF OB!canMatch, OB!PricesMeet, OB!FLAG_SELL, HasSide, FLAG_BUY, FLAG_SELL

LEMMA SidesOfLists ==
  ASSUME NEW b, GoodBook(b)
  PROVE  /\ \A name \in Lists :
              /\ b[name] \in Seq(BookOrders)
              /\ \A k \in 1 .. Len(b[name]) : b[name][k] \in InBook(b)
         /\ \A name \in {"bids", "market_bids"}, k \in Nat :
              k \in 1 .. Len(b[name]) => b[name][k].flag = FLAG_BUY
         /\ \A name \in {"asks", "market_asks"}, k \in Nat :
              k \in 1 .. Len(b[name]) => b[name][k].flag = FLAG_SELL
<1>1. DOMAIN b = Lists /\ {"bids", "asks", "market_bids", "market_asks"} = Lists
  BY DEF GoodBook, Lists
<1>2. ASSUME NEW name \in Lists, NEW k \in 1 .. Len(b[name])
      PROVE  /\ b[name] \in Seq(BookOrders) /\ b[name][k] \in InBook(b)
             /\ b[name][k] \in BookOrders
             /\ HasSide(b[name][k]) /\ ListOf(b[name][k]) = name
  <2>1. b[name] \in Seq(BookOrders)
    BY DEF GoodBook
  <2>2. /\ OnList(b[name]) = {b[name][l] : l \in 1 .. Len(b[name])}
        /\ OnList(b[name]) \subseteq BookOrders
    BY <2>1, OnListIs
  <2>3. b[name][k] \in OnList(b[name])
    BY <1>2, <2>2
  <2> QED
    BY <1>1, <2>1, <2>2, <2>3 DEF GoodBook, InBook
<1>3. ASSUME NEW x \in BookOrders, HasSide(x)
      PROVE  /\ ListOf(x) \in {"bids", "market_bids"} => x.flag = FLAG_BUY
             /\ ListOf(x) \in {"asks", "market_asks"} => x.flag = FLAG_SELL
  BY <1>3 DEF ListOf, HasSide
<1>4. \A name \in Lists : b[name] \in Seq(BookOrders)
  BY DEF GoodBook
<1> QED
  BY <1>1, <1>2, <1>3, <1>4

\* The trade of two orders of a book.
TradeInBook(t, b) ==
  \E buy, sell \in InBook(b) :
    /\ buy.flag = FLAG_BUY /\ sell.flag = FLAG_SELL
    /\ OB!canMatch(buy, sell)
    /\ t = OB!processMatch(buy, sell)

LEMMA LimitsInBook ==
  ASSUME NEW b, GoodBook(b), OB!matchOrders(b) # OB!NoTrade
  PROVE  TradeInBook(OB!matchOrders(b), b)
<1> DEFINE bids == b["bids"]
           asks == b["asks"]
           stops == OB!Stops(b)
           f == OB!FirstStop(b)
<1>1. /\ stops # {} /\ OB!canMatch(bids[1], asks[f])
      /\ OB!matchOrders(b) = OB!processMatch(bids[1], asks[f])
  BY DEF OB!matchOrders
<1>2. stops = IF bids = <<>> THEN {} ELSE {j \in DOMAIN asks : OB!StopsAt(b, j)}
  BY DEF OB!Stops
<1>3. f = CHOOSE j \in stops : \A k \in stops : j <= k
  BY DEF OB!FirstStop
<1>4. "bids" \in Lists /\ "asks" \in Lists
  BY DEF Lists
<1> HIDE DEF stops, f
<1>5. bids \in Seq(BookOrders) /\ asks \in Seq(BookOrders)
  BY <1>4, SidesOfLists
<1>6. Len(bids) \in Nat /\ Len(asks) \in Nat /\ DOMAIN asks = 1 .. Len(asks)
      /\ bids # <<>> => 1 \in 1 .. Len(bids)
  BY <1>5
<1>7. bids # <<>> /\ stops \subseteq 1 .. Len(asks)
  BY <1>1, <1>2, <1>6
<1>8. f \in stops
  <2>1. stops \subseteq Nat
    BY <1>7
  <2>2. \E j \in stops : \A k \in stops : j <= k
    BY <1>1, <2>1, LeastNat
  <2> QED
    BY <1>3, <2>2
<1>9. 1 \in 1 .. Len(bids) /\ f \in 1 .. Len(asks)
  BY <1>6, <1>7, <1>8
<1>10. /\ bids[1] \in InBook(b) /\ bids[1].flag = FLAG_BUY
       /\ asks[f] \in InBook(b) /\ asks[f].flag = FLAG_SELL
  BY <1>4, <1>9, SidesOfLists
<1> HIDE DEF bids, asks
<1> QED
  BY <1>1, <1>10 DEF TradeInBook

LEMMA FirstPairMatches ==
  ASSUME NEW outer \in Seq(BookOrders), NEW inner \in Seq(BookOrders),
         NEW p, p = OB!FirstPair(outer, inner), p # <<>>
  PROVE  /\ p[1] \in 1 .. Len(outer) /\ p[2] \in 1 .. Len(inner)
         /\ OB!canMatch(outer[p[1]], inner[p[2]])
<1> DEFINE A == (DOMAIN outer) \X (DOMAIN inner)
           ours == {q \in A : OB!canMatch(outer[q[1]], inner[q[2]])}
           theirs == {q \in A : MP!canMatch(outer[q[1]], inner[q[2]])}
<1>1. ours = theirs
  BY SameMatch
<1>2. /\ OB!FirstPair(outer, inner) =
           IF ours = {} THEN <<>>
           ELSE CHOOSE q \in ours : \A r \in ours :
                  q[1] < r[1] \/ (q[1] = r[1] /\ q[2] <= r[2])
      /\ MP!FirstPair(outer, inner) =
           IF theirs = {} THEN <<>>
           ELSE CHOOSE q \in theirs : \A r \in theirs :
                  q[1] < r[1] \/ (q[1] = r[1] /\ q[2] <= r[2])
  BY DEF OB!FirstPair, MP!FirstPair
<1> HIDE DEF ours, theirs
<1>3. p = MP!FirstPair(outer, inner)
  BY <1>1, <1>2
<1>4. /\ p[1] \in 1 .. Len(outer) /\ p[2] \in 1 .. Len(inner)
      /\ MP!canMatch(outer[p[1]], inner[p[2]])
  <2> HIDE DEF A
  <2>1. p = MP!FirstPair(outer, inner) /\ p # <<>>
    BY <1>3
  <2>2. \/ MP!FirstPair(outer, inner) = <<>>
        \/ /\ MP!FirstPair(outer, inner)[1] \in 1 .. Len(outer)
           /\ MP!FirstPair(outer, inner)[2] \in 1 .. Len(inner)
           /\ MP!canMatch(outer[MP!FirstPair(outer, inner)[1]],
                           inner[MP!FirstPair(outer, inner)[2]])
    BY BooksAreMatchers, MP!FirstPairCases
  <2> QED
    BY <2>1, <2>2
<1> QED
  BY <1>4, SameMatch

LEMMA NextTradeInBook ==
  ASSUME NEW b, GoodBook(b), OB!NextTrade(b) # OB!NoTrade
  PROVE  TradeInBook(OB!NextTrade(b), b)
<1> DEFINE limits == OB!matchOrders(b)
           buys == OB!FirstPair(b["market_bids"], b["asks"])
           sells == OB!FirstPair(b["market_asks"], b["bids"])
<1>1. \/ limits # OB!NoTrade /\ OB!NextTrade(b) = limits
      \/ /\ buys # <<>>
         /\ OB!NextTrade(b) =
              OB!processMatch(b["market_bids"][buys[1]], b["asks"][buys[2]])
      \/ /\ sells # <<>>
         /\ OB!NextTrade(b) =
              OB!processMatch(b["bids"][sells[2]], b["market_asks"][sells[1]])
  BY DEF OB!NextTrade
<1>2. /\ "bids" \in Lists /\ "asks" \in Lists
      /\ "market_bids" \in Lists /\ "market_asks" \in Lists
  BY DEF Lists
<1>3. \A name \in Lists : b[name] \in Seq(BookOrders)
  BY SidesOfLists
<1> HIDE DEF limits, buys, sells
<1>4. CASE limits # OB!NoTrade /\ OB!NextTrade(b) = limits
  BY <1>4, LimitsInBook DEF limits
<1>5. CASE /\ buys # <<>>
           /\ OB!NextTrade(b) =
                OB!processMatch(b["market_bids"][buys[1]], b["asks"][buys[2]])
  <2> DEFINE x == b["market_bids"][buys[1]]
             y == b["asks"][buys[2]]
  <2>1. /\ buys[1] \in 1 .. Len(b["market_bids"]) /\ buys[2] \in 1 .. Len(b["asks"])
        /\ OB!canMatch(x, y)
    BY <1>2, <1>3, <1>5, FirstPairMatches DEF buys
  <2>2. x \in InBook(b) /\ x.flag = FLAG_BUY /\ y \in InBook(b) /\ y.flag = FLAG_SELL
    BY <1>2, <2>1, SidesOfLists
  <2> HIDE DEF x, y
  <2>3. OB!NextTrade(b) = OB!processMatch(x, y)
    BY <1>5 DEF x, y
  <2> QED
    BY <2>1, <2>2, <2>3 DEF TradeInBook
<1>6. CASE /\ sells # <<>>
           /\ OB!NextTrade(b) =
                OB!processMatch(b["bids"][sells[2]], b["market_asks"][sells[1]])
  <2> DEFINE x == b["bids"][sells[2]]
             y == b["market_asks"][sells[1]]
  <2>1. /\ sells[1] \in 1 .. Len(b["market_asks"]) /\ sells[2] \in 1 .. Len(b["bids"])
        /\ OB!canMatch(y, x)
    BY <1>2, <1>3, <1>6, FirstPairMatches DEF sells
  <2>2. x \in InBook(b) /\ x.flag = FLAG_BUY /\ y \in InBook(b) /\ y.flag = FLAG_SELL
    BY <1>2, <2>1, SidesOfLists
  <2>3. OB!canMatch(x, y)
    BY <2>1, <2>2, MatchesBothWays DEF HasSide
  <2> HIDE DEF x, y
  <2>4. OB!NextTrade(b) = OB!processMatch(x, y)
    BY <1>6 DEF x, y
  <2> QED
    BY <2>2, <2>3, <2>4 DEF TradeInBook
<1> QED
  BY <1>1, <1>4, <1>5, <1>6
\* How large an order is, in the token that its progress is counted in.
Size(o) ==
  IF is_market_order(o) /\ o.a_token_amount # 0
  THEN o.a_token_amount ELSE o.b_token_amount

LEMMA SizeOfBookOrder ==
  ASSUME NEW i, NEW o
  PROVE  /\ OB!get_amount(BookOrder(i, o)) = Size(o)
         /\ OB!Left(BookOrder(i, o)) = Size(o) - o.already_deal_amount
         /\ OB!SizedInA(BookOrder(i, o)) <=>
              is_market_order(o) /\ o.a_token_amount # 0
         /\ OB!isLimitOrder(BookOrder(i, o)) <=> is_limit_order(o)
         /\ OB!isMarketOrder(BookOrder(i, o)) <=> is_market_order(o)
         /\ BookOrder(i, o).price = o.price
BY DEF BookOrder, Size, is_market_order, is_limit_order, OB!get_amount, OB!Left,
       OB!SizedInA, OB!isMarketOrder, OB!isLimitOrder, OB!TYPE_MARKET,
       OB!TYPE_LIMIT, TYPE_MARKET, TYPE_LIMIT

\* What a start puts into the books is stored, and open.
LEMMA StoredLiveAreOpen ==
  ASSUME ServiceInv, NEW m PROVE StoredOpen(m) = StoredLive(m)
<1>1. \A k \in OrderIds : db_orders[k] # NoDoc =>
                            (~Finished(db_orders[k]) <=> is_live(db_orders[k]))
  BY DEF ServiceInv, DocsAreOrders, OrderType, Finished, is_live,
    STATUS_LIVE, STATUS_MATCH, STATUS_PARTIAL_MATCH, STATUS_CANCEL
<1> QED
  BY <1>1 DEF StoredLive, StoredOpen

\* processMatch throws for nothing but a division by zero.
LEMMA ThrownTrade ==
  ASSUME NEW i, NEW j, NEW o \in OrderType, NEW u \in OrderType,
         o.flag = FLAG_BUY, u.flag = FLAG_SELL,
         OB!canMatch(BookOrder(i, o), BookOrder(j, u)),
         OB!processMatch(BookOrder(i, o), BookOrder(j, u)) = OB!Thrown
  PROVE  DividesByZero(o, u) \/ DividesByZero(u, o)
<1> DEFINE buy == BookOrder(i, o)
           sell == BookOrder(j, u)
<1>1. /\ buy.flag = FLAG_BUY /\ sell.flag = FLAG_SELL
      /\ buy.price = o.price /\ sell.price = u.price
      /\ buy.pid = o.pid /\ sell.pid = u.pid
      /\ OB!isLimitOrder(buy) <=> is_limit_order(o)
      /\ OB!isLimitOrder(sell) <=> is_limit_order(u)
      /\ OB!SizedInA(buy) <=> is_market_order(o) /\ o.a_token_amount # 0
      /\ OB!SizedInA(sell) <=> is_market_order(u) /\ u.a_token_amount # 0
  BY SizeOfBookOrder DEF BookOrder
<1> HIDE DEF buy, sell
<1>2. /\ buy.pid # sell.pid
      /\ OB!isLimitOrder(buy) \/ OB!isLimitOrder(sell)
  BY <1>1 DEF OB!canMatch, OB!PricesMeet, OB!FLAG_SELL, FLAG_BUY, FLAG_SELL, buy, sell
<1>3. OB!MatchPrice(buy, sell) = 0 /\ (OB!SizedInA(buy) \/ OB!SizedInA(sell))
  <2>1. OB!Thrown.kind # "trade"
    BY DEF OB!Thrown
  <2>2. OB!processMatch(buy, sell).kind # "trade"
    BY <2>1 DEF buy, sell
  <2> QED
    BY <2>2 DEF OB!processMatch
<1>4. ~(is_market_order(o) /\ is_limit_order(o)) /\ ~(is_market_order(u) /\ is_limit_order(u))
  BY DEF is_market_order, is_limit_order, TYPE_LIMIT, TYPE_MARKET
<1>5. {FLAG_BUY, FLAG_SELL} = {o.flag, u.flag} /\ {u.flag, o.flag} = {FLAG_BUY, FLAG_SELL}
  OBVIOUS
<1> QED
  BY <1>1, <1>2, <1>3, <1>4, <1>5 DEF OB!MatchPrice, DividesByZero

LEMMA ThrowingStart ==
  ASSUME ServiceInv, NEW m \in MarketIds, NEW list \in Found(m),
         Loaded(list).trade = OB!Thrown
  PROVE  \E i, j \in StoredOpen(m) : DividesByZero(db_orders[i], db_orders[j])
<1>1. PICK b : /\ ShowsStored(b, StoredLive(m), m, db_orders)
               /\ Loaded(list) = OB!tryMatchOrder(b)
  BY LoadedIs
<1> DEFINE c == OB!removeMatchOrder(b)
<1>2. /\ GoodBook(b) /\ GoodBook(c)
      /\ InBook(c) = {x \in InBook(b) : OB!isLive(x)}
  BY <1>1, CleanedBook DEF ShowsStored
<1>3. OB!NextTrade(c) = OB!Thrown
  BY <1>1 DEF OB!tryMatchOrder
<1> HIDE DEF c
<1>4. OB!NextTrade(c) # OB!NoTrade
  BY <1>3 DEF OB!Thrown, OB!NoTrade
<1>5. PICK buy \in InBook(c), sell \in InBook(c) :
        /\ buy.flag = FLAG_BUY /\ sell.flag = FLAG_SELL
        /\ OB!canMatch(buy, sell)
        /\ OB!NextTrade(c) = OB!processMatch(buy, sell)
  BY <1>2, <1>4, NextTradeInBook DEF TradeInBook
<1>6. ASSUME NEW x \in InBook(c)
      PROVE  /\ x.id \in StoredLive(m) /\ x = BookOrder(x.id, db_orders[x.id])
             /\ db_orders[x.id] \in OrderType /\ x.flag = db_orders[x.id].flag
  <2>1. x.id \in StoredLive(m) /\ x = BookOrder(x.id, db_orders[x.id])
    BY <1>1, <1>2, <1>6 DEF ShowsStored
  <2>2. db_orders[x.id] \in OrderType
    BY <2>1, StoredLiveAre
  <2>3. x.flag = db_orders[x.id].flag
    BY <2>1 DEF BookOrder
  <2> QED
    BY <2>1, <2>2, <2>3
<1>7. DividesByZero(db_orders[buy.id], db_orders[sell.id])
        \/ DividesByZero(db_orders[sell.id], db_orders[buy.id])
  BY <1>3, <1>5, <1>6, ThrownTrade
<1> QED
  BY <1>6, <1>7, StoredLiveAreOpen

\* RestartRestores: the service's start puts every live order that is stored
\* back into its book, in whatever order the database returns them, unless it
\* throws; and it does not throw but for two of them that divide by zero.
THEOREM RestartRestoresCorrect == ServiceSpec => RestartRestores
<1> DEFINE Restored(m) ==
      InBook(msM'[m]) =
        {o \in {BookOrder(i, db_orders[i]) : i \in StoredOpen(m)} :
           OB!isLive(o) /\ HasSide(o)}
           A == crashes' > crashes =>
                  IF serving'
                  THEN \A m \in MarketIds : db_markets[m] # NoDoc => Restored(m)
                  ELSE \E m \in MarketIds : \E i, j \in StoredOpen(m) :
                         /\ db_markets[m] # NoDoc
                         /\ DividesByZero(db_orders[i], db_orders[j])
<1>1. ServiceInv /\ [ServiceNext]_<<vars, service_vars>> => A
  <2> SUFFICES ASSUME ServiceInv, [ServiceNext]_<<vars, service_vars>>,
                      crashes' > crashes
               PROVE  IF serving'
                      THEN \A m \in MarketIds : db_markets[m] # NoDoc => Restored(m)
                      ELSE \E m \in MarketIds : \E i, j \in StoredOpen(m) :
                             /\ db_markets[m] # NoDoc
                             /\ DividesByZero(db_orders[i], db_orders[j])
    OBVIOUS
  <2>1. Restart
    <3>1. crashes \in Nat /\ crashes' # crashes
      BY DEF ServiceInv, CollectionsType
    <3>2. Listing \/ Moving \/ Ordering \/ AnyTrade => crashes' = crashes
      BY ApplicationSteps, ServiceStepsAreSteps, NextType DEF ServiceInv, AppStep
    <3>3. ApplyEvent \/ UNCHANGED <<vars, service_vars>> => crashes' = crashes
      BY DEF ApplyEvent, service_vars
    <3> QED
      BY <3>1, <3>2, <3>3 DEF ServiceNext
  <2>2. ASSUME serving', NEW m \in MarketIds, db_markets[m] # NoDoc
        PROVE  Restored(m)
    <3>1. /\ ShowsStored(msM'[m], StoredLive(m), m, db_orders)
          /\ AllWanted(msM'[m])
      BY <2>1, <2>2, RestartedBooks
    <3>2. ASSUME NEW i \in StoredLive(m)
          PROVE  /\ i \in OrderIds /\ db_orders[i] # NoDoc
                 /\ HasSide(BookOrder(i, db_orders[i])) <=> HasSide(db_orders[i])
      BY StoredLiveAre, BookOrderIs
    <3> DEFINE wanted ==
          {o \in {BookOrder(i, db_orders[i]) : i \in StoredLive(m)} :
             OB!isLive(o) /\ HasSide(o)}
    <3>3. ASSUME NEW o \in InBook(msM'[m]) PROVE o \in wanted
      <4>1. o.id \in StoredLive(m) /\ o = BookOrder(o.id, db_orders[o.id])
        BY <3>1 DEF ShowsStored
      <4>2. OB!isLive(o) /\ HasSide(o)
        BY <3>1 DEF AllWanted
      <4> QED
        BY <4>1, <4>2
    <3>4. ASSUME NEW o \in wanted PROVE o \in InBook(msM'[m])
      <4>1. PICK i \in StoredLive(m) : o = BookOrder(i, db_orders[i])
        OBVIOUS
      <4>2. OB!isLive(o) /\ HasSide(o)
        OBVIOUS
      <4> HIDE DEF wanted
      <4> QED
        BY <3>1, <3>2, <4>1, <4>2 DEF ShowsStored
    <3> HIDE DEF wanted
    <3>5. InBook(msM'[m]) = wanted
      BY <3>3, <3>4
    <3> QED
      BY <3>5, StoredLiveAreOpen DEF wanted
  <2>3. ASSUME ~serving'
        PROVE  \E m \in MarketIds : \E i, j \in StoredOpen(m) :
                 /\ db_markets[m] # NoDoc
                 /\ DividesByZero(db_orders[i], db_orders[j])
    <3>1. PICK found \in [MarketIds -> UNION {Found(m) : m \in MarketIds}] :
            /\ \A m \in MarketIds : found[m] \in Found(m)
            /\ serving' = ~StartThrows(found)
      BY <2>1 DEF Restart
    <3>2. PICK m \in MarketIds :
            db_markets[m] # NoDoc /\ Loaded(found[m]).trade = OB!Thrown
      BY <2>3, <3>1 DEF StartThrows
    <3>3. found[m] \in Found(m)
      BY <3>1
    <3> QED
      BY <3>2, <3>3, ThrowingStart
  <2> HIDE DEF Restored
  <2> QED
    BY <2>2, <2>3
<1> QED
  BY <1>1, ServiceInvCorrect, PTL DEF ServiceSpec, RestartRestores
-----------------------------------------------------------------------------
(* What the service proposes, in terms of the application's orders.        *)

LEMMA ListedAreOrders ==
  ASSUME ServiceInv, MirrorInv, crashes = 0, inbox = <<>>, NEW m \in MarketIds,
         NEW i \in listed[m]
  PROVE  /\ i \in OrderIds /\ i \in DOMAIN orders /\ orders[i] \in OrderType
         /\ db_orders[i] = orders[i]
         /\ BookOrder(i, orders[i]) \in BookOrders
<1>1. ShowsStored(msM[m], listed[m], m, db_orders)
  BY HandledBooks DEF BookShowsDocs
<1>2. i \in OrderIds /\ db_orders[i] # NoDoc
  BY <1>1 DEF ShowsStored
<1>3. i \in DOMAIN orders /\ orders[i] \in OrderType
  BY <1>2, OrderAt DEF ServiceInv, DocsAreOrders
<1>4. db_orders[i] = orders[i]
  BY <1>2, <1>3, NothingWaits
  DEF MirrorInv, Mirror, OrdersMirrored, Mirrored, Stored
<1> QED
  BY <1>2, <1>3, <1>4, BookOrderIs

\* The two orders of a proposal.
LEMMA ProposedOrders ==
  ASSUME ServiceInv, MirrorInv, crashes = 0, inbox = <<>>, NEW m \in MarketIds,
         Proposed(m).kind = "trade"
  PROVE  LET t == Proposed(m)
             i == t.a_order_id
             j == t.b_order_id
             buy == BookOrder(i, orders[i])
             sell == BookOrder(j, orders[j])
         IN  /\ i \in listed[m] /\ j \in listed[m]
             /\ i \in DOMAIN orders /\ j \in DOMAIN orders
             /\ is_buy(orders[i]) /\ is_sell(orders[j])
             /\ OB!canMatch(buy, sell)
             /\ OB!isLive(buy) /\ OB!isLive(sell)
             /\ t = OB!processMatch(buy, sell)
<1> DEFINE t == Proposed(m)
           b == msM[m]
           c == OB!removeMatchOrder(b)
<1>1. /\ b # NoBook /\ t = OB!tryMatchOrder(b).trade
      /\ t # OB!NoTrade
  BY DEF Proposed, OB!NoTrade
<1>2. t = OB!NextTrade(c)
  BY <1>1 DEF OB!tryMatchOrder
<1>3. GoodBook(b)
  BY <1>1 DEF ServiceInv, BooksShowStored, BookShowsStored, ShowsStored
<1>4. GoodBook(c)
  BY <1>3, CleanedBook
<1>5. InBook(c) = {o \in {BookOrder(i, orders[i]) : i \in listed[m]} :
                     OB!isLive(o) /\ HasSide(o)}
  BY <1>1, BooksAreExact DEF BookIsExact, Handled
<1> HIDE DEF t, b, c
<1>6. PICK buy \in InBook(c), sell \in InBook(c) :
        /\ buy.flag = FLAG_BUY /\ sell.flag = FLAG_SELL
        /\ OB!canMatch(buy, sell)
        /\ t = OB!processMatch(buy, sell)
  BY <1>1, <1>2, <1>4, NextTradeInBook DEF TradeInBook
<1>7. PICK i \in listed[m] : buy = BookOrder(i, orders[i]) /\ OB!isLive(buy)
  BY <1>5
<1>8. PICK j \in listed[m] : sell = BookOrder(j, orders[j]) /\ OB!isLive(sell)
  BY <1>5
<1>9. t.a_order_id = i /\ t.b_order_id = j
  <2>1. t.kind = "trade"
    BY DEF t
  <2>2. t.a_order_id = buy.id /\ t.b_order_id = sell.id
    BY <1>6, <2>1 DEF OB!processMatch, OB!Thrown
  <2> QED
    BY <1>7, <1>8, <2>2 DEF BookOrder
<1>10. is_buy(orders[i]) /\ is_sell(orders[j])
  BY <1>6, <1>7, <1>8 DEF BookOrder, is_buy, is_sell
<1>11. i \in DOMAIN orders /\ j \in DOMAIN orders
  BY <1>7, <1>8, ListedAreOrders
<1> QED
  BY <1>6, <1>7, <1>8, <1>9, <1>10, <1>11 DEF t

LEMMA NeverOverfilledIs ==
  NeverOverfilled <=>
    \A i \in DOMAIN orders : orders[i].already_deal_amount <= Size(orders[i])
BY SizeOfBookOrder DEF NeverOverfilled

LEMMA SizeIsNat ==
  ASSUME NEW o \in OrderType
  PROVE  /\ Size(o) \in Nat /\ o.already_deal_amount \in Nat
         /\ o.price \in Nat /\ o.lock_balance \in U64
BY WidthAssumption DEF OrderType, Size, U64

\* A trade leaves an order within its size.
Fits(o, a_amount, b_amount) ==
  o.already_deal_amount + DealAmount(o, a_amount, b_amount) <= Size(o)

\* A proposal takes no more of an order than is left of it.
LEMMA ProposalFits ==
  ASSUME ServiceInv, MirrorInv, crashes = 0, inbox = <<>>, NeverOverfilled,
         NEW m \in MarketIds, Proposed(m).kind = "trade"
  PROVE  LET t == Proposed(m)
             a == orders[t.a_order_id]
             b == orders[t.b_order_id]
             buy == BookOrder(t.a_order_id, a)
             sell == BookOrder(t.b_order_id, b)
         IN  /\ t.a_actual_amount \in Nat /\ t.b_actual_amount \in Nat
             /\ t.a_actual_amount =
                  (t.b_actual_amount * OB!MatchPrice(buy, sell)) \div Precision
             /\ Fits(a, t.a_actual_amount, t.b_actual_amount)
             /\ Fits(b, t.a_actual_amount, t.b_actual_amount)
<1> DEFINE t == Proposed(m)
           i == t.a_order_id
           j == t.b_order_id
           a == orders[i]
           b == orders[j]
           buy == BookOrder(i, a)
           sell == BookOrder(j, b)
           x == t.a_actual_amount
           y == t.b_actual_amount
<1>1. /\ i \in listed[m] /\ j \in listed[m]
      /\ i \in DOMAIN orders /\ j \in DOMAIN orders
      /\ t = OB!processMatch(buy, sell) /\ t.kind = "trade"
  BY ProposedOrders
<1>2. a \in OrderType /\ b \in OrderType
  BY <1>1, ListedAreOrders
<1>3. /\ Size(a) \in Nat /\ a.already_deal_amount \in Nat
      /\ a.already_deal_amount <= Size(a)
      /\ Size(b) \in Nat /\ b.already_deal_amount \in Nat
      /\ b.already_deal_amount <= Size(b)
  BY <1>1, <1>2, SizeIsNat, NeverOverfilledIs
<1>4. a.price \in Nat /\ b.price \in Nat
  BY <1>2, SizeIsNat
<1> HIDE DEF t, i, j, a, b
<1>5. /\ OB!Left(buy) = Size(a) - a.already_deal_amount
      /\ OB!Left(sell) = Size(b) - b.already_deal_amount
      /\ OB!SizedInA(buy) <=> is_market_order(a) /\ a.a_token_amount # 0
      /\ OB!SizedInA(sell) <=> is_market_order(b) /\ b.a_token_amount # 0
      /\ buy.price = a.price /\ sell.price = b.price
  BY SizeOfBookOrder
<1>6. OB!Left(buy) \in Nat /\ OB!Left(sell) \in Nat
  BY <1>3, <1>5
<1>7. /\ MP!Left(buy) \in Nat /\ MP!Left(sell) \in Nat
      /\ buy.price \in Nat /\ sell.price \in Nat
      /\ t = MP!processMatch(buy, sell)
  BY <1>1, <1>4, <1>5, <1>6, SameMatch
<1> HIDE DEF buy, sell
<1>8. /\ y \in Nat
      /\ x = (y * MP!MatchPrice(buy, sell)) \div Precision
      /\ x \in Nat
      /\ \A o \in {buy, sell} :
           IF MP!SizedInA(o) THEN x <= MP!Left(o) ELSE y <= MP!Left(o)
  BY <1>1, <1>7, BooksAreMatchers, MP!TradedAmounts
<1>9. \A o \in {buy, sell} :
        IF OB!SizedInA(o) THEN x <= OB!Left(o) ELSE y <= OB!Left(o)
  BY <1>8, SameMatch
<1>10. x = (y * OB!MatchPrice(buy, sell)) \div Precision
  BY <1>8, SameMatch
<1> HIDE DEF x, y
<1>11. Fits(a, x, y)
  BY <1>3, <1>5, <1>8, <1>9 DEF Fits, DealAmount
<1>12. Fits(b, x, y)
  BY <1>3, <1>5, <1>8, <1>9 DEF Fits, DealAmount
<1> QED
  BY <1>8, <1>10, <1>11, <1>12 DEF t, i, j, a, b, buy, sell, x, y

-----------------------------------------------------------------------------
(* NeverOverfilled.                                                        *)

LEMMA OrdersFit ==
  ASSUME TypeOK, TypeOK', NeverOverfilled, BooksStep, trades' = trades
  PROVE  NeverOverfilled'
<1>0. /\ \A i \in DOMAIN orders :
           orders[i] \in OrderType /\ orders[i].already_deal_amount <= Size(orders[i])
      /\ Len(trades) \in Nat
  BY NeverOverfilledIs, OrderAt DEF TypeOK
<1> SUFFICES ASSUME NEW i \in DOMAIN orders'
             PROVE  orders'[i].already_deal_amount <= Size(orders'[i])
  BY SizeOfBookOrder DEF NeverOverfilled
<1>1. CASE BooksKept
  BY <1>0, <1>1 DEF BooksKept
<1>2. ASSUME NEW o, PlacedNow(o)
      PROVE  orders'[i].already_deal_amount <= Size(orders'[i])
  <2>1. CASE i \in DOMAIN orders
    BY <1>0, <1>2, <2>1, PlacedOrders
  <2>2. CASE i = Len(orders) + 1
    <3>1. orders'[i] = o /\ o \in OrderType /\ o.already_deal_amount = 0
      BY <1>2, <2>2, PlacedOrders DEF PlacedNow, Fresh
    <3> QED
      BY <3>1, SizeIsNat
  <2> QED
    BY <1>2, <2>1, <2>2, PlacedOrders
<1>3. ASSUME NEW k, CancelledNow(k)
      PROVE  orders'[i].already_deal_amount <= Size(orders'[i])
  <2>1. /\ i \in DOMAIN orders /\ SameTerms(orders[i], orders'[i])
        /\ orders'[i].already_deal_amount = orders[i].already_deal_amount
    BY <1>3, CancelledOrders DEF SameTerms
  <2> QED
    BY <1>0, <2>1 DEF SameTerms, Size, is_market_order
<1>4. ASSUME NEW j, NEW k, NEW x, NEW y, TradedNow(j, k, x, y) PROVE FALSE
  BY <1>0, <1>4, TradesAppended DEF TradedNow
<1> QED
  BY <1>1, <1>2, <1>3, <1>4 DEF BooksStep

LEMMA TradedFit ==
  ASSUME TypeOK, TypeOK', NeverOverfilled, NEW i, NEW j, NEW x, NEW y,
         TradedNow(i, j, x, y), Fits(orders[i], x, y), Fits(orders[j], x, y)
  PROVE  NeverOverfilled'
<1>1. /\ i \in DOMAIN orders /\ j \in DOMAIN orders
      /\ x \in Nat /\ y \in Nat
      /\ orders[i] \in OrderType /\ orders[j] \in OrderType
      /\ DOMAIN orders' = DOMAIN orders
      /\ \A k \in DOMAIN orders : k # i /\ k # j => orders'[k] = orders[k]
      /\ Advanced(orders[i], orders'[i], DealAmount(orders[i], x, y))
      /\ Advanced(orders[j], orders'[j], DealAmount(orders[j], x, y))
  BY TradedEffect
<1>2. ASSUME NEW o \in OrderType, NEW n, Fits(o, x, y),
             Advanced(o, n, DealAmount(o, x, y))
      PROVE  n.already_deal_amount <= Size(n)
  <2>1. DealAmount(o, x, y) \in Nat /\ o.already_deal_amount \in Nat
        /\ Size(o) \in Nat
    BY <1>1, SizeIsNat DEF DealAmount
  <2> DEFINE d == o.already_deal_amount + DealAmount(o, x, y)
  <2>2. d \in Nat /\ d <= Size(o)
    BY <1>2, <2>1 DEF Fits
  <2>3. n.already_deal_amount = Wrap(d) /\ SameTerms(o, n)
    BY <1>2 DEF Advanced
  <2> HIDE DEF d
  <2>4. Wrap(d) \in 0 .. d
    BY <2>2, WrapAtMost
  <2>5. Size(n) = Size(o)
    BY <2>3 DEF SameTerms, Size, is_market_order
  <2> QED
    BY <2>1, <2>2, <2>3, <2>4, <2>5
<1>3. \A k \in DOMAIN orders' : orders'[k].already_deal_amount <= Size(orders'[k])
  BY <1>1, <1>2, NeverOverfilledIs
<1> QED
  BY <1>3, SizeOfBookOrder DEF NeverOverfilled

\* The admin who follows the service reports what he likes: a proposal is made
\* of amounts that fit a u64.
LEMMA ProposalsAreTrades ==
  ASSUME ServiceInv, MirrorInv, crashes = 0, NeverOverfilled, TradeAmounts = U64,
         ProposedTrade
  PROVE  \E i, j \in OrderIds, x, y \in TradeAmounts :
           /\ Report(i, j, x, y)
           /\ Fits(orders[i], x, y) /\ Fits(orders[j], x, y)
<1>1. PICK m \in MarketIds :
        /\ Proposed(m).kind = "trade"
        /\ Report(Proposed(m).a_order_id, Proposed(m).b_order_id,
                  Proposed(m).a_actual_amount, Proposed(m).b_actual_amount)
  BY DEF ProposedTrade
<1> DEFINE t == Proposed(m)
           i == t.a_order_id
           j == t.b_order_id
           x == t.a_actual_amount
           y == t.b_actual_amount
<1>2. inbox = <<>> /\ AddTrade(Admin, i, j, x, y)
  BY <1>1 DEF Report, Emits
<1>3. /\ i \in listed[m] /\ j \in listed[m]
      /\ x \in Nat /\ y \in Nat
      /\ Fits(orders[i], x, y) /\ Fits(orders[j], x, y)
  BY <1>1, <1>2, ProposedOrders, ProposalFits
<1>4. /\ i \in OrderIds /\ orders[i] \in OrderType
      /\ j \in OrderIds /\ orders[j] \in OrderType
  BY <1>2, <1>3, ListedAreOrders
<1> HIDE DEF t, i, j, x, y
<1>5. orders[i].lock_balance >= x /\ orders[j].lock_balance >= y
  BY <1>2 DEF AddTrade, CanTrade
<1>6. x \in U64 /\ y \in U64
  BY <1>3, <1>4, <1>5, SizeIsNat, WidthAssumption DEF U64
<1>7. Report(i, j, x, y)
  BY <1>1 DEF t, i, j, x, y
<1> QED
  BY <1>3, <1>4, <1>6, <1>7

\* A step in which a trade takes no more than what is left of its orders.
FittingStep ==
  \/ BooksKept
  \/ \E o : PlacedNow(o)
  \/ \E i : CancelledNow(i)
  \/ \E i, j, x, y : /\ TradedNow(i, j, x, y)
                     /\ Fits(orders[i], x, y) /\ Fits(orders[j], x, y)

LEMMA FittingKept ==
  TypeOK /\ TypeOK' /\ NeverOverfilled /\ FittingStep => NeverOverfilled'
<1> SUFFICES ASSUME TypeOK, TypeOK', NeverOverfilled, FittingStep
             PROVE  NeverOverfilled'
  OBVIOUS
<1>1. ASSUME \/ BooksKept
             \/ \E o : PlacedNow(o)
             \/ \E i : CancelledNow(i)
      PROVE  NeverOverfilled'
  <2>1. BooksStep /\ trades' = trades
    BY <1>1 DEF BooksStep, BooksKept, PlacedNow, CancelledNow
  <2> QED
    BY <2>1, OrdersFit
<1>2. ASSUME NEW i, NEW j, NEW x, NEW y, TradedNow(i, j, x, y),
             Fits(orders[i], x, y), Fits(orders[j], x, y)
      PROVE  NeverOverfilled'
  BY <1>2, TradedFit
<1> QED
  BY <1>1, <1>2 DEF FittingStep

FollowInv == ServiceInv /\ MirrorInv /\ crashes = 0 /\ NeverOverfilled

LEMMA FollowStepIs ==
  ASSUME FollowInv, TradeAmounts = U64, [FollowNext]_<<vars, service_vars>>
  PROVE  [ServiceNext]_<<vars, service_vars>> /\ crashes' = 0
<1>1. ASSUME ProposedTrade PROVE AnyTrade
  BY <1>1, ProposalsAreTrades DEF FollowInv, AnyTrade
<1>2. ASSUME FollowNext PROVE crashes' = crashes
  BY <1>2 DEF FollowNext, Listing, Moving, Ordering, ProposedTrade, Report,
              Emits, ApplyEvent
<1> QED
  BY <1>1, <1>2 DEF FollowInv, FollowNext, ServiceNext, service_vars

LEMMA FollowStepFits ==
  ASSUME FollowInv, TradeAmounts = U64, [FollowNext]_<<vars, service_vars>>,
         [Next]_vars, TypeOK'
  PROVE  FittingStep
<1>1. TypeOK /\ ServiceInv /\ MirrorInv /\ crashes = 0 /\ NeverOverfilled
  BY DEF FollowInv, ServiceInv
<1>2. CASE ProposedTrade
  <2>1. PICK i \in OrderIds, j \in OrderIds, x \in TradeAmounts, y \in TradeAmounts :
          /\ Report(i, j, x, y)
          /\ Fits(orders[i], x, y) /\ Fits(orders[j], x, y)
    BY <1>1, <1>2, ProposalsAreTrades
  <2>2. TradedNow(i, j, x, y)
    BY <1>1, <2>1, TradeIsTraded DEF Report
  <2> QED
    BY <2>1, <2>2 DEF FittingStep
<1>3. CASE ~ProposedTrade
  <2>1. trades' = trades
    <3>1. ASSUME Listing PROVE trades' = trades
      <4>1. \A p, t, a : StoreToken(p, t, a) => trades' = trades
        BY DEF StoreToken
      <4>2. \A p, t, u, n : AddMarket(p, t, u, n) => trades' = trades
        BY DEF AddMarket
      <4>3. \A p, m : CloseMarket(p, m) => trades' = trades
        BY DEF CloseMarket
      <4> QED
        BY <3>1, <4>1, <4>2, <4>3 DEF Listing, AddToken, UpdateToken
    <3>2. ASSUME Moving PROVE trades' = trades
      <4>1. \A p : RegisterPlayer(p) => trades' = trades
        BY DEF RegisterPlayer
      <4>2. \A s, p, t, n : Deposit(s, p, t, n) \/ Transfer(s, p, t, n)
                             => trades' = trades
        BY DEF Deposit, Transfer
      <4>3. \A p, t, n : Withdraw(p, t, n) => trades' = trades
        BY DEF Withdraw
      <4>4. FlushSettlement => trades' = trades
        BY DEF FlushSettlement
      <4> QED
        BY <3>2, <4>1, <4>2, <4>3, <4>4 DEF Moving
    <3>3. ASSUME Ordering PROVE trades' = trades
      BY <3>3 DEF Ordering, AddLimitOrder, AddMarketOrder, PlaceOrder, CancelOrder
    <3>4. ASSUME UNCHANGED vars PROVE trades' = trades
      BY <3>4 DEF vars
    <3>5. ASSUME ApplyEvent \/ UNCHANGED <<vars, service_vars>> PROVE UNCHANGED vars
      BY <3>5 DEF ApplyEvent
    <3> QED
      BY <1>3, <3>1, <3>2, <3>3, <3>4, <3>5 DEF FollowNext
  <2>2. BooksStep
    BY <1>1, EveryStep
  <2>3. ASSUME NEW i, NEW j, NEW x, NEW y, TradedNow(i, j, x, y)
        PROVE  FALSE
    <3>1. PICK tr : trades' = Append(trades, tr)
      BY <2>3 DEF TradedNow
    <3>2. Len(trades) \in Nat /\ Len(trades') = Len(trades) + 1
      BY <1>1, <3>1, TradesAppended
    <3> QED
      BY <2>1, <3>2
  <2> QED
    BY <2>2, <2>3 DEF BooksStep, FittingStep
<1> QED
  BY <1>2, <1>3

LEMMA FollowInvNext ==
  FollowInv /\ TradeAmounts = U64 /\ [FollowNext]_<<vars, service_vars>>
    => FollowInv'
<1> SUFFICES ASSUME FollowInv, TradeAmounts = U64,
                    [FollowNext]_<<vars, service_vars>>
             PROVE  FollowInv'
  OBVIOUS
<1>1. /\ [ServiceNext]_<<vars, service_vars>> /\ crashes' = 0
      /\ ServiceInv /\ MirrorInv /\ crashes = 0 /\ NeverOverfilled
  BY FollowStepIs DEF FollowInv
<1>2. ServiceInv' /\ MirrorInv'
  BY <1>1, ServiceInvNext, MirrorInvNext
<1>3. [Next]_vars /\ TypeOK /\ TypeOK'
  BY <1>1, <1>2, ServiceStepsAreSteps DEF ServiceInv
<1>4. FittingStep
  BY <1>3, FollowStepFits
<1> QED
  BY <1>1, <1>2, <1>3, <1>4, FittingKept DEF FollowInv

LEMMA FollowInvInit == ServiceInit => FollowInv
<1> SUFFICES ASSUME ServiceInit PROVE FollowInv
  OBVIOUS
<1>1. ServiceInv /\ MirrorInv /\ crashes = 0
  BY ServiceInvInit, MirrorInvInit DEF ServiceInit, EmptyService
<1>2. NeverOverfilled
  BY DEF ServiceInit, Init, NeverOverfilled
<1> QED
  BY <1>1, <1>2 DEF FollowInv

LEMMA FollowInvCorrect ==
  ASSUME TradeAmounts = U64 PROVE FollowSpec => []FollowInv
<1>1. FollowInv /\ [FollowNext]_<<vars, service_vars>> => FollowInv'
  BY FollowInvNext
<1> QED
  BY <1>1, FollowInvInit, PTL DEF FollowSpec

\* NeverOverfilled: add_trade does not ask how much the buyer still wants, but
\* the admin who reports what the service logs, and can report any u64, never
\* fills an order beyond its size.
THEOREM NeverOverfilledCorrect ==
  ASSUME TradeAmounts = U64 PROVE FollowSpec => []NeverOverfilled
<1>1. FollowInv => NeverOverfilled
  BY DEF FollowInv
<1> QED
  BY <1>1, FollowInvCorrect, PTL

-----------------------------------------------------------------------------
(* ProposalsAreAccepted.                                                   *)

\* A quotient of a sum is at least the sum of the quotients.
LEMMA MulDivOfSum ==
  ASSUME NEW p \in Nat, NEW u \in Nat, NEW v \in Nat
  PROVE  /\ MulDiv(p, u) \in Nat /\ MulDiv(p, v) \in Nat /\ MulDiv(p, u + v) \in Nat
         /\ MulDiv(p, u) + MulDiv(p, v) <= MulDiv(p, u + v)
<1>1. ASSUME NEW d \in Nat \ {0}, NEW m \in Nat, NEW n \in Nat
      PROVE  /\ m \div d \in Nat /\ n \div d \in Nat /\ (m + n) \div d \in Nat
             /\ m \div d + n \div d <= (m + n) \div d
  <2> DEFINE q == m \div d
             r == n \div d
             s == (m + n) \div d
  <2>1. q \in Nat /\ r \in Nat /\ s \in Nat
    OBVIOUS
  <2>2. d * q <= m /\ d * r <= n
    OBVIOUS
  <2>3. m + n < d * (s + 1)
    OBVIOUS
  <2> HIDE DEF q, r, s
  <2>4. ASSUME s + 1 <= q + r PROVE FALSE
    <3>1. PICK k \in Nat : q + r = (s + 1) + k
      <4>1. (q + r) - (s + 1) \in Nat /\ q + r = (s + 1) + ((q + r) - (s + 1))
        BY <2>1, <2>4
      <4> QED
        BY <4>1
    <3>2. d * q + d * r = d * (s + 1) + d * k
      <4>1. d * (q + r) = d * q + d * r
        BY <2>1
      <4>2. d * ((s + 1) + k) = d * (s + 1) + d * k
        BY <2>1, <3>1
      <4> QED
        BY <3>1, <4>1, <4>2
    <3>3. d * q \in Nat /\ d * r \in Nat /\ d * (s + 1) \in Nat /\ d * k \in Nat
      BY <2>1, <3>1
    <3> HIDE <3>1
    <3> QED
      BY <2>2, <2>3, <3>2, <3>3
  <2>5. q + r <= s
    BY <2>1, <2>4
  <2> QED
    BY <2>1, <2>5 DEF q, r, s
<1>2. p * u \in Nat /\ p * v \in Nat /\ p * (u + v) = p * u + p * v
  OBVIOUS
<1> QED
  BY <1>1, <1>2, ConfigAssumption DEF MulDiv

LEMMA MulDivCommutes ==
  ASSUME NEW x \in Nat, NEW y \in Nat PROVE MulDiv(x, y) = MulDiv(y, x)
<1>1. x * y = y * x
  OBVIOUS
<1> QED
  BY <1>1 DEF MulDiv

\* An order whose progress is its size in token_b counts as matched, and one
\* that has not made any progress as live.
StatusKnownOf(o) ==
  o.status = STATUS_MATCH => o.already_deal_amount = o.b_token_amount

\* What a live limit buy order keeps locked pays for what it still wants, unless
\* it was asked for with another flag and has locked something else.
CoversBuy(o) ==
  is_limit_order(o) /\ is_buy(o) /\ ~Turned(o) /\ is_live(o) =>
    MulDiv(o.price, o.b_token_amount - o.already_deal_amount) <= o.lock_balance

BuysAreCovered ==
  \A i \in DOMAIN orders : StatusKnownOf(orders[i]) /\ CoversBuy(orders[i])

LEMMA FreshBuy == ASSUME NEW o, Fresh(o) PROVE StatusKnownOf(o) /\ CoversBuy(o)
<1>1. /\ o.status = STATUS_LIVE /\ o.already_deal_amount = 0
      /\ o.price \in Nat /\ o.b_token_amount \in Nat /\ o.lock_balance \in Nat
      /\ is_limit_order(o) =>
           o.lock_balance = LimitCost(o.asked, o.price, o.b_token_amount)
  BY DEF Fresh, OrderType, U64
<1>2. is_limit_order(o) /\ is_buy(o) /\ ~Turned(o)
        => o.lock_balance = MulDiv(o.price, o.b_token_amount)
  BY <1>1, MulDivCommutes DEF LimitCost, Turned
<1>3. o.b_token_amount - o.already_deal_amount = o.b_token_amount
  BY <1>1
<1> QED
  BY <1>1, <1>2, <1>3 DEF StatusKnownOf, CoversBuy, STATUS_LIVE, STATUS_MATCH

\* The buyer's side of a trade that fits.
LEMMA BuyerIsCovered ==
  ASSUME NEW o \in OrderType, NEW n, NEW x \in Nat, NEW y \in Nat,
         CoversBuy(o), is_live(o), Fits(o, x, y), x <= o.lock_balance,
         is_limit_order(o) => x <= MulDiv(o.price, y),
         Advanced(o, n, DealAmount(o, x, y)),
         n.lock_balance = IF n.status = STATUS_MATCH THEN 0 ELSE o.lock_balance - x
  PROVE  StatusKnownOf(n) /\ CoversBuy(n)
<1>1. StatusKnownOf(n)
  BY DEF Advanced, StatusKnownOf, STATUS_MATCH, STATUS_PARTIAL_MATCH
<1>2. ASSUME is_limit_order(n), is_buy(n), ~Turned(n), is_live(n)
      PROVE  MulDiv(n.price, n.b_token_amount - n.already_deal_amount)
               <= n.lock_balance
  <2>1. /\ is_limit_order(o) /\ is_buy(o) /\ ~Turned(o) /\ ~is_market_order(o)
        /\ n.price = o.price /\ n.b_token_amount = o.b_token_amount
    BY <1>2 DEF Advanced, SameTerms, is_limit_order, is_buy, Turned,
                is_market_order, TYPE_LIMIT, TYPE_MARKET
  <2>2. /\ o.price \in Nat /\ o.b_token_amount \in Nat
        /\ o.already_deal_amount \in Nat /\ o.lock_balance \in Nat
        /\ o.b_token_amount <= MaxU64 /\ MaxU64 \in Nat
    BY WidthAssumption DEF OrderType, U64
  <2>3. /\ DealAmount(o, x, y) = y /\ Size(o) = o.b_token_amount
    BY <2>1 DEF DealAmount, Size
  <2>4. /\ o.already_deal_amount + y \in Nat
        /\ o.already_deal_amount + y <= o.b_token_amount
        /\ o.already_deal_amount + y <= MaxU64
    BY <2>2, <2>3 DEF Fits
  <2>5. n.already_deal_amount = o.already_deal_amount + y
    BY <2>3, <2>4, WrapAtMost DEF Advanced
  <2>6. n.lock_balance = o.lock_balance - x
    BY <1>2 DEF is_live, STATUS_MATCH, STATUS_LIVE, STATUS_PARTIAL_MATCH
  <2> DEFINE u == n.b_token_amount - n.already_deal_amount
             v == o.b_token_amount - o.already_deal_amount
  <2>7. u \in Nat /\ v = u + y
    BY <2>1, <2>2, <2>4, <2>5
  <2>8. MulDiv(o.price, v) <= o.lock_balance
    BY <2>1 DEF CoversBuy
  <2>9. x <= MulDiv(o.price, y)
    BY <2>1
  <2> HIDE DEF u, v
  <2>10. /\ MulDiv(o.price, u) \in Nat /\ MulDiv(o.price, y) \in Nat
         /\ MulDiv(o.price, u + y) \in Nat
         /\ MulDiv(o.price, u) + MulDiv(o.price, y) <= MulDiv(o.price, u + y)
    BY <2>2, <2>7, MulDivOfSum
  <2> DEFINE left == MulDiv(o.price, u)
             paid_ == MulDiv(o.price, y)
             all == MulDiv(o.price, u + y)
  <2>11. all <= o.lock_balance /\ x <= paid_
    BY <2>7, <2>8, <2>9
  <2>12. left \in Nat /\ paid_ \in Nat /\ all \in Nat /\ left + paid_ <= all
    BY <2>10
  <2> HIDE DEF left, paid_, all
  <2>13. left <= o.lock_balance - x
    BY <2>2, <2>11, <2>12
  <2> QED
    BY <2>1, <2>6, <2>13 DEF left, u
<1> QED
  BY <1>1, <1>2 DEF CoversBuy

LEMMA BuysKept ==
  TypeOK /\ TypeOK' /\ BuysAreCovered /\ FittingStep => BuysAreCovered'
<1> SUFFICES ASSUME TypeOK, TypeOK', BuysAreCovered, FittingStep,
                    NEW k \in DOMAIN orders'
             PROVE  StatusKnownOf(orders'[k]) /\ CoversBuy(orders'[k])
  BY DEF BuysAreCovered, StatusKnownOf, CoversBuy
<1>1. \A i \in DOMAIN orders : StatusKnownOf(orders[i]) /\ CoversBuy(orders[i])
  BY DEF BuysAreCovered
<1>2. CASE BooksKept
  BY <1>1, <1>2 DEF BooksKept
<1>3. CASE \E o : PlacedNow(o)
  BY <1>1, <1>3, PlacedOrders, FreshBuy DEF PlacedNow
<1>4. ASSUME NEW i, CancelledNow(i)
      PROVE  StatusKnownOf(orders'[k]) /\ CoversBuy(orders'[k])
  <2>1. CASE k = i
    <3>1. orders'[k].status = STATUS_CANCEL
      BY <1>4, <2>1, CancelledOrders
    <3> QED
      BY <3>1 DEF StatusKnownOf, CoversBuy, is_live, STATUS_CANCEL, STATUS_MATCH,
                  STATUS_LIVE, STATUS_PARTIAL_MATCH
  <2>2. CASE k # i
    BY <1>1, <1>4, <2>2, CancelledOrders
  <2> QED
    BY <2>1, <2>2
<1>5. ASSUME NEW i, NEW j, NEW x, NEW y, TradedNow(i, j, x, y),
             Fits(orders[i], x, y)
      PROVE  StatusKnownOf(orders'[k]) /\ CoversBuy(orders'[k])
  <2>1. CASE k = i
    <3>1. /\ x \in U64 /\ y \in U64 /\ x \in Nat /\ y \in Nat
          /\ CanTrade(orders[i], orders[j], x, y)
      BY <1>5, TradedEffect DEF TradedNow
    <3>2. /\ i \in DOMAIN orders /\ orders[i] \in OrderType /\ orders[j] \in OrderType
          /\ x <= orders[i].lock_balance /\ is_live(orders[i])
          /\ Advanced(orders[i], orders'[i], DealAmount(orders[i], x, y))
          /\ orders'[i].lock_balance =
               IF orders'[i].status = STATUS_MATCH THEN 0
               ELSE orders[i].lock_balance - x
      BY <1>5, TradedEffect
    <3>3. is_limit_order(orders[i]) => x <= MulDiv(orders[i].price, y)
      BY <3>1, <3>2, PriceWithinLimits
    <3>4. CoversBuy(orders[i])
      BY <1>1, <3>2
    <3> QED
      BY <1>5, <2>1, <3>1, <3>2, <3>3, <3>4, BuyerIsCovered
  <2>2. CASE k = j
    <3>1. is_sell(orders[j]) /\ Advanced(orders[j], orders'[j], DealAmount(orders[j], x, y))
      BY <1>5, TradedEffect
    <3>2. ~is_buy(orders'[j])
      BY <3>1 DEF Advanced, SameTerms, is_sell, is_buy, FLAG_BUY, FLAG_SELL
    <3> QED
      BY <2>2, <3>1, <3>2 DEF Advanced, StatusKnownOf, CoversBuy, STATUS_MATCH,
                              STATUS_PARTIAL_MATCH
  <2>3. CASE k # i /\ k # j
    BY <1>1, <1>5, <2>3, TradedEffect
  <2> QED
    BY <2>1, <2>2, <2>3
<1> QED
  BY <1>2, <1>3, <1>4, <1>5 DEF FittingStep

\* As long as nothing has crashed, a closed market has its MARKET event waiting,
\* or only cancelled orders are in its book or about to come into it.
ClosedQuiet ==
  \A m \in DOMAIN markets :
    is_close(markets[m]) =>
      \/ inbox = <<MarketEvent(m)>>
      \/ \A i \in DOMAIN orders :
           /\ orders[i].market_id = m
           /\ i \in listed[m] \/ Has(inbox, OrderEvent(i))
           => orders[i].status = STATUS_CANCEL

LEMMA CancelledStay ==
  ASSUME TypeOK, TypeOK', BooksStep, NEW i \in DOMAIN orders,
         orders[i].status = STATUS_CANCEL
  PROVE  orders'[i].status = STATUS_CANCEL
<1>1. ~is_live(orders[i])
  BY DEF is_live, STATUS_CANCEL, STATUS_LIVE, STATUS_PARTIAL_MATCH
<1>2. CASE BooksKept
  BY <1>2 DEF BooksKept
<1>3. CASE \E o : PlacedNow(o)
  BY <1>3, PlacedOrders
<1>4. CASE \E k : CancelledNow(k)
  BY <1>1, <1>4, CancelledOrders
<1>5. CASE \E j, k, x, y : TradedNow(j, k, x, y)
  BY <1>1, <1>5, TradedEffect
<1> QED
  BY <1>2, <1>3, <1>4, <1>5 DEF BooksStep

LEMMA AppKeepsClosedQuiet ==
  ASSUME ServiceInv, TypeOK', [Next]_vars, AppStep, ClosedQuiet
  PROVE  ClosedQuiet'
<1>1. /\ TypeOK /\ BooksStep /\ inbox = <<>> /\ UNCHANGED listed
      /\ ClosedMarketsQuiet
  BY EveryStep DEF ServiceInv, AppStep, Announced
<1> SUFFICES ASSUME NEW m \in DOMAIN markets', is_close(markets'[m]),
                    inbox' # <<MarketEvent(m)>>,
                    NEW i \in DOMAIN orders', orders'[i].market_id = m,
                    i \in listed'[m] \/ Has(inbox', OrderEvent(i))
             PROVE  orders'[i].status = STATUS_CANCEL
  BY DEF ClosedQuiet
<1>2. /\ m \in DOMAIN markets /\ is_close(markets[m])
      /\ Has(inbox', OrderEvent(i)) => orders'[i].status = STATUS_CANCEL
  BY <1>1 DEF ClosedMarketsQuiet
<1>3. ASSUME i \in listed[m] PROVE orders'[i].status = STATUS_CANCEL
  <2>1. m \in MarketIds
    BY <1>2, IdsInBounds DEF ServiceInv
  <2>2. ShowsStored(msM[m], listed[m], m, db_orders)
    BY <1>1, <1>3, <2>1, HandledBooks DEF BookShowsDocs
  <2>3. i \in OrderIds /\ db_orders[i] # NoDoc /\ db_orders[i].market_id = m
    BY <1>3, <2>2 DEF ShowsStored
  <2>4. i \in DOMAIN orders /\ orders[i].market_id = m
    BY <2>3 DEF ServiceInv, DocsAreOrders, SameTerms
  <2>5. inbox # <<MarketEvent(m)>>
    BY <1>1
  <2>6. orders[i].status = STATUS_CANCEL
    BY <1>2, <1>3, <2>4, <2>5 DEF ClosedQuiet
  <2> QED
    BY <1>1, <2>4, <2>6, CancelledStay
<1> QED
  BY <1>1, <1>2, <1>3

\* What applying an event puts into a book.
LEMMA ListedNow ==
  ASSUME ServiceInv, ApplyEvent, ~Storing, NEW m \in MarketIds
  PROVE  /\ Head(inbox) = MarketEvent(m) => listed'[m] = {}
         /\ \A i \in listed'[m] : i \in listed[m] \/ Head(inbox) = OrderEvent(i)
<1> DEFINE e == Head(inbox)
<1>1. /\ inbox # <<>> /\ DOMAIN listed = MarketIds
      /\ inbox \in Seq(EventType)
  BY ApplyKinds DEF ServiceInv, CollectionsType, InboxType
<1>2. e \in EventType
  BY <1>1, EventsAfter
<1>3. CASE e.kind = "market" /\ OpenBook(e.market_id)
  <2>1. listed' = [listed EXCEPT ![e.market_id] = {}]
    BY <1>3 DEF OpenBook
  <2>2. e = MarketEvent(m) => e.market_id = m
    BY DEF MarketEvent
  <2> HIDE DEF e
  <2> QED
    BY <1>1, <2>1, <2>2 DEF e
<1>4. CASE e.kind = "order" /\ ListOrder(e.order_id)
  <2>1. e = OrderEvent(e.order_id) /\ e # MarketEvent(m)
    <3>1. e = OrderEvent(e.order_id)
      BY <1>2, <1>4, EventIs
    <3>2. e # MarketEvent(m)
      BY <1>4 DEF MarketEvent
    <3> QED
      BY <3>1, <3>2
  <2>2. \/ listed' = listed
        \/ listed' = [listed EXCEPT ![orders[e.order_id].market_id] =
                        @ \cup {e.order_id}]
    BY <1>4 DEF ListOrder
  <2> HIDE DEF e
  <2>3. listed'[m] \subseteq listed[m] \cup {e.order_id}
    BY <1>1, <2>2
  <2> QED
    BY <2>1, <2>3 DEF e
<1>5. CASE listed' = listed /\ e.kind # "market"
  BY <1>5 DEF MarketEvent
<1> QED
  BY <1>3, <1>4, <1>5, ApplyKinds
     DEF Storing, ApplyPosition, ApplyToken, ApplyTrade, ApplyTryMatch

LEMMA ApplyKeepsClosedQuiet ==
  ASSUME ServiceInv, ApplyEvent, BooksKnown, ClosedQuiet
  PROVE  ClosedQuiet'
<1>1. UNCHANGED <<markets, orders>>
  BY ApplyKinds, RecordsFrame DEF ServiceInv
<1>2. CASE Storing
  BY <1>1, <1>2, StoringLeaves DEF ClosedQuiet
<1> SUFFICES ASSUME ~Storing PROVE ClosedQuiet'
  BY <1>2
<1>3. /\ inbox # <<>> /\ inbox \in Seq(EventType) /\ inbox' = Tail(inbox)
      /\ UNCHANGED <<markets, orders>>
  BY <1>1, ApplyKinds, OneByOne DEF ServiceInv, InboxType
<1> SUFFICES ASSUME NEW m \in DOMAIN markets, is_close(markets[m]),
                    NEW i \in DOMAIN orders, orders[i].market_id = m,
                    i \in listed'[m] \/ Has(inbox', OrderEvent(i))
             PROVE  orders[i].status = STATUS_CANCEL
  BY <1>3 DEF ClosedQuiet
<1>4. m \in MarketIds
  BY IdsInBounds DEF ServiceInv
<1>5. i \in listed'[m] => i \in listed[m] \/ Head(inbox) = OrderEvent(i)
  BY <1>4, ListedNow
<1>6. /\ Has(inbox', OrderEvent(i)) => Has(inbox, OrderEvent(i))
      /\ Head(inbox) = OrderEvent(i) => Has(inbox, OrderEvent(i))
  <2>1. 1 \in 1 .. Len(inbox) /\ Head(inbox) = inbox[1]
    BY <1>3, EventsAfter
  <2>2. Head(inbox) = OrderEvent(i) => Has(inbox, OrderEvent(i))
    BY <2>1 DEF Has
  <2> QED
    BY <1>3, <2>2, HasBefore
<1>7. CASE inbox = <<MarketEvent(m)>>
  <2>1. Head(inbox) = MarketEvent(m) /\ inbox' = <<>>
    BY <1>3, <1>7
  <2>2. i \notin listed'[m]
    BY <1>4, <2>1, ListedNow
  <2> QED
    BY <2>1, <2>2, NothingWaits
<1>8. CASE inbox # <<MarketEvent(m)>>
  BY <1>5, <1>6, <1>8 DEF ClosedQuiet
<1> QED
  BY <1>7, <1>8

\* The orders that match are live, on a market that is open, of two owners, and
\* of prices that the application accepts unless they are equal.
LEMMA ProposedPair ==
  ASSUME ServiceInv, MirrorInv, crashes = 0, inbox = <<>>,
         BuysAreCovered, OwnersKnown, ClosedQuiet,
         NEW m \in MarketIds, Proposed(m).kind = "trade"
  PROVE  LET a == orders[Proposed(m).a_order_id]
             b == orders[Proposed(m).b_order_id]
         IN  /\ a \in OrderType /\ b \in OrderType
             /\ a.market_id = m /\ b.market_id = m
             /\ is_buy(a) /\ is_sell(b)
             /\ is_limit_order(a) => is_live(a)
             /\ is_limit_order(b) => is_live(b)
             /\ CanLoad(m) => ~is_close(markets[m])
             /\ a.pid # b.pid /\ {a.pid, b.pid} \subseteq registered
             /\ is_limit_order(a) \/ is_limit_order(b)
             /\ is_limit_order(a) /\ is_limit_order(b) => a.price >= b.price
<1> DEFINE t == Proposed(m)
           i == t.a_order_id
           j == t.b_order_id
           a == orders[i]
           b == orders[j]
           buy == BookOrder(i, a)
           sell == BookOrder(j, b)
<1>1. /\ i \in listed[m] /\ j \in listed[m]
      /\ i \in DOMAIN orders /\ j \in DOMAIN orders
      /\ is_buy(a) /\ is_sell(b)
      /\ OB!canMatch(buy, sell) /\ OB!isLive(buy) /\ OB!isLive(sell)
  BY ProposedOrders
<1> HIDE DEF t, i, j
<1>2. /\ a \in OrderType /\ db_orders[i] = a
      /\ b \in OrderType /\ db_orders[j] = b
  BY <1>1, ListedAreOrders
<1>3. a.market_id = m /\ b.market_id = m
  <2>1. ShowsStored(msM[m], listed[m], m, db_orders)
    BY <1>1, HandledBooks DEF BookShowsDocs
  <2>2. db_orders[i].market_id = m /\ db_orders[j].market_id = m
    BY <1>1, <2>1 DEF ShowsStored
  <2> QED
    BY <1>2, <2>2
<1>4. ASSUME NEW k \in DOMAIN orders, orders[k] \in OrderType,
             OB!isLive(BookOrder(k, orders[k]))
      PROVE  /\ orders[k].status # STATUS_CANCEL
             /\ is_limit_order(orders[k]) => is_live(orders[k])
  <2> DEFINE o == orders[k]
  <2>1. /\ Size(o) - o.already_deal_amount # 0
        /\ o.status # STATUS_CANCEL
    BY <1>4, SizeOfBookOrder DEF OB!isLive, OB!isCancel, OB!STATUS_CANCEL,
                                 STATUS_CANCEL, BookOrder
  <2>2. StatusKnownOf(o)
    BY DEF BuysAreCovered
  <2>3. /\ o.status \in {STATUS_LIVE, STATUS_MATCH, STATUS_PARTIAL_MATCH,
                         STATUS_CANCEL}
        /\ o.b_token_amount \in Nat /\ o.already_deal_amount \in Nat
    BY <1>4 DEF OrderType, U64
  <2>4. is_limit_order(o) => Size(o) = o.b_token_amount
    BY DEF Size, is_limit_order, is_market_order, TYPE_LIMIT, TYPE_MARKET
  <2> HIDE DEF o
  <2>5. is_limit_order(o) => o.status # STATUS_MATCH
    BY <2>1, <2>2, <2>3, <2>4 DEF StatusKnownOf
  <2> QED
    BY <2>1, <2>3, <2>5 DEF is_live, o
<1>5. /\ a.status # STATUS_CANCEL
      /\ is_limit_order(a) => is_live(a)
      /\ is_limit_order(b) => is_live(b)
  BY <1>1, <1>2, <1>4
<1>6. CanLoad(m) => ~is_close(markets[m])
  <2>1. inbox # <<MarketEvent(m)>>
    OBVIOUS
  <2> QED
    BY <1>1, <1>3, <1>5, <2>1 DEF ClosedQuiet, CanLoad
<1>7. {a.pid, b.pid} \subseteq registered
  BY <1>1 DEF OwnersKnown
<1>8. /\ buy.pid = a.pid /\ sell.pid = b.pid
      /\ buy.price = a.price /\ sell.price = b.price
      /\ buy.flag = FLAG_BUY /\ sell.flag = FLAG_SELL
      /\ OB!isLimitOrder(buy) <=> is_limit_order(a)
      /\ OB!isLimitOrder(sell) <=> is_limit_order(b)
  BY <1>1, SizeOfBookOrder DEF BookOrder, is_buy, is_sell
<1> HIDE DEF buy, sell
<1>9. /\ buy.pid # sell.pid
      /\ OB!isLimitOrder(buy) \/ OB!isLimitOrder(sell)
      /\ OB!isLimitOrder(buy) /\ OB!isLimitOrder(sell) => buy.price >= sell.price
  BY <1>1, <1>8 DEF OB!canMatch, OB!PricesMeet, OB!FLAG_SELL, FLAG_BUY, FLAG_SELL
<1> QED
  BY <1>1, <1>2, <1>3, <1>5, <1>6, <1>7, <1>8, <1>9 DEF t, i, j

\* The application takes a proposal at the price that the service has found.
LEMMA ProposedPrice ==
  ASSUME NEW a \in OrderType, NEW b \in OrderType, NEW i, NEW j, NEW y \in Nat,
         is_limit_order(a) \/ is_limit_order(b)
  PROVE  /\ OB!MatchPrice(BookOrder(i, a), BookOrder(j, b)) = TradePrice(a, b)
         /\ MulDiv(TradePrice(a, b), y) =
              (y * OB!MatchPrice(BookOrder(i, a), BookOrder(j, b))) \div Precision
         /\ TradePrice(a, b) \in Nat
<1>1. /\ a.price \in Nat /\ b.price \in Nat
      /\ is_market_order(b) <=> ~is_limit_order(b)
  BY DEF OrderType, U64, is_limit_order, is_market_order, TYPE_LIMIT, TYPE_MARKET
<1>2. OB!MatchPrice(BookOrder(i, a), BookOrder(j, b)) = TradePrice(a, b)
  BY <1>1, SizeOfBookOrder DEF OB!MatchPrice, TradePrice
<1>3. TradePrice(a, b) \in Nat
  BY <1>1 DEF TradePrice
<1>4. MulDiv(TradePrice(a, b), y) = (y * TradePrice(a, b)) \div Precision
  BY <1>3, MulDivCommutes DEF MulDiv
<1> QED
  BY <1>2, <1>3, <1>4

\* Both sides of a proposal have it locked.
LEMMA ProposalIsLocked ==
  ASSUME NEW a \in OrderType, NEW b \in OrderType, NEW x \in Nat, NEW y \in Nat,
         is_buy(a), is_sell(b), Fits(a, x, y), Fits(b, x, y),
         is_limit_order(a) => is_live(a), is_limit_order(b) => is_live(b),
         CoversBuy(a), Covers(b), Payable(a, x), Payable(b, y),
         x = MulDiv(TradePrice(a, b), y),
         is_limit_order(a) => TradePrice(a, b) <= a.price,
         TradePrice(a, b) \in Nat
  PROVE  a.lock_balance >= x /\ b.lock_balance >= y
<1>1. /\ a.price \in Nat /\ a.b_token_amount \in Nat
      /\ a.already_deal_amount \in Nat /\ a.lock_balance \in Nat
      /\ b.b_token_amount \in Nat
      /\ b.already_deal_amount \in Nat /\ b.lock_balance \in Nat
  BY DEF OrderType, U64
<1>2. ASSUME NEW o, is_limit_order(o), Fits(o, x, y)
      PROVE  o.already_deal_amount + y <= o.b_token_amount
  <2>1. DealAmount(o, x, y) = y /\ Size(o) = o.b_token_amount
    BY <1>2 DEF DealAmount, Size, is_limit_order, is_market_order, TYPE_LIMIT,
                TYPE_MARKET
  <2> QED
    BY <1>2, <2>1 DEF Fits
<1>3. ASSUME is_limit_order(a), ~Turned(a) PROVE a.lock_balance >= x
  <2> DEFINE v == a.b_token_amount - a.already_deal_amount
             p == TradePrice(a, b)
  <2>1. v \in Nat /\ y <= v
    BY <1>1, <1>2, <1>3
  <2>2. MulDiv(a.price, v) <= a.lock_balance
    BY <1>3 DEF CoversBuy
  <2>3. p \in Nat /\ p <= a.price
    BY <1>3
  <2> HIDE DEF v, p
  <2>4. MulDiv(p, y) <= MulDiv(a.price, y)
    BY <1>1, <2>3, MulDivMonotonic
  <2>5. MulDiv(y, a.price) <= MulDiv(v, a.price)
    BY <1>1, <2>1, MulDivMonotonic
  <2>6. MulDiv(y, a.price) = MulDiv(a.price, y) /\ MulDiv(v, a.price) = MulDiv(a.price, v)
    BY <1>1, <2>1, MulDivCommutes
  <2>7. MulDiv(p, y) \in Nat /\ MulDiv(a.price, y) \in Nat /\ MulDiv(a.price, v) \in Nat
    BY <1>1, <2>1, <2>3, MulDivOfSum
  <2>8. x = MulDiv(p, y)
    BY DEF p
  <2> QED
    BY <1>1, <2>2, <2>4, <2>5, <2>6, <2>7, <2>8
<1>4. ASSUME is_limit_order(b), is_live(b) PROVE b.lock_balance >= y
  <2>1. ~SizedInProceeds(b) /\ ~is_market_order(b)
    BY <1>4 DEF SizedInProceeds, is_limit_order, is_market_order, TYPE_LIMIT,
                TYPE_MARKET
  <2>2. b.lock_balance + b.already_deal_amount = b.b_token_amount
    BY <1>4, <2>1 DEF Covers
  <2>3. b.already_deal_amount + y <= b.b_token_amount
    BY <1>2, <1>4
  <2> QED
    BY <1>1, <2>2, <2>3
<1>5. a.lock_balance >= x
  BY <1>3 DEF Payable
<1>6. b.lock_balance >= y
  BY <1>4 DEF Payable
<1> QED
  BY <1>5, <1>6

AcceptInv ==
  /\ FollowInv /\ BuysAreCovered /\ SellsAreCovered /\ NothingStranded
  /\ OwnersKnown /\ ClosedQuiet

LEMMA AcceptInvSuffices == AcceptInv => ProposalsAreAccepted
<1> SUFFICES ASSUME AcceptInv, inbox = <<>>, NEW m \in MarketIds,
                    Proposed(m).kind = "trade"
             PROVE  LET t == Proposed(m)
                        a == orders[t.a_order_id]
                        b == orders[t.b_order_id]
                        x == t.a_actual_amount
                        y == t.b_actual_amount
                    IN  /\ ~(is_limit_order(a) /\ is_limit_order(b)
                               /\ a.price = b.price)
                        /\ CanLoad(m) /\ Payable(a, x) /\ Payable(b, y)
                        => CanTrade(a, b, x, y)
  BY DEF ProposalsAreAccepted, Handled
<1> DEFINE t == Proposed(m)
           i == t.a_order_id
           j == t.b_order_id
           a == orders[i]
           b == orders[j]
           x == t.a_actual_amount
           y == t.b_actual_amount
<1>1. /\ ServiceInv /\ MirrorInv /\ crashes = 0 /\ NeverOverfilled
      /\ BuysAreCovered /\ SellsAreCovered /\ OwnersKnown /\ ClosedQuiet
  BY DEF AcceptInv, FollowInv
<1> SUFFICES ASSUME ~(is_limit_order(a) /\ is_limit_order(b) /\ a.price = b.price),
                    CanLoad(m), Payable(a, x), Payable(b, y)
             PROVE  CanTrade(a, b, x, y)
  OBVIOUS
<1>2. /\ a \in OrderType /\ b \in OrderType
      /\ a.market_id = m /\ b.market_id = m
      /\ is_buy(a) /\ is_sell(b)
      /\ is_limit_order(a) => is_live(a)
      /\ is_limit_order(b) => is_live(b)
      /\ ~is_close(markets[m])
      /\ a.pid # b.pid /\ {a.pid, b.pid} \subseteq registered
      /\ is_limit_order(a) \/ is_limit_order(b)
      /\ is_limit_order(a) /\ is_limit_order(b) => a.price >= b.price
  BY <1>1, ProposedPair
<1>3. /\ x \in Nat /\ y \in Nat
      /\ x = (y * OB!MatchPrice(BookOrder(i, a), BookOrder(j, b))) \div Precision
      /\ Fits(a, x, y) /\ Fits(b, x, y)
  BY <1>1, ProposalFits
<1>4. CoversBuy(a) /\ Covers(b)
  <2>1. i \in DOMAIN orders /\ j \in DOMAIN orders
    BY <1>1, ProposedOrders
  <2> QED
    BY <1>1, <2>1 DEF BuysAreCovered, SellsAreCovered
<1> HIDE DEF t, i, j, a, b, x, y
<1>5. x = MulDiv(TradePrice(a, b), y) /\ TradePrice(a, b) \in Nat
  BY <1>2, <1>3, ProposedPrice
<1>6. /\ a.price \in Nat /\ b.price \in Nat
      /\ a.lock_balance \in Nat /\ a.lock_balance <= MaxU64 /\ MaxU64 \in Nat
  BY <1>2, WidthAssumption DEF OrderType, U64
<1>7. is_limit_order(a) => TradePrice(a, b) <= a.price
  BY <1>2, <1>6 DEF TradePrice, OrderType, is_limit_order, is_market_order
<1>8. a.lock_balance >= x /\ b.lock_balance >= y
  BY <1>2, <1>3, <1>4, <1>5, <1>7, ProposalIsLocked
<1>9. /\ is_live(a) /\ is_live(b)
      /\ ~(is_market_order(a) /\ is_market_order(b))
  BY <1>2 DEF Payable, is_limit_order, is_market_order, TYPE_LIMIT, TYPE_MARKET
<1>10. PricesMatch(a, b)
  BY <1>2, <1>6 DEF PricesMatch
<1>11. MulDiv(TradePrice(a, b), y) <= MaxU64
  BY <1>3, <1>5, <1>6, <1>8
<1> QED
  BY <1>2, <1>5, <1>8, <1>9, <1>10, <1>11 DEF CanTrade

LEMMA AcceptInvNext ==
  AcceptInv /\ TradeAmounts = U64 /\ [FollowNext]_<<vars, service_vars>>
    => AcceptInv'
<1> SUFFICES ASSUME AcceptInv, TradeAmounts = U64,
                    [FollowNext]_<<vars, service_vars>>
             PROVE  AcceptInv'
  OBVIOUS
<1>1. /\ FollowInv /\ ServiceInv /\ MirrorInv /\ crashes = 0 /\ TypeOK
      /\ BuysAreCovered /\ SellsAreCovered /\ NothingStranded
      /\ OwnersKnown /\ ClosedQuiet
  BY DEF AcceptInv, FollowInv, ServiceInv
<1>2. FollowInv'
  BY <1>1, FollowInvNext
<1>3. /\ [ServiceNext]_<<vars, service_vars>> /\ crashes' = 0
      /\ [Next]_vars /\ TypeOK'
  BY <1>1, <1>2, FollowStepIs, ServiceStepsAreSteps DEF FollowInv, ServiceInv
<1>4. BuysAreCovered'
  BY <1>1, <1>3, FollowStepFits, BuysKept
<1>5. SellsAreCovered' /\ NothingStranded'
  BY <1>1, <1>3, EveryStep, StrandedKept
<1>6. OwnersKnown'
  BY <1>1, <1>3, OwnersKept
<1>7. ClosedQuiet'
  <2>1. CASE Listing \/ Moving \/ Ordering \/ AnyTrade
    BY <1>1, <1>3, <2>1, ApplicationSteps, AppKeepsClosedQuiet
  <2>2. CASE ApplyEvent
    BY <1>1, <2>2, ApplyKeepsClosedQuiet DEF MirrorInv, Mirror
  <2>3. CASE Restart
    <3>1. crashes' = crashes + 1
      BY <2>3 DEF Restart
    <3> QED
      BY <1>1, <1>3, <3>1
  <2>4. CASE UNCHANGED <<vars, service_vars>>
    <3>1. UNCHANGED <<inbox, listed, vars>>
      BY <2>4 DEF service_vars
    <3>2. UNCHANGED <<markets, orders>>
      BY <3>1 DEF vars, listings
    <3> QED
      BY <1>1, <3>1, <3>2 DEF ClosedQuiet
  <2> QED
    BY <1>3, <2>1, <2>2, <2>3, <2>4 DEF ServiceNext
<1> QED
  BY <1>2, <1>4, <1>5, <1>6, <1>7 DEF AcceptInv

LEMMA AcceptInvInit == ServiceInit => AcceptInv
<1> SUFFICES ASSUME ServiceInit PROVE AcceptInv
  OBVIOUS
<1>1. orders = <<>> /\ DOMAIN markets = {}
  BY DEF ServiceInit, Init
<1>2. BuysAreCovered /\ SellsAreCovered /\ NothingStranded /\ OwnersKnown
  BY <1>1 DEF BuysAreCovered, SellsAreCovered, NothingStranded, OwnersKnown
<1>3. ClosedQuiet
  BY <1>1 DEF ClosedQuiet
<1> QED
  BY <1>2, <1>3, FollowInvInit DEF AcceptInv

\* ProposalsAreAccepted: whatever the service logs between two transactions, the
\* application accepts when the admin reports it: the service's copies and
\* add_trade's checks agree, but for the cases that the property excepts.  These
\* are a price that both sides name, a market order or a turned limit order
\* (its flag was cut to a byte) that has not locked what it would pay, and a
\* market whose key a token has taken.
THEOREM ProposalsAreAcceptedCorrect ==
  ASSUME TradeAmounts = U64 PROVE FollowSpec => []ProposalsAreAccepted
<1>1. AcceptInv /\ [FollowNext]_<<vars, service_vars>> => AcceptInv'
  BY AcceptInvNext
<1> QED
  BY <1>1, AcceptInvInit, AcceptInvSuffices, PTL DEF FollowSpec
==============================================================================
