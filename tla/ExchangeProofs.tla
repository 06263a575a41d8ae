--------------------------- MODULE ExchangeProofs ---------------------------
(***************************************************************************)
(* The type invariant of Exchange, for every value of its constants.        *)
(***************************************************************************)
EXTENDS Exchange, SumsProofs, SequenceTheorems, TLAPS

USE PidsAssumption, WidthAssumption, TokenAssumption, ConfigAssumption,
    InputAssumption, BoundAssumption

PositionsType == [Pids -> [TokenIdxs -> U64]]

-----------------------------------------------------------------------------
(* Arithmetic.                                                             *)

\* Wrapping brings any natural number back to a u64.
LEMMA WrapType == ASSUME NEW x \in Nat PROVE Wrap(x) \in U64
BY DEF Wrap, U64

\* A quotient of naturals is a natural no larger than the dividend.
LEMMA QuotientType ==
  ASSUME NEW x \in Nat, NEW d \in Nat \ {0}
  PROVE  x \div d \in Nat /\ x \div d <= x
OBVIOUS

LEMMA MulDivType ==
  ASSUME NEW x \in Nat, NEW y \in Nat PROVE MulDiv(x, y) \in Nat
<1>1. x * y \in Nat
  OBVIOUS
<1> QED
  BY <1>1, QuotientType DEF MulDiv

-----------------------------------------------------------------------------
(* Positions.                                                              *)

\* The updates of one position change that position only, and stay in u64
\* when the checks of the code say so.
LEMMA PlusType ==
  ASSUME NEW f \in PositionsType, NEW p \in Pids, NEW t \in TokenIdxs,
         NEW x \in Nat, f[p][t] + x <= MaxU64
  PROVE  Plus(f, p, t, x) \in PositionsType
BY DEF Plus, PositionsType, U64

LEMMA MinusType ==
  ASSUME NEW f \in PositionsType, NEW p \in Pids, NEW t \in TokenIdxs,
         NEW x \in Nat, f[p][t] >= x
  PROVE  Minus(f, p, t, x) \in PositionsType
BY DEF Minus, PositionsType, U64

LEMMA TryPlusType ==
  ASSUME NEW f \in PositionsType, NEW p \in Pids, NEW t \in TokenIdxs,
         NEW x \in Nat
  PROVE  TryPlus(f, p, t, x) \in PositionsType
BY DEF TryPlus, PositionsType, U64

LEMMA TryMinusType ==
  ASSUME NEW f \in PositionsType, NEW p \in Pids, NEW t \in TokenIdxs,
         NEW x \in Nat
  PROVE  TryMinus(f, p, t, x) \in PositionsType
BY DEF TryMinus, PositionsType, U64

-----------------------------------------------------------------------------
(* Sequences of records.                                                   *)

LEMMA AppendType ==
  ASSUME NEW S, NEW s \in Seq(S), NEW e \in S
  PROVE  /\ Append(s, e) \in Seq(S)
         /\ Len(Append(s, e)) = Len(s) + 1
         /\ DOMAIN Append(s, e) = 1 .. Len(s) + 1
         /\ DOMAIN s = 1 .. Len(s)
         /\ \A i \in DOMAIN s : Append(s, e)[i] = s[i]
         /\ Append(s, e)[Len(s) + 1] = e
OBVIOUS

-----------------------------------------------------------------------------
(* Type correctness, one lemma per action.                                 *)

\* Orders and trades that do not change stay well-typed while markets and
\* orders are only ever added.
LEMMA OrdersFrame ==
  ASSUME orders \in Seq(OrderType), orders' = orders,
         DOMAIN markets \subseteq (DOMAIN markets)'
  PROVE  (orders \in Seq(OrderType))'
<1>1. OrderType \subseteq OrderType'
  BY DEF OrderType
<1> QED
  BY <1>1, SeqMonotonic

LEMMA TradesFrame ==
  ASSUME trades \in Seq(TradeType), trades' = trades,
         DOMAIN orders \subseteq (DOMAIN orders)'
  PROVE  (trades \in Seq(TradeType))'
<1>1. TradeType \subseteq TradeType'
  BY DEF TradeType
<1> QED
  BY <1>1, SeqMonotonic

LEMMA ListingsFrame ==
  ASSUME ListingsType, UNCHANGED listings
  PROVE  ListingsType'
BY DEF ListingsType, listings, MarketType

LEMMA CommitType ==
  ASSUME TypeOK, NEW pid \in Pids, Commit(pid)
  PROVE  nonce' \in [Pids -> Nat] /\ counter' \in Nat
BY DEF TypeOK, AccountsType, CountersType, Commit

LEMMA BooksFrame ==
  ASSUME TypeOK, UNCHANGED <<listings, orders, trades>>
  PROVE  /\ ListingsType'
         /\ (orders \in Seq(OrderType))'
         /\ (trades \in Seq(TradeType))'
<1>1. ListingsType /\ orders \in Seq(OrderType) /\ trades \in Seq(TradeType)
  BY DEF TypeOK
<1>2. DOMAIN markets = (DOMAIN markets)' /\ DOMAIN orders = (DOMAIN orders)'
  BY DEF listings
<1> QED
  BY <1>1, <1>2, ListingsFrame, OrdersFrame, TradesFrame

LEMMA SettlementFrame ==
  ASSUME TypeOK, UNCHANGED <<settlement, history>>
  PROVE  SettlementType'
BY DEF TypeOK, SettlementType, history

LEMMA RegisterPlayerType ==
  ASSUME TypeOK, NEW pid \in Pids, RegisterPlayer(pid)
  PROVE  TypeOK'
<1>1. AccountsType'
  BY CommitType DEF RegisterPlayer, TypeOK, AccountsType
<1>2. CountersType'
  BY CommitType DEF RegisterPlayer, TypeOK, CountersType
<1> QED
  BY <1>1, <1>2, BooksFrame, SettlementFrame DEF RegisterPlayer, TypeOK

\* Adding and updating tokens, adding and closing markets: the accounts keep
\* their positions, and orders keep referring to stored markets.
LEMMA StoreTokenType ==
  ASSUME TypeOK, NEW pid \in Pids, NEW idx \in TokenIdxs,
         NEW address \in Addresses, StoreToken(pid, idx, address)
  PROVE  TypeOK'
<1>1. AccountsType'
  BY CommitType DEF StoreToken, TypeOK, AccountsType
<1>2. ListingsType'
  BY DEF StoreToken, TypeOK, ListingsType, MarketType
<1>3. (orders \in Seq(OrderType))' /\ (trades \in Seq(TradeType))'
  BY OrdersFrame, TradesFrame DEF StoreToken, TypeOK
<1>4. CountersType'
  BY CommitType DEF StoreToken, EmitEvent, TypeOK, CountersType
<1> QED
  BY <1>1, <1>2, <1>3, <1>4, SettlementFrame DEF StoreToken, TypeOK

LEMMA AddMarketType ==
  ASSUME TypeOK, NEW pid \in Pids, NEW token_a \in TokenIdxs,
         NEW token_b \in TokenIdxs, NEW price \in Prices,
         AddMarket(pid, token_a, token_b, price)
  PROVE  TypeOK'
<1>1. AccountsType'
  BY CommitType DEF AddMarket, TypeOK, AccountsType
<1> DEFINE m == [status |-> MARKET_STATUS_OPEN, token_a |-> token_a,
                 token_b |-> token_b, last_deal_price |-> price]
<1>2. /\ markets \in Seq(MarketType)
      /\ markets' = Append(markets, m)
      /\ m \in MarketType
  BY DEF AddMarket, TypeOK, ListingsType, MarketType
<1>3. markets' \in Seq(MarketType) /\ DOMAIN markets \subseteq DOMAIN markets'
  BY <1>2, AppendType
<1>4. ListingsType'
  <2>1. tokens' \in [TokenIdxs -> Addresses \cup {NoToken, MarketRecord}]
    BY DEF AddMarket, MarketStored, TypeOK, ListingsType
  <2> QED
    BY <1>3, <2>1 DEF ListingsType, MarketType
<1>5. (orders \in Seq(OrderType))' /\ (trades \in Seq(TradeType))'
  BY <1>3, OrdersFrame, TradesFrame DEF AddMarket, TypeOK
<1>6. CountersType'
  BY CommitType DEF AddMarket, EmitEvent, TypeOK, CountersType
<1> QED
  BY <1>1, <1>4, <1>5, <1>6, SettlementFrame DEF AddMarket, TypeOK

LEMMA CloseMarketType ==
  ASSUME TypeOK, NEW pid \in Pids, NEW market_id, CloseMarket(pid, market_id)
  PROVE  TypeOK'
<1>1. AccountsType'
  BY CommitType DEF CloseMarket, TypeOK, AccountsType
<1>2. /\ markets \in Seq(MarketType)
      /\ market_id \in 1 .. Len(markets)
  BY LenProperties DEF CloseMarket, CanLoad, TypeOK, ListingsType
<1>3. [markets[market_id] EXCEPT !.status = MARKET_STATUS_CLOSE] \in MarketType
  <2>1. markets[market_id] \in MarketType
    BY <1>2, ElementOfSeq
  <2> QED
    BY <2>1 DEF MarketType
<1>4. markets' = [markets EXCEPT ![market_id] =
                    [markets[market_id] EXCEPT !.status = MARKET_STATUS_CLOSE]]
  BY DEF CloseMarket
<1>5. markets' \in Seq(MarketType) /\ DOMAIN markets = DOMAIN markets'
  BY <1>2, <1>3, <1>4, ExceptSeq
<1>6. ListingsType'
  BY <1>5 DEF CloseMarket, TypeOK, ListingsType, MarketType
<1>7. (orders \in Seq(OrderType))' /\ (trades \in Seq(TradeType))'
  BY <1>5, OrdersFrame, TradesFrame DEF CloseMarket, TypeOK
<1>8. CountersType'
  BY CommitType DEF CloseMarket, EmitEvent, TypeOK, CountersType
<1> QED
  BY <1>1, <1>6, <1>7, <1>8, SettlementFrame DEF CloseMarket, TypeOK

-----------------------------------------------------------------------------
(* Deposits, transfers and withdrawals.                                    *)

LEMMA DepositType ==
  ASSUME TypeOK, NEW signer \in Pids, NEW pid \in Pids,
         NEW token_idx \in TokenIdxs, NEW amount \in MoveAmounts,
         Deposit(signer, pid, token_idx, amount)
  PROVE  TypeOK'
<1>1. amount \in Nat
  BY DEF U64
<1>2. balance' \in PositionsType
  BY <1>1, PlusType
  DEF Deposit, CanCredit, TypeOK, AccountsType, PositionsType
<1>3. nonce' \in [Pids -> Nat]
  <2>1. nonce \in [Pids -> Nat] /\ nonce' = DepositNonces(pid)
    BY DEF Deposit, TypeOK, AccountsType
  <2> QED
    BY <2>1 DEF DepositNonces
<1>4. AccountsType'
  BY <1>2, <1>3 DEF Deposit, TypeOK, AccountsType, PositionsType
<1>5. CountersType'
  BY DEF Deposit, TypeOK, CountersType
<1>6. SettlementType'
  <2>1. /\ deposited' = [deposited EXCEPT ![token_idx] = @ + amount]
        /\ settlement' = settlement /\ withdrawn' = withdrawn /\ paid' = paid
    BY DEF Deposit
  <2>2. SettlementType
    BY DEF TypeOK
  <2>3. deposited' \in [TokenIdxs -> Nat]
    BY <1>1, <2>1, <2>2 DEF SettlementType
  <2> QED
    BY <2>1, <2>2, <2>3 DEF SettlementType
<1> QED
  BY <1>4, <1>5, <1>6, BooksFrame DEF Deposit, TypeOK

LEMMA TransferType ==
  ASSUME TypeOK, NEW signer \in Pids, NEW pid \in Pids,
         NEW token_idx \in TokenIdxs, NEW amount \in MoveAmounts,
         Transfer(signer, pid, token_idx, amount)
  PROVE  TypeOK'
<1>1. amount \in Nat
  BY DEF U64
<1> DEFINE debited == Minus(balance, signer, token_idx, amount)
<1>2. balance \in PositionsType
  BY DEF TypeOK, AccountsType, PositionsType
<1>3. debited \in PositionsType
  BY <1>1, <1>2, MinusType DEF Transfer, CanDebit
<1>4. debited[pid][token_idx] = balance[pid][token_idx]
  BY <1>2 DEF Transfer, Minus, PositionsType
<1>5. Plus(debited, pid, token_idx, amount) \in PositionsType
  <2> HIDE DEF debited
  <2> QED
    BY <1>1, <1>3, <1>4, PlusType DEF Transfer, CanCredit
<1>6. AccountsType'
  BY <1>5, CommitType DEF Transfer, TypeOK, AccountsType, PositionsType
<1>7. CountersType'
  BY CommitType DEF Transfer, TypeOK, CountersType
<1> QED
  BY <1>6, <1>7, BooksFrame, SettlementFrame DEF Transfer, TypeOK

LEMMA WithdrawType ==
  ASSUME TypeOK, NEW pid \in Pids, NEW token_idx \in TokenIdxs,
         NEW amount \in MoveAmounts, Withdraw(pid, token_idx, amount)
  PROVE  TypeOK'
<1>1. amount \in U64 /\ amount \in Nat
  BY DEF U64
<1>2. balance' \in PositionsType
  BY <1>1, MinusType
  DEF Withdraw, CanDebit, TypeOK, AccountsType, PositionsType
<1>3. AccountsType'
  BY <1>2, CommitType DEF Withdraw, TypeOK, AccountsType, PositionsType
<1>4. CountersType'
  BY CommitType DEF Withdraw, TypeOK, CountersType
<1> DEFINE W == [token_idx : TokenIdxs, amount : U64]
           w == [token_idx |-> token_idx, amount |-> PayoutOf(amount)]
<1>5. PayoutOf(amount) \in U64
  BY <1>1, QuotientType DEF PayoutOf, U64
<1>6. settlement \in Seq(W) /\ w \in W /\ settlement' = Append(settlement, w)
  BY <1>5 DEF Withdraw, TypeOK, SettlementType
<1>7. settlement' \in Seq(W)
  BY <1>6, AppendType
<1>8. withdrawn' \in [TokenIdxs -> Nat]
  <2>1. /\ withdrawn' = [withdrawn EXCEPT ![token_idx] = @ + amount]
        /\ withdrawn \in [TokenIdxs -> Nat]
    BY DEF Withdraw, TypeOK, SettlementType
  <2>2. withdrawn[token_idx] + amount \in Nat
    BY <1>1, <2>1
  <2> QED
    BY <2>1, <2>2
<1>9. deposited' \in [TokenIdxs -> Nat] /\ paid' \in [TokenIdxs -> Nat]
  BY DEF Withdraw, TypeOK, SettlementType
<1>10. SettlementType'
  BY <1>7, <1>8, <1>9 DEF SettlementType
<1> QED
  BY <1>3, <1>4, <1>10, BooksFrame DEF Withdraw, TypeOK

\* The sum of the pending withdrawals of a token is a natural number.
LEMMA PendingPayoutType ==
  ASSUME SettlementType, NEW t \in TokenIdxs
  PROVE  PendingPayout(t) \in Nat
<1> DEFINE f == [i \in DOMAIN settlement |->
                   IF settlement[i].token_idx = t
                   THEN settlement[i].amount ELSE 0]
<1>1. /\ Len(settlement) \in Nat
      /\ DOMAIN settlement = 1 .. Len(settlement)
      /\ \A i \in DOMAIN settlement : settlement[i].amount \in Nat
  <2> DEFINE W == [token_idx : TokenIdxs, amount : U64]
  <2>1. settlement \in Seq(W)
    BY DEF SettlementType
  <2>2. /\ Len(settlement) \in Nat
        /\ DOMAIN settlement = 1 .. Len(settlement)
        /\ \A i \in DOMAIN settlement : settlement[i] \in W
    <3> HIDE DEF W
    <3> QED
      BY <2>1, LenProperties, ElementOfSeq
  <2> QED
    BY <2>2 DEF U64
<1>2. \A i \in 1 .. Len(settlement) : f[i] \in Nat
  BY <1>1
<1> HIDE DEF f
<1>3. SumTo(f, Len(settlement)) \in Nat
  BY <1>1, <1>2, SumToNat
<1> QED
  BY <1>3 DEF PendingPayout, f

LEMMA FlushSettlementType ==
  ASSUME TypeOK, FlushSettlement
  PROVE  TypeOK'
<1>1. AccountsType' /\ CountersType'
  BY DEF FlushSettlement, accounts, TypeOK, AccountsType, CountersType
<1>2. \A t \in TokenIdxs : PendingPayout(t) \in Nat
  BY PendingPayoutType DEF TypeOK
<1>3. SettlementType'
  BY <1>2 DEF FlushSettlement, TypeOK, SettlementType
<1> QED
  BY <1>1, <1>3, BooksFrame DEF FlushSettlement, TypeOK

-----------------------------------------------------------------------------
(* Placing and cancelling orders.                                          *)

\* A stored order is well-typed and so is the token it pays in.
LEMMA OrderAt ==
  ASSUME TypeOK, NEW i \in DOMAIN orders
  PROVE  /\ i \in 1 .. Len(orders)
         /\ orders[i] \in OrderType
         /\ markets[orders[i].market_id] \in MarketType
         /\ OrderToken(orders[i]) \in TokenIdxs
<1>1. orders \in Seq(OrderType) /\ markets \in Seq(MarketType)
  BY DEF TypeOK, ListingsType
<1>2. i \in 1 .. Len(orders) /\ orders[i] \in OrderType
  BY <1>1, LenProperties, ElementOfSeq
<1>3. orders[i].market_id \in 1 .. Len(markets)
  BY <1>1, <1>2, LenProperties DEF OrderType
<1>4. markets[orders[i].market_id] \in MarketType
  BY <1>1, <1>3, ElementOfSeq
<1>5. OrderToken(orders[i]) \in TokenIdxs
  BY <1>4 DEF OrderToken, PayToken, MarketType
<1> QED
  BY <1>2, <1>4, <1>5

LEMMA PayTokenType ==
  ASSUME TypeOK, NEW market_id \in DOMAIN markets, NEW flag
  PROVE  PayToken(flag, markets[market_id]) \in TokenIdxs
<1>1. markets[market_id] \in MarketType
  BY LenProperties, ElementOfSeq DEF TypeOK, ListingsType
<1> QED
  BY <1>1 DEF PayToken, MarketType

LEMMA NewOrderType ==
  ASSUME NEW type_ \in {TYPE_LIMIT, TYPE_MARKET}, NEW pid \in Pids,
         NEW market_id \in DOMAIN markets, NEW flag \in Flags,
         NEW cost \in U64, NEW price \in U64,
         NEW b_amount \in U64, NEW a_amount \in U64
  PROVE  NewOrder(type_, pid, market_id, flag, cost, price, b_amount, a_amount)
           \in OrderType
<1>1. 0 \in U64 /\ Fee \in U64 /\ flag \in U64 /\ flag \in Int
  BY DEF U64
<1>2. flag % (MaxU8 + 1) \in 0 .. MaxU8
  <2>1. MaxU8 + 1 \in Nat \ {0} /\ MaxU8 \in Nat
    BY WidthAssumption
  <2> DEFINE d == MaxU8 + 1
  <2>2. flag % d \in 0 .. d - 1
    <3> HIDE DEF d
    <3> QED
      BY <1>1, <2>1 DEF d
  <2> QED
    BY <2>1, <2>2
<1> DEFINE byte == flag % (MaxU8 + 1)
<1> HIDE DEF byte
<1>3. byte \in 0 .. MaxU8
  BY <1>2 DEF byte
<1> QED
  BY <1>1, <1>3 DEF NewOrder, OrderType, byte

LEMMA PlaceOrderType ==
  ASSUME TypeOK, NEW pid \in Pids, NEW t \in TokenIdxs, NEW cost \in Nat,
         NEW order \in OrderType, CheckNonce(pid),
         PlaceOrder(pid, t, cost, order)
  PROVE  TypeOK'
<1> DEFINE bal == Minus(balance, pid, t, cost)
           lock == Plus(lock_balance, pid, t, cost)
<1>1. bal \in PositionsType /\ lock \in PositionsType
  BY MinusType, PlusType
  DEF PlaceOrder, CanDebit, TypeOK, AccountsType, PositionsType
<1>2. Fee \in Nat
  BY DEF U64
<1>3. balance' \in PositionsType /\ lock_balance' \in PositionsType
  <2>1. /\ balance' = Minus(bal, pid, FeeToken, Fee)
        /\ lock_balance' = Plus(lock, pid, FeeToken, Fee)
        /\ bal[pid][FeeToken] >= Fee
        /\ lock[pid][FeeToken] + Fee <= MaxU64
    BY DEF PlaceOrder
  <2> HIDE DEF bal, lock
  <2> QED
    BY <1>1, <1>2, <2>1, MinusType, PlusType
<1>4. AccountsType'
  BY <1>3, CommitType DEF PlaceOrder, TypeOK, AccountsType, PositionsType
<1>5. /\ orders \in Seq(OrderType)
      /\ orders' = Append(orders, order)
      /\ markets' = markets
  BY DEF PlaceOrder, TypeOK, listings
<1>6. orders' \in Seq(OrderType) /\ DOMAIN orders \subseteq DOMAIN orders'
  BY <1>5, AppendType
<1>7. (orders \in Seq(OrderType))'
  BY <1>5, <1>6 DEF OrderType
<1>8. ListingsType' /\ (trades \in Seq(TradeType))'
  BY <1>6, ListingsFrame, TradesFrame DEF PlaceOrder, TypeOK
<1>9. CountersType'
  BY CommitType DEF PlaceOrder, EmitEvent, TypeOK, CountersType
<1> QED
  BY <1>4, <1>7, <1>8, <1>9, SettlementFrame DEF PlaceOrder, TypeOK

LEMMA AddLimitOrderType ==
  ASSUME TypeOK, NEW pid \in Pids, NEW market_id, NEW flag \in Flags,
         NEW price \in Prices, NEW amount \in LimitAmounts,
         AddLimitOrder(pid, market_id, flag, price, amount)
  PROVE  TypeOK'
<1> DEFINE cost == LimitCost(flag, price, amount)
           t == PayToken(flag, markets[market_id])
           order == NewOrder(TYPE_LIMIT, pid, market_id, flag, cost, price,
                             amount, 0)
<1>1. /\ CheckNonce(pid) /\ market_id \in DOMAIN markets
      /\ cost <= MaxU64 /\ PlaceOrder(pid, t, cost, order)
  BY DEF AddLimitOrder, CanLoad
<1>2. price \in U64 /\ amount \in U64 /\ price \in Nat /\ amount \in Nat
      /\ 0 \in U64
  BY DEF U64
<1>3. cost \in Nat /\ cost \in U64
  BY <1>1, <1>2, MulDivType DEF LimitCost, U64
<1>4. t \in TokenIdxs
  BY <1>1, PayTokenType
<1>5. order \in OrderType
  <2> HIDE DEF cost
  <2> QED
    BY <1>1, <1>2, <1>3, NewOrderType
<1> HIDE DEF cost, t, order
<1> QED
  BY <1>1, <1>3, <1>4, <1>5, PlaceOrderType

\* What a market order locks is a natural number: a division by zero traps.
LEMMA MarketCostType ==
  ASSUME NEW flag, NEW last \in Nat, NEW b_amount \in Nat, NEW a_amount \in Nat,
         flag = FLAG_SELL /\ b_amount = 0 => last # 0
  PROVE  MarketCost(flag, last, b_amount, a_amount) \in Nat
<1>1. Wrap(MulDiv(b_amount, last) * 2) \in Nat
  <2>1. MulDiv(b_amount, last) \in Nat
    BY MulDivType
  <2>2. MulDiv(b_amount, last) * 2 \in Nat
    BY <2>1
  <2> QED
    BY <2>2, WrapType DEF U64
<1>2. last # 0 => Wrap(a_amount * 2 * Precision) \div last \in Nat
  <2>1. a_amount * 2 * Precision \in Nat
    OBVIOUS
  <2>2. Wrap(a_amount * 2 * Precision) \in Nat
    BY <2>1, WrapType DEF U64
  <2> QED
    BY <2>2, QuotientType
<1> QED
  BY <1>1, <1>2 DEF MarketCost, FLAG_BUY, FLAG_SELL

LEMMA AddMarketOrderType ==
  ASSUME TypeOK, NEW pid \in Pids, NEW market_id, NEW flag \in Flags,
         NEW b_amount \in MarketAmounts, NEW a_amount \in MarketAmounts,
         AddMarketOrder(pid, market_id, flag, b_amount, a_amount)
  PROVE  TypeOK'
<1> DEFINE last == markets[market_id].last_deal_price
           cost == MarketCost(flag, last, b_amount, a_amount)
           t == PayToken(flag, markets[market_id])
           order == NewOrder(TYPE_MARKET, pid, market_id, flag, cost, 0,
                             b_amount, a_amount)
<1>1. /\ CheckNonce(pid) /\ market_id \in DOMAIN markets
      /\ flag = FLAG_SELL /\ b_amount = 0 => last # 0
      /\ PlaceOrder(pid, t, cost, order)
  BY DEF AddMarketOrder, CanLoad
<1>2. /\ b_amount \in U64 /\ a_amount \in U64 /\ 0 \in U64
      /\ b_amount \in Nat /\ a_amount \in Nat
  BY DEF U64
<1>3. last \in Nat
  <2>1. markets[market_id] \in MarketType
    BY <1>1, LenProperties, ElementOfSeq DEF TypeOK, ListingsType
  <2> QED
    BY <2>1 DEF MarketType, U64
<1>4. t \in TokenIdxs
  BY <1>1, PayTokenType
<1>5. cost \in Nat
  <2> HIDE DEF last
  <2> QED
    BY <1>1, <1>2, <1>3, MarketCostType
<1>6. cost \in U64
  <2> HIDE DEF cost, t, order
  <2>1. balance[pid][t] >= cost
    BY <1>1 DEF PlaceOrder, CanDebit
  <2>2. balance[pid][t] \in U64
    BY <1>4 DEF TypeOK, AccountsType
  <2> QED
    BY <1>5, <2>1, <2>2 DEF U64
<1>7. order \in OrderType
  <2> HIDE DEF cost
  <2> QED
    BY <1>1, <1>2, <1>6, NewOrderType
<1> HIDE DEF cost, t, order
<1> QED
  BY <1>1, <1>4, <1>5, <1>7, PlaceOrderType

\* The value of one position after an update, and of all the others.
LEMMA PlusAt ==
  ASSUME NEW f, f \in [Pids -> [TokenIdxs -> Int]], NEW p \in Pids,
         NEW t \in TokenIdxs, NEW x \in Int
  PROVE  \A q \in Pids, u \in TokenIdxs :
           /\ Plus(f, p, t, x)[q][u] =
                IF q = p /\ u = t THEN f[q][u] + x ELSE f[q][u]
           /\ Minus(f, p, t, x)[q][u] =
                IF q = p /\ u = t THEN f[q][u] - x ELSE f[q][u]
BY DEF Plus, Minus

LEMMA PositionsAreInt ==
  ASSUME NEW f \in PositionsType
  PROVE  /\ f \in [Pids -> [TokenIdxs -> Int]]
         /\ \A q \in Pids, u \in TokenIdxs : f[q][u] \in U64 /\ f[q][u] \in Nat
BY DEF PositionsType, U64

\* Updates of one field of an order.
LEMMA OrderUpdateType ==
  ASSUME NEW o \in OrderType, NEW v \in U64
  PROVE  /\ [o EXCEPT !.lock_balance = v] \in OrderType
         /\ [o EXCEPT !.already_deal_amount = v] \in OrderType
         /\ [o EXCEPT !.lock_fee = v] \in OrderType
BY DEF OrderType

LEMMA CancelledType ==
  ASSUME NEW o \in OrderType PROVE Cancelled(o) \in OrderType
<1> DEFINE c == [o EXCEPT !.status = STATUS_CANCEL]
<1>1. c \in OrderType
  BY DEF OrderType
<1>2. Cancelled(o) = [c EXCEPT !.lock_balance = 0]
  BY DEF Cancelled
<1>3. 0 \in U64
  BY DEF U64
<1> HIDE DEF c
<1> QED
  BY <1>1, <1>2, <1>3, OrderUpdateType

LEMMA CancelOrderType ==
  ASSUME TypeOK, NEW pid \in Pids, NEW order_id, CancelOrder(pid, order_id)
  PROVE  TypeOK'
<1> DEFINE o == orders[order_id]
           t == OrderToken(o)
           bal == Plus(balance, pid, t, o.lock_balance)
           lock == Minus(lock_balance, pid, t, o.lock_balance)
<1>1. /\ order_id \in 1 .. Len(orders) /\ order_id \in DOMAIN orders
      /\ o \in OrderType /\ t \in TokenIdxs /\ o.pid = pid
  BY OrderAt DEF CancelOrder
<1>2. o.lock_balance \in Nat /\ o.lock_fee \in Nat
  BY <1>1 DEF OrderType, U64
<1>3. /\ balance' = Plus(bal, pid, FeeToken, o.lock_fee)
      /\ lock_balance' = Minus(lock, pid, FeeToken, o.lock_fee)
      /\ balance[pid][t] + o.lock_balance <= MaxU64
      /\ lock_balance[pid][t] >= o.lock_balance
      /\ balance'[pid][FeeToken] <= MaxU64
      /\ lock_balance'[pid][FeeToken] >= 0
  BY <1>1 DEF CancelOrder, CanUnlock, CanCredit, Unlocked
<1>4. balance \in PositionsType /\ lock_balance \in PositionsType
  BY DEF TypeOK, AccountsType, PositionsType
<1>5. bal \in PositionsType /\ lock \in PositionsType
  BY <1>1, <1>2, <1>3, <1>4, PlusType, MinusType
<1> HIDE DEF bal, lock, o, t
<1>6. /\ balance'[pid][FeeToken] = bal[pid][FeeToken] + o.lock_fee
      /\ lock_balance'[pid][FeeToken] = lock[pid][FeeToken] - o.lock_fee
  <2>1. /\ bal \in [Pids -> [TokenIdxs -> Int]]
        /\ lock \in [Pids -> [TokenIdxs -> Int]]
    BY <1>5, PositionsAreInt
  <2>2. o.lock_fee \in Int
    BY <1>2
  <2>3. Plus(bal, pid, FeeToken, o.lock_fee)[pid][FeeToken]
          = bal[pid][FeeToken] + o.lock_fee
    BY <2>1, <2>2, PlusAt
  <2>4. Minus(lock, pid, FeeToken, o.lock_fee)[pid][FeeToken]
          = lock[pid][FeeToken] - o.lock_fee
    BY <2>1, <2>2, PlusAt
  <2> QED
    BY <1>3, <2>3, <2>4
<1>7. bal[pid][FeeToken] \in Nat /\ lock[pid][FeeToken] \in Nat
  BY <1>5, PositionsAreInt
<1>8. balance' \in PositionsType /\ lock_balance' \in PositionsType
  BY <1>2, <1>3, <1>5, <1>6, <1>7, PlusType, MinusType
<1>9. AccountsType'
  BY <1>8, CommitType DEF CancelOrder, TypeOK, AccountsType, PositionsType
<1>10. Cancelled(o) \in OrderType
  BY <1>1, CancelledType
<1>11. /\ orders \in Seq(OrderType)
       /\ orders' = [orders EXCEPT ![order_id] = Cancelled(o)]
       /\ markets' = markets
  BY DEF CancelOrder, TypeOK, listings, o
<1>12. orders' \in Seq(OrderType) /\ DOMAIN orders = DOMAIN orders'
  BY <1>1, <1>10, <1>11, ExceptSeq
<1>13. (orders \in Seq(OrderType))'
  BY <1>11, <1>12 DEF OrderType
<1>14. ListingsType' /\ (trades \in Seq(TradeType))'
  BY <1>12, ListingsFrame, TradesFrame DEF CancelOrder, TypeOK
<1>15. CountersType'
  <2>1. counter' \in Nat
    BY CommitType DEF CancelOrder
  <2>2. total_fee' = total_fee /\ event_id_counter' = event_id_counter + 1
    BY DEF CancelOrder, EmitEvent, history
  <2> QED
    BY <2>1, <2>2 DEF TypeOK, CountersType
<1> QED
  BY <1>9, <1>13, <1>14, <1>15, SettlementFrame DEF CancelOrder, TypeOK

-----------------------------------------------------------------------------
(* Trades.                                                                 *)

\* An order that takes part in a trade it can pay for stays well-typed, and
\* so does what a complete fill releases.
LEMMA ExecutedType ==
  ASSUME NEW o \in OrderType, NEW cost \in U64, NEW a_amount \in U64,
         NEW b_amount \in U64, o.lock_balance >= cost
  PROVE  LET e == Executed(o, cost, a_amount, b_amount)
         IN  /\ e \in OrderType
             /\ e.pid = o.pid /\ e.market_id = o.market_id /\ e.flag = o.flag
             /\ e.asked = o.asked
             /\ e.lock_balance = o.lock_balance - cost
             /\ e.lock_fee = 0
             /\ e.status \in {STATUS_MATCH, STATUS_PARTIAL_MATCH}
             /\ Released(e) \in OrderType
             /\ Refund(e) \in Nat
             /\ Refund(e) <= e.lock_balance
<1> DEFINE deal == Wrap(o.already_deal_amount
                          + DealAmount(o, a_amount, b_amount))
           x == [o EXCEPT !.lock_balance = @ - cost,
                          !.already_deal_amount = deal,
                          !.lock_fee = 0]
           e == Executed(o, cost, a_amount, b_amount)
<1>1. deal \in U64
  <2>1. o.already_deal_amount + DealAmount(o, a_amount, b_amount) \in Nat
    BY DEF DealAmount, OrderType, U64
  <2> QED
    BY <2>1, WrapType
<1>2. e = update_status(x)
  BY DEF Executed
<1> HIDE DEF deal
<1>3. /\ x \in OrderType
      /\ x.pid = o.pid /\ x.market_id = o.market_id /\ x.flag = o.flag
      /\ x.asked = o.asked
      /\ x.lock_balance = o.lock_balance - cost
      /\ x.lock_fee = 0
  <2> DEFINE y == [o EXCEPT !.lock_balance = @ - cost]
             z == [y EXCEPT !.already_deal_amount = deal]
  <2>1. o.lock_balance - cost \in U64 /\ 0 \in U64
    BY DEF OrderType, U64
  <2>2. y \in OrderType
    BY <2>1, OrderUpdateType
  <2>3. z \in OrderType
    <3> HIDE DEF y
    <3> QED
      BY <1>1, <2>2, OrderUpdateType
  <2>4. [z EXCEPT !.lock_fee = 0] \in OrderType
    <3> HIDE DEF z
    <3> QED
      BY <2>1, <2>3, OrderUpdateType
  <2>5. x = [z EXCEPT !.lock_fee = 0]
    OBVIOUS
  <2>6. x \in OrderType
    BY <2>4, <2>5
  <2> QED
    BY <2>6 DEF OrderType
<1> HIDE DEF x, e
<1>4. /\ e \in OrderType
      /\ e.pid = x.pid /\ e.market_id = x.market_id /\ e.flag = x.flag
      /\ e.asked = x.asked
      /\ e.lock_balance = x.lock_balance
      /\ e.lock_fee = x.lock_fee
      /\ e.status \in {STATUS_MATCH, STATUS_PARTIAL_MATCH}
  BY <1>2, <1>3 DEF update_status, OrderType
<1>5. Refund(e) \in Nat /\ Refund(e) <= e.lock_balance
  BY <1>4 DEF Refund, OrderType, U64
<1>6. Released(e) \in OrderType
  BY <1>4, <1>5 DEF Released, OrderType, U64
<1> QED
  BY <1>3, <1>4, <1>5, <1>6 DEF e

\* What the checks of a trade say about the two orders.
LEMMA CanTradeFacts ==
  ASSUME TypeOK, NEW a_id \in DOMAIN orders, NEW b_id \in DOMAIN orders,
         NEW a_amount \in U64, NEW b_amount \in U64,
         CanTrade(orders[a_id], orders[b_id], a_amount, b_amount)
  PROVE  LET a == orders[a_id]
             b == orders[b_id]
             m == markets[a.market_id]
         IN  /\ a \in OrderType /\ b \in OrderType /\ m \in MarketType
             /\ a_id \in 1 .. Len(orders) /\ b_id \in 1 .. Len(orders)
             /\ a.pid \in Pids /\ b.pid \in Pids /\ a.pid # b.pid
             /\ a_id # b_id
             /\ m.token_a \in TokenIdxs /\ m.token_b \in TokenIdxs
             /\ a.market_id \in 1 .. Len(markets)
             /\ a.lock_balance >= a_amount /\ b.lock_balance >= b_amount
             /\ OrderToken(a) = m.token_a /\ OrderToken(b) = m.token_b
             /\ TradePrice(a, b) \in U64
<1> DEFINE a == orders[a_id]
           b == orders[b_id]
           m == markets[a.market_id]
<1>1. /\ a \in OrderType /\ b \in OrderType /\ m \in MarketType
      /\ a_id \in 1 .. Len(orders) /\ b_id \in 1 .. Len(orders)
  BY OrderAt
<1>2. /\ a.pid # b.pid /\ a.market_id = b.market_id
      /\ is_buy(a) /\ is_sell(b)
      /\ a.lock_balance >= a_amount /\ b.lock_balance >= b_amount
  BY DEF CanTrade
<1>3. a.market_id \in 1 .. Len(markets)
  BY <1>1, LenProperties DEF OrderType, TypeOK, ListingsType
<1>4. OrderToken(a) = m.token_a /\ OrderToken(b) = m.token_b
  BY <1>2 DEF OrderToken, PayToken, is_buy, is_sell, FLAG_BUY, FLAG_SELL
<1>5. TradePrice(a, b) \in U64
  BY <1>1 DEF TradePrice, OrderType
<1>6. m.token_a \in TokenIdxs /\ m.token_b \in TokenIdxs
  BY <1>1 DEF MarketType
<1>7. a.pid \in Pids /\ b.pid \in Pids
  BY <1>1 DEF OrderType
<1> QED
  BY <1>1, <1>2, <1>3, <1>4, <1>5, <1>6, <1>7

\* Two credits to different players, each of which stays in u64.
LEMMA TwoCreditsType ==
  ASSUME NEW f \in PositionsType,
         NEW p \in Pids, NEW q \in Pids, p # q,
         NEW t \in TokenIdxs, NEW u \in TokenIdxs,
         NEW x \in Nat, NEW y \in Nat,
         Plus(Plus(f, p, t, x), q, u, y)[p][t] <= MaxU64,
         Plus(Plus(f, p, t, x), q, u, y)[q][u] <= MaxU64
  PROVE  Plus(Plus(f, p, t, x), q, u, y) \in PositionsType
<1> DEFINE first == Plus(f, p, t, x)
           second == Plus(first, q, u, y)
<1>1. f \in [Pids -> [TokenIdxs -> Int]] /\ x \in Int /\ y \in Int
  BY PositionsAreInt
<1>2. /\ first \in [Pids -> [TokenIdxs -> Int]]
      /\ first[p][t] = f[p][t] + x
  BY <1>1, PlusAt DEF Plus
<1> HIDE DEF first
<1>3. /\ second[q][u] = first[q][u] + y
      /\ second[p][t] = first[p][t]
  <2>1. \A r \in Pids, v \in TokenIdxs :
          Plus(first, q, u, y)[r][v] =
            IF r = q /\ v = u THEN first[r][v] + y ELSE first[r][v]
    BY <1>2 DEF Plus
  <2> QED
    BY <2>1
<1>4. second[p][t] <= MaxU64 /\ second[q][u] <= MaxU64
  BY DEF first
<1> HIDE DEF second
<1>5. first \in PositionsType
  BY <1>2, <1>3, <1>4, PlusType DEF first
<1> QED
  BY <1>3, <1>4, <1>5, PlusType DEF second, first

\* The positions of both sides after a trade.
LEMMA TradePositionsType ==
  ASSUME NEW a \in OrderType, NEW b \in OrderType, NEW m \in MarketType,
         NEW a_amount \in U64, NEW b_amount \in U64,
         balance \in PositionsType, lock_balance \in PositionsType,
         a.lock_balance >= a_amount, a.pid # b.pid,
         TradeProceeds(a, b, m, a_amount, b_amount)[b.pid][m.token_a] <= MaxU64,
         TradeProceeds(a, b, m, a_amount, b_amount)[a.pid][m.token_b] <= MaxU64
  PROVE  /\ TradeLocks(a, b, m, a_amount, b_amount) \in PositionsType
         /\ TradeBalances(a, b, m, a_amount, b_amount) \in PositionsType
<1> DEFINE r == Refund(Executed(a, a_amount, a_amount, b_amount))
           proceeds == TradeProceeds(a, b, m, a_amount, b_amount)
<1>1. /\ a.pid \in Pids /\ b.pid \in Pids
      /\ m.token_a \in TokenIdxs /\ m.token_b \in TokenIdxs
      /\ a.lock_fee \in Nat /\ b.lock_fee \in Nat
      /\ a_amount \in Nat /\ b_amount \in Nat
  BY DEF OrderType, MarketType, U64
<1>2. r \in Nat
  BY ExecutedType
<1> HIDE DEF r
<1>3. TradeLocks(a, b, m, a_amount, b_amount) \in PositionsType
  <2> DEFINE paid_a == TryMinus(lock_balance, a.pid, m.token_a, a_amount)
             paid_b == TryMinus(paid_a, b.pid, m.token_b, b_amount)
             fee_a == TryMinus(paid_b, a.pid, FeeToken, a.lock_fee)
             fee_b == TryMinus(fee_a, b.pid, FeeToken, b.lock_fee)
  <2>1. paid_a \in PositionsType
    BY <1>1, TryMinusType
  <2> HIDE DEF paid_a
  <2>2. paid_b \in PositionsType
    BY <1>1, <2>1, TryMinusType
  <2> HIDE DEF paid_b
  <2>3. fee_a \in PositionsType
    BY <1>1, <2>2, TryMinusType
  <2> HIDE DEF fee_a
  <2>4. fee_b \in PositionsType
    BY <1>1, <2>3, TryMinusType
  <2> HIDE DEF fee_b
  <2>5. TryMinus(fee_b, a.pid, m.token_a, r) \in PositionsType
    BY <1>1, <1>2, <2>4, TryMinusType
  <2> QED
    BY <2>5 DEF TradeLocks, fee_b, fee_a, paid_b, paid_a, r
<1>4. proceeds \in PositionsType
  BY <1>1, TwoCreditsType DEF TradeProceeds
<1>5. TradeBalances(a, b, m, a_amount, b_amount) \in PositionsType
  <2> HIDE DEF proceeds
  <2>1. TryPlus(proceeds, a.pid, m.token_a, r) \in PositionsType
    BY <1>1, <1>2, <1>4, TryPlusType
  <2> QED
    BY <2>1 DEF TradeBalances, proceeds, r
<1> QED
  BY <1>3, <1>5

\* A trade updates the two orders one after the other.
LEMMA TradeOrdersSteps ==
  ASSUME NEW a_id, NEW b_id, NEW a_amount, NEW b_amount
  PROVE  LET one == [orders EXCEPT ![a_id] =
                       Released(Executed(orders[a_id], a_amount, a_amount,
                                         b_amount))]
         IN  TradeOrders(a_id, b_id, a_amount, b_amount) =
               [one EXCEPT ![b_id] =
                  Executed(orders[b_id], b_amount, a_amount, b_amount)]
BY DEF TradeOrders

LEMMA AddTradeType ==
  ASSUME TypeOK, NEW signer \in Pids, NEW a_id, NEW b_id,
         NEW a_amount \in TradeAmounts, NEW b_amount \in TradeAmounts,
         AddTrade(signer, a_id, b_id, a_amount, b_amount)
  PROVE  TypeOK'
<1> DEFINE a == orders[a_id]
           b == orders[b_id]
           m == markets[a.market_id]
           ea == Executed(a, a_amount, a_amount, b_amount)
           eb == Executed(b, b_amount, a_amount, b_amount)
<1>1. a_id \in DOMAIN orders /\ b_id \in DOMAIN orders
  BY DEF AddTrade
<1>2. a_amount \in U64 /\ b_amount \in U64
  OBVIOUS
<1>3. CanTrade(a, b, a_amount, b_amount)
  BY DEF AddTrade
<1>4. /\ a \in OrderType /\ b \in OrderType /\ m \in MarketType
      /\ a_id \in 1 .. Len(orders) /\ b_id \in 1 .. Len(orders)
      /\ a.pid # b.pid /\ a.market_id \in 1 .. Len(markets) /\ a_id # b_id
      /\ a.lock_balance >= a_amount /\ b.lock_balance >= b_amount
      /\ TradePrice(a, b) \in U64
  BY <1>1, <1>2, <1>3, CanTradeFacts
<1>5. /\ balance' = TradeBalances(a, b, m, a_amount, b_amount)
      /\ lock_balance' = TradeLocks(a, b, m, a_amount, b_amount)
      /\ TradeProceeds(a, b, m, a_amount, b_amount)[b.pid][m.token_a] <= MaxU64
      /\ TradeProceeds(a, b, m, a_amount, b_amount)[a.pid][m.token_b] <= MaxU64
      /\ total_fee' = Wrap(total_fee + TradeFees(a, b))
      /\ orders' = TradeOrders(a_id, b_id, a_amount, b_amount)
      /\ trades' = Append(trades, [a_order_id |-> a_id, b_order_id |-> b_id,
                                   a_actual_amount |-> a_amount,
                                   b_actual_amount |-> b_amount])
      /\ markets' = [markets EXCEPT
                       ![a.market_id].last_deal_price = TradePrice(a, b)]
  BY DEF AddTrade
<1>6. AccountsType'
  <2>1. balance \in PositionsType /\ lock_balance \in PositionsType
    BY DEF TypeOK, AccountsType, PositionsType
  <2>2. balance' \in PositionsType /\ lock_balance' \in PositionsType
    <3> HIDE DEF a, b, m
    <3> QED
      BY <1>2, <1>4, <1>5, <2>1, TradePositionsType
  <2> QED
    BY <2>2, CommitType DEF AddTrade, TypeOK, AccountsType, PositionsType
<1>7. markets' \in Seq(MarketType) /\ DOMAIN markets = DOMAIN markets'
  <2> DEFINE m2 == [m EXCEPT !.last_deal_price = TradePrice(a, b)]
  <2>1. m2 \in MarketType
    <3> HIDE DEF a, b, m
    <3> QED
      BY <1>4 DEF MarketType
  <2>2. markets' = [markets EXCEPT ![a.market_id] = m2]
    BY <1>5
  <2>3. markets \in Seq(MarketType)
    BY DEF TypeOK, ListingsType
  <2> HIDE DEF m2, a
  <2> QED
    BY <1>4, <2>1, <2>2, <2>3, ExceptSeq
<1>8. ListingsType'
  BY <1>7 DEF AddTrade, TypeOK, ListingsType, MarketType
<1>9. orders' \in Seq(OrderType) /\ DOMAIN orders = DOMAIN orders'
  <2> DEFINE one == [orders EXCEPT ![a_id] = Released(ea)]
  <2>1. Released(ea) \in OrderType /\ eb \in OrderType
    <3> HIDE DEF a, b
    <3> QED
      BY <1>2, <1>4, ExecutedType
  <2>2. orders \in Seq(OrderType)
    BY DEF TypeOK
  <2> HIDE DEF ea
  <2>3. /\ one \in Seq(OrderType) /\ Len(one) = Len(orders)
        /\ one[b_id] = b
    BY <1>4, <2>1, <2>2, ExceptSeq
  <2>4. orders' = [one EXCEPT ![b_id] = eb]
    BY <1>5, TradeOrdersSteps DEF ea
  <2> HIDE DEF one, eb
  <2>5. orders' \in Seq(OrderType) /\ Len(orders') = Len(orders)
    BY <1>4, <2>1, <2>3, <2>4, ExceptSeq
  <2> QED
    BY <2>2, <2>5, LenProperties
<1>10. (orders \in Seq(OrderType))'
  <2>1. OrderType' = OrderType
    BY <1>7 DEF OrderType
  <2> QED
    BY <1>9, <2>1
<1>11. (trades \in Seq(TradeType))'
  <2> DEFINE tr == [a_order_id |-> a_id, b_order_id |-> b_id,
                    a_actual_amount |-> a_amount, b_actual_amount |-> b_amount]
  <2>1. tr \in TradeType /\ trades \in Seq(TradeType)
    BY <1>1, <1>2 DEF TradeType, TypeOK
  <2>2. trades' = Append(trades, tr)
    BY <1>5
  <2> HIDE DEF tr
  <2>3. trades' \in Seq(TradeType)
    BY <2>1, <2>2, AppendType
  <2>4. TradeType' = TradeType
    BY <1>9 DEF TradeType
  <2> QED
    BY <2>3, <2>4
<1>12. CountersType'
  <2>1. total_fee \in Nat /\ a.lock_fee \in Nat /\ b.lock_fee \in Nat
    <3>1. total_fee \in Nat
      BY DEF TypeOK, CountersType, U64
    <3> HIDE DEF a, b
    <3> QED
      BY <1>4, <3>1 DEF OrderType, U64
  <2>2. total_fee + TradeFees(a, b) \in Nat
    BY <2>1 DEF TradeFees
  <2>3. total_fee' \in U64
    BY <1>5, <2>2, WrapType
  <2>4. counter' \in Nat
    BY CommitType DEF AddTrade
  <2>5. event_id_counter' \in Nat
    BY DEF AddTrade, EmitEvent, TypeOK, CountersType
  <2> QED
    BY <2>3, <2>4, <2>5 DEF CountersType
<1> QED
  BY <1>6, <1>8, <1>10, <1>11, <1>12, SettlementFrame DEF AddTrade, TypeOK

-----------------------------------------------------------------------------
LEMMA InitType == Init => TypeOK
<1> SUFFICES ASSUME Init PROVE TypeOK
  OBVIOUS
<1>1. 0 \in U64
  BY DEF U64
<1>2. <<>> \in Seq(MarketType) /\ <<>> \in Seq(OrderType) /\ <<>> \in Seq(TradeType)
      /\ <<>> \in Seq([token_idx : TokenIdxs, amount : U64])
  BY EmptySeq
<1> QED
  BY <1>1, <1>2 DEF Init, TypeOK, AccountsType, ListingsType, CountersType,
                    SettlementType

LEMMA NextType == TypeOK /\ [Next]_vars => TypeOK'
<1> SUFFICES ASSUME TypeOK, [Next]_vars PROVE TypeOK'
  OBVIOUS
<1>1. CASE \E pid \in Pids : RegisterPlayer(pid)
  BY <1>1, RegisterPlayerType
<1>2. CASE \E pid \in Pids, idx \in TokenIdxs, address \in Addresses :
             AddToken(pid, idx, address) \/ UpdateToken(pid, idx, address)
  BY <1>2, StoreTokenType DEF AddToken, UpdateToken
<1>3. CASE \E pid \in Pids, token_a, token_b \in TokenIdxs, price \in Prices :
             AddMarket(pid, token_a, token_b, price)
  BY <1>3, AddMarketType
<1>4. CASE \E pid \in Pids, market_id \in 1 .. MaxMarkets :
             CloseMarket(pid, market_id)
  BY <1>4, CloseMarketType
<1>5. CASE \E signer, pid \in Pids, idx \in TokenIdxs, amount \in MoveAmounts :
             \/ Deposit(signer, pid, idx, amount)
             \/ Transfer(signer, pid, idx, amount)
  BY <1>5, DepositType, TransferType
<1>6. CASE \E pid \in Pids, idx \in TokenIdxs, amount \in MoveAmounts :
             Withdraw(pid, idx, amount)
  BY <1>6, WithdrawType
<1>7. CASE FlushSettlement
  BY <1>7, FlushSettlementType
<1>8. CASE \E pid \in Pids, market_id \in 1 .. MaxMarkets, flag \in Flags :
             \/ \E price \in Prices, amount \in LimitAmounts :
                  AddLimitOrder(pid, market_id, flag, price, amount)
             \/ \E b_amount, a_amount \in MarketAmounts :
                  AddMarketOrder(pid, market_id, flag, b_amount, a_amount)
  BY <1>8, AddLimitOrderType, AddMarketOrderType
<1>9. CASE \E pid \in Pids, order_id \in 1 .. MaxOrders :
             CancelOrder(pid, order_id)
  BY <1>9, CancelOrderType
<1>10. CASE \E signer \in Pids, a_id, b_id \in 1 .. MaxOrders,
               a_amount, b_amount \in TradeAmounts :
              AddTrade(signer, a_id, b_id, a_amount, b_amount)
  BY <1>10, AddTradeType
<1>11. CASE UNCHANGED vars
  <2>1. UNCHANGED <<accounts, counter, total_fee, event_id_counter, history,
                    settlement, listings, orders, trades>>
    BY <1>11 DEF vars
  <2>2. AccountsType' /\ CountersType' /\ SettlementType'
    BY <2>1 DEF TypeOK, AccountsType, CountersType, SettlementType, accounts,
                history
  <2> QED
    BY <2>1, <2>2, BooksFrame DEF TypeOK
<1> QED
  BY <1>1, <1>2, <1>3, <1>4, <1>5, <1>6, <1>7, <1>8, <1>9, <1>10, <1>11
  DEF Next

\* Type correctness: whatever the players, tokens, amounts and prices, no
\* stored number leaves u64 and no stored id dangles.
THEOREM TypeCorrect == Spec => []TypeOK
BY InitType, NextType, PTL DEF Spec
=============================================================================
