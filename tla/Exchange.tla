------------------------------ MODULE Exchange ------------------------------
(***************************************************************************)
(* The rollup application of zkwasm-exchange: src/src/transaction.rs with   *)
(* player.rs, state.rs, settlement.rs and event.rs.  The wasm image runs    *)
(* one transaction at a time, so each ACCEPTED transaction is one action,   *)
(* named after its command.  A transaction the code rejects with an error   *)
(* code, or on which it traps (`require`, `unwrap`, a division by zero),    *)
(* has stored nothing by then: it is a stuttering step, and the guard of    *)
(* the action is the conjunction of the checks it would have failed.        *)
(*                                                                         *)
(* Every number is a u64 kept in the Merkle store; MaxU64 is its maximum,   *)
(* and `+=` and `*` wrap as they do in the release build.  A player id      *)
(* stands for the pair [pid_1, pid_2]; ids of markets, orders and trades    *)
(* are their positions in the sequences, since the three counters of State  *)
(* only ever number them 1, 2, 3, ...                                       *)
(***************************************************************************)
EXTENDS Integers, Sequences, Sums

CONSTANTS
  NumPids,      \* player ids are 1..NumPids
  Admin,        \* the pid of ADMIN_PUBKEY
  TokenIdxs,    \* token indices transactions mention
  Addresses,    \* token addresses
  NoToken,      \* "no record stored under this index"
  MarketRecord, \* "the record under this index is a market"
  FeeToken,     \* CONFIG.fee_token_idx
  Fee,          \* CONFIG.fee
  Precision,    \* CONFIG.precision
  MaxU64,       \* 2^64 - 1
  MaxU8,        \* 2^8 - 1
  Flags,        \* order flags that clients send
  Prices,       \* limit prices and initial market prices
  LimitAmounts, MarketAmounts,   \* order amounts
  TradeAmounts, \* amounts the admin puts in a trade
  MoveAmounts,  \* deposit, transfer and withdraw amounts
  MaxSupply,    \* bound: what is ever deposited of one token
  MaxMarkets, MaxOrders, MaxTrades, MaxCounter   \* bounds on the run

Pids == 1 .. NumPids
U64 == 0 .. MaxU64

ASSUME PidsAssumption == NumPids \in Nat /\ Admin \in Pids
ASSUME WidthAssumption ==
  MaxU64 \in Nat /\ MaxU8 \in Nat \ {0} /\ MaxSupply \in Nat
ASSUME TokenAssumption ==
  /\ TokenIdxs \subseteq Nat
  /\ FeeToken \in TokenIdxs
  /\ NoToken \notin Addresses
  /\ MarketRecord \notin Addresses \cup {NoToken}
ASSUME ConfigAssumption == Fee \in U64 /\ Precision \in Nat \ {0}
ASSUME InputAssumption ==
  /\ Flags \subseteq U64
  /\ Prices \subseteq U64
  /\ LimitAmounts \subseteq U64 /\ MarketAmounts \subseteq U64
  /\ TradeAmounts \subseteq U64
  /\ MoveAmounts \subseteq U64
ASSUME BoundAssumption ==
  /\ MaxMarkets \in Nat /\ MaxOrders \in Nat /\ MaxTrades \in Nat
  /\ MaxCounter \in Nat

VARIABLES
  registered,        \* the pids with a stored Player
  nonce,             \* [Pids -> Nat]
  balance,           \* [Pids -> [TokenIdxs -> U64]], Position.balance
  lock_balance,      \* [Pids -> [TokenIdxs -> U64]], Position.lock_balance
  tokens,            \* what is stored under each token index
  markets, orders, trades,    \* sequences of records
  settlement,        \* the withdrawals not flushed yet
  counter, total_fee, event_id_counter,   \* the rest of STATE
  deposited, withdrawn, paid  \* history: per token, what was credited,
                              \* debited, and handed to the settlement layer

accounts == <<registered, nonce, balance, lock_balance>>
listings == <<tokens, markets>>
history == <<deposited, withdrawn, paid>>
vars == <<accounts, listings, orders, trades, settlement,
          counter, total_fee, event_id_counter, history>>

-----------------------------------------------------------------------------
(* Arithmetic and positions.                                               *)

Wrap(x) == x % (MaxU64 + 1)

\* safe_mul before its range check: the 128-bit product cannot overflow.
MulDiv(x, y) == (x * y) \div Precision

\* Mutant: what is added replaces what was there.
Plus_Overwrites(f, p, t, x) == [f EXCEPT ![p][t] = x]

\* inc_balance / inc_lock_balance once they cannot overflow, and their
\* opposites once they cannot underflow.
Plus(f, p, t, x) == [f EXCEPT ![p][t] = @ + x]
Minus(f, p, t, x) == [f EXCEPT ![p][t] = @ - x]

\* The same calls where the code ignores the returned Boolean: when the
\* result would leave u64 the position stays as it was.
TryPlus(f, p, t, x) ==
  [f EXCEPT ![p][t] = IF @ + x <= MaxU64 THEN @ + x ELSE @]
TryMinus(f, p, t, x) ==
  [f EXCEPT ![p][t] = IF @ < x THEN @ ELSE @ - x]

\* Mutant: the sum is not checked.
CanCredit_Unchecked(p, t, x) == TRUE

\* inc_balance succeeds; dec_balance succeeds.
CanCredit(p, t, x) == balance[p][t] + x <= MaxU64
CanDebit(p, t, x) == balance[p][t] >= x

-----------------------------------------------------------------------------
(* Orders.                                                                 *)

TYPE_LIMIT == "limit"
TYPE_MARKET == "market"
STATUS_LIVE == "live"
STATUS_MATCH == "match"
STATUS_PARTIAL_MATCH == "partial_match"
STATUS_CANCEL == "cancel"
FLAG_SELL == 0
FLAG_BUY == 1
MARKET_STATUS_OPEN == 1
MARKET_STATUS_CLOSE == 0

\* Mutant: a matched order still counts as live.
is_live_Matched(o) == o.status # STATUS_CANCEL

is_live(o) == o.status \in {STATUS_LIVE, STATUS_PARTIAL_MATCH}
is_limit_order(o) == o.type_ = TYPE_LIMIT
is_market_order(o) == o.type_ = TYPE_MARKET
is_buy(o) == o.flag = FLAG_BUY
is_sell(o) == o.flag = FLAG_SELL
is_close(m) == m.status = MARKET_STATUS_CLOSE

\* The token an order locks: a buyer pays in token_a, anyone else in token_b.
PayToken(flag, m) == IF flag = FLAG_BUY THEN m.token_a ELSE m.token_b
OrderToken(o) == PayToken(o.flag, markets[o.market_id])

update_status(o) ==
  [o EXCEPT !.status = IF o.b_token_amount = o.already_deal_amount
                       THEN STATUS_MATCH ELSE STATUS_PARTIAL_MATCH]

-----------------------------------------------------------------------------
Init ==
  /\ registered = {}
  /\ nonce = [p \in Pids |-> 0]
  /\ balance = [p \in Pids |-> [t \in TokenIdxs |-> 0]]
  /\ lock_balance = [p \in Pids |-> [t \in TokenIdxs |-> 0]]
  /\ tokens = [t \in TokenIdxs |-> NoToken]
  /\ markets = <<>> /\ orders = <<>> /\ trades = <<>> /\ settlement = <<>>
  /\ counter = 0 /\ total_fee = 0 /\ event_id_counter = 0
  /\ deposited = [t \in TokenIdxs |-> 0]
  /\ withdrawn = [t \in TokenIdxs |-> 0]
  /\ paid = [t \in TokenIdxs |-> 0]

\* get_and_check_nonce, which traps for a stranger or a wrong nonce: only a
\* transaction that carries the signer's current nonce is accepted.
CheckNonce(signer) == signer \in registered /\ counter < MaxCounter

\* player.store() of the copy with the incremented nonce, and STATE.tick().
Commit(signer) ==
  /\ nonce' = [nonce EXCEPT ![signer] = @ + 1]
  /\ counter' = counter + 1

\* finalize_events: a transaction that emitted an event takes an event id.
EmitEvent == event_id_counter' = event_id_counter + 1

-----------------------------------------------------------------------------
(* Players, tokens and markets.                                            *)
(*                                                                         *)
(* TOKEN_STORE_PREFIX and MARKET_STORE_PREFIX are the same number, so that  *)
(* token k and market k have one record between them: whichever is stored   *)
(* last is there.  A token "exists" if its index has a record of either     *)
(* kind.  A market's five words are loaded from a token's four with a trap. *)

\* Token::load is_some.
TokenExists(idx) == tokens[idx] # NoToken

\* Mutant: a token's record does for a market's.
CanLoad_Any(market_id) == market_id \in DOMAIN markets

\* Market::load returns the market.
CanLoad(market_id) ==
  /\ market_id \in DOMAIN markets
  /\ market_id \in TokenIdxs => tokens[market_id] = MarketRecord

\* Market::store, as it changes what is stored under token indices.
MarketStored(market_id) ==
  [t \in TokenIdxs |-> IF t = market_id THEN MarketRecord ELSE tokens[t]]

RegisterPlayer(pid) ==
  /\ counter < MaxCounter
  /\ pid \notin registered
  /\ registered' = registered \cup {pid}
  /\ Commit(pid)
  /\ UNCHANGED <<balance, lock_balance, listings, orders, trades, settlement,
                 total_fee, event_id_counter, history>>

\* AddToken and UpdateToken.
StoreToken(pid, idx, address) ==
  /\ idx <= 255
  /\ pid = Admin
  /\ CheckNonce(pid)
  /\ tokens' = [tokens EXCEPT ![idx] = address]
  /\ Commit(pid)
  /\ EmitEvent
  /\ UNCHANGED <<registered, balance, lock_balance, markets, orders, trades,
                 settlement, total_fee, history>>

AddToken(pid, idx, address) ==
  ~TokenExists(idx) /\ StoreToken(pid, idx, address)

UpdateToken(pid, idx, address) ==
  TokenExists(idx) /\ StoreToken(pid, idx, address)

AddMarket(pid, token_a, token_b, price) ==
  /\ Len(markets) < MaxMarkets
  /\ pid = Admin
  /\ TokenExists(token_a) /\ TokenExists(token_b)
  /\ CheckNonce(pid)
  /\ markets' = Append(markets, [status |-> MARKET_STATUS_OPEN,
                                 token_a |-> token_a, token_b |-> token_b,
                                 last_deal_price |-> price])
  /\ tokens' = MarketStored(Len(markets) + 1)
  /\ Commit(pid)
  /\ EmitEvent
  /\ UNCHANGED <<registered, balance, lock_balance, orders, trades,
                 settlement, total_fee, history>>

CloseMarket(pid, market_id) ==
  /\ pid = Admin
  /\ CheckNonce(pid)
  /\ CanLoad(market_id)
  /\ markets' = [markets EXCEPT ![market_id].status = MARKET_STATUS_CLOSE]
  /\ Commit(pid)
  /\ EmitEvent
  /\ UNCHANGED <<registered, balance, lock_balance, tokens, orders, trades,
                 settlement, total_fee, history>>

-----------------------------------------------------------------------------
(* Money in, between players and out.                                      *)

\* Mutant: the admin's record is stored first.
DepositNonces_AdminFirst(pid) ==
  LET admin_stored == [nonce EXCEPT ![Admin] = nonce[Admin] + 1]
  IN  [admin_stored EXCEPT ![pid] = nonce[pid]]

\* Deposit loads the depositor's record and the admin's own one separately,
\* and stores the admin's last: when they are the same player the second
\* store must win.
DepositNonces(pid) ==
  LET player_stored == [nonce EXCEPT ![pid] = nonce[pid]]
  IN  [player_stored EXCEPT ![Admin] = nonce[Admin] + 1]

Deposit(signer, pid, token_idx, amount) ==
  /\ deposited[token_idx] + amount <= MaxSupply
  /\ signer = Admin
  /\ CheckNonce(signer)
  /\ TokenExists(token_idx)
  /\ CanCredit(pid, token_idx, amount)
  /\ registered' = registered \cup {pid}
  /\ balance' = Plus(balance, pid, token_idx, amount)
  /\ nonce' = DepositNonces(pid)
  /\ counter' = counter + 1
  /\ deposited' = [deposited EXCEPT ![token_idx] = @ + amount]
  /\ UNCHANGED <<lock_balance, listings, orders, trades, settlement,
                 total_fee, event_id_counter, withdrawn, paid>>

Transfer(signer, pid, token_idx, amount) ==
  /\ signer = Admin
  /\ CheckNonce(signer)
  /\ pid # signer
  /\ TokenExists(token_idx)
  /\ CanDebit(signer, token_idx, amount)
  /\ CanCredit(pid, token_idx, amount)
  /\ registered' = registered \cup {pid}
  /\ balance' = Plus(Minus(balance, signer, token_idx, amount),
                     pid, token_idx, amount)
  /\ Commit(signer)
  /\ UNCHANGED <<lock_balance, listings, orders, trades, settlement,
                 total_fee, event_id_counter, history>>

\* Mutant: the payout is rounded up.
PayoutOf_Up(amount) == (amount + Precision - 1) \div Precision

\* The settlement layer is paid in whole units of Precision; the whole amount
\* leaves the balance.
PayoutOf(amount) == amount \div Precision

Withdraw(pid, token_idx, amount) ==
  /\ CheckNonce(pid)
  /\ TokenExists(token_idx)
  /\ CanDebit(pid, token_idx, amount)
  /\ settlement' = Append(settlement, [token_idx |-> token_idx,
                                       amount |-> PayoutOf(amount)])
  /\ balance' = Minus(balance, pid, token_idx, amount)
  /\ Commit(pid)
  /\ withdrawn' = [withdrawn EXCEPT ![token_idx] = @ + amount]
  /\ UNCHANGED <<registered, lock_balance, listings, orders, trades,
                 total_fee, event_id_counter, deposited, paid>>

PendingPayout(t) ==
  SumTo([i \in DOMAIN settlement |->
           IF settlement[i].token_idx = t THEN settlement[i].amount ELSE 0],
        Len(settlement))

\* flush_settlement: the host takes all pending withdrawals of a bundle.
FlushSettlement ==
  /\ settlement # <<>>
  /\ paid' = [t \in TokenIdxs |-> paid[t] + PendingPayout(t)]
  /\ settlement' = <<>>
  /\ UNCHANGED <<accounts, listings, orders, trades, counter, total_fee,
                 event_id_counter, deposited, withdrawn>>

-----------------------------------------------------------------------------
(* Placing and cancelling orders.                                          *)

\* What add_limit_order and add_market_order share: lock `cost` of token t
\* and then the fee, which may be the same token, and store the new order.
PlaceOrder(pid, t, cost, order) ==
  LET bal == Minus(balance, pid, t, cost)
      lock == Plus(lock_balance, pid, t, cost)
  IN  /\ Len(orders) < MaxOrders
      /\ CanDebit(pid, t, cost)
      /\ lock_balance[pid][t] + cost <= MaxU64
      /\ bal[pid][FeeToken] >= Fee
      /\ lock[pid][FeeToken] + Fee <= MaxU64
      /\ balance' = Minus(bal, pid, FeeToken, Fee)
      /\ lock_balance' = Plus(lock, pid, FeeToken, Fee)
      /\ orders' = Append(orders, order)
      /\ Commit(pid)
      /\ EmitEvent
      /\ UNCHANGED <<registered, listings, trades, settlement, total_fee,
                     history>>

\* The request's flag is a u64, and decides what is locked; the stored order
\* has its last byte.  `asked` is history: no record keeps the whole flag.
NewOrder(type_, pid, market_id, flag, cost, price, b_amount, a_amount) ==
  [type_ |-> type_, status |-> STATUS_LIVE, pid |-> pid,
   market_id |-> market_id, flag |-> flag % (MaxU8 + 1), asked |-> flag,
   lock_balance |-> cost, lock_fee |-> Fee, price |-> price,
   b_token_amount |-> b_amount, a_token_amount |-> a_amount,
   already_deal_amount |-> 0]

\* A buyer locks the price of the whole amount, any other flag the amount.
LimitCost(flag, price, amount) ==
  IF flag = FLAG_BUY THEN MulDiv(amount, price) ELSE amount

AddLimitOrder(pid, market_id, flag, price, amount) ==
  /\ CheckNonce(pid)
  /\ CanLoad(market_id)
  /\ ~is_close(markets[market_id])
  /\ LET cost == LimitCost(flag, price, amount)
     IN  /\ cost <= MaxU64
         /\ PlaceOrder(pid, PayToken(flag, markets[market_id]), cost,
              NewOrder(TYPE_LIMIT, pid, market_id, flag, cost, price,
                       amount, 0))

\* Amounts given in the token that is paid are locked as they are, the others
\* at twice their worth at the last price; both doublings wrap.  A flag that
\* is neither buy nor sell locks nothing.
MarketCost(flag, last, b_amount, a_amount) ==
  CASE flag = FLAG_BUY /\ a_amount # 0 -> a_amount
    [] flag = FLAG_BUY /\ a_amount = 0 -> Wrap(MulDiv(b_amount, last) * 2)
    [] flag = FLAG_SELL /\ b_amount # 0 -> b_amount
    [] flag = FLAG_SELL /\ b_amount = 0 ->
         Wrap(a_amount * 2 * Precision) \div last
    [] OTHER -> 0

AddMarketOrder(pid, market_id, flag, b_amount, a_amount) ==
  /\ CheckNonce(pid)
  /\ CanLoad(market_id)
  /\ ~is_close(markets[market_id])
  /\ b_amount = 0 \/ a_amount = 0
  /\ LET last == markets[market_id].last_deal_price
     IN  /\ flag = FLAG_BUY /\ a_amount = 0 => MulDiv(b_amount, last) <= MaxU64
         /\ flag = FLAG_SELL /\ b_amount = 0 => last # 0
         /\ LET cost == MarketCost(flag, last, b_amount, a_amount)
            IN  PlaceOrder(pid, PayToken(flag, markets[market_id]), cost,
                  NewOrder(TYPE_MARKET, pid, market_id, flag, cost, 0,
                           b_amount, a_amount))

\* cancel_order's additions and subtractions on the owner's two positions,
\* which are one position when the order pays in the fee token.
Unlocked(o) ==
  LET t == OrderToken(o)
  IN  [balance |-> Plus(Plus(balance, o.pid, t, o.lock_balance),
                        o.pid, FeeToken, o.lock_fee),
       lock |-> Minus(Minus(lock_balance, o.pid, t, o.lock_balance),
                      o.pid, FeeToken, o.lock_fee)]

\* None of those four calls overflows or underflows.
CanUnlock(o) ==
  LET t == OrderToken(o)
  IN  /\ CanCredit(o.pid, t, o.lock_balance)
      /\ lock_balance[o.pid][t] >= o.lock_balance
      /\ Unlocked(o).balance[o.pid][FeeToken] <= MaxU64
      /\ Unlocked(o).lock[o.pid][FeeToken] >= 0

\* lock_fee stays in the stored record.
Cancelled(o) == [o EXCEPT !.status = STATUS_CANCEL, !.lock_balance = 0]

CancelOrder(pid, order_id) ==
  /\ order_id \in DOMAIN orders
  /\ orders[order_id].pid = pid
  /\ is_live(orders[order_id])
  /\ CheckNonce(pid)
  /\ CanLoad(orders[order_id].market_id)
  /\ CanUnlock(orders[order_id])
  /\ balance' = Unlocked(orders[order_id]).balance
  /\ lock_balance' = Unlocked(orders[order_id]).lock
  /\ orders' = [orders EXCEPT ![order_id] = Cancelled(@)]
  /\ Commit(pid)
  /\ EmitEvent
  /\ UNCHANGED <<registered, listings, trades, settlement, total_fee, history>>

-----------------------------------------------------------------------------
(* Trades: the admin reports that buy order a and sell order b exchanged    *)
(* a_amount of token_a for b_amount of token_b.                             *)

\* Mutant: the comparison the other way round.
PricesMatch_Reversed(a, b) ==
  is_limit_order(a) /\ is_limit_order(b) => a.price < b.price

PricesMatch(a, b) ==
  is_limit_order(a) /\ is_limit_order(b) => a.price > b.price

\* The seller's limit, unless only the buyer has one.
TradePrice(a, b) ==
  IF is_limit_order(a) /\ is_market_order(b) THEN a.price ELSE b.price

\* All the checks of add_trade up to the first change of a position.
CanTrade(a, b, a_amount, b_amount) ==
  /\ is_live(a) /\ is_live(b)
  /\ CanLoad(a.market_id)
  /\ ~is_close(markets[a.market_id])
  /\ a.market_id = b.market_id
  /\ is_buy(a) /\ is_sell(b)
  /\ a.pid # b.pid
  /\ {a.pid, b.pid} \subseteq registered
  /\ ~(is_market_order(a) /\ is_market_order(b))
  /\ PricesMatch(a, b)
  /\ MulDiv(TradePrice(a, b), b_amount) <= MaxU64
  /\ MulDiv(TradePrice(a, b), b_amount) = a_amount
  /\ a.lock_balance >= a_amount
  /\ b.lock_balance >= b_amount

\* How far a trade advances an order: in token_b, except for a market order
\* whose size was given in token_a.
DealAmount(o, a_amount, b_amount) ==
  IF is_market_order(o) /\ o.a_token_amount # 0 THEN a_amount ELSE b_amount

\* Mutant: the fee stays locked and is collected again.
Executed_KeepsFee(o, cost, a_amount, b_amount) ==
  update_status(
    [o EXCEPT !.lock_balance = @ - cost,
              !.already_deal_amount =
                 Wrap(@ + DealAmount(o, a_amount, b_amount))])

\* Mutant: the buyer's lock falls by the amount of the other token.
Executed_WrongToken(o, cost, a_amount, b_amount) ==
  update_status(
    [o EXCEPT !.lock_balance = IF @ < b_amount THEN 0 ELSE @ - b_amount,
              !.already_deal_amount =
                 Wrap(@ + DealAmount(o, a_amount, b_amount)),
              !.lock_fee = 0])

\* Mutant: progress is always counted in token_b.
Executed_InTokenB(o, cost, a_amount, b_amount) ==
  update_status(
    [o EXCEPT !.lock_balance = @ - cost,
              !.already_deal_amount = Wrap(@ + b_amount),
              !.lock_fee = 0])

\* An order after its part of a trade that costs it `cost`; its fee is spent.
Executed(o, cost, a_amount, b_amount) ==
  update_status(
    [o EXCEPT !.lock_balance = @ - cost,
              !.already_deal_amount =
                 Wrap(@ + DealAmount(o, a_amount, b_amount)),
              !.lock_fee = 0])

\* Mutant: a complete fill releases nothing.
Refund_Never(o) == 0

\* Only the buyer gets back what a complete fill left locked.
Refund(o) == IF o.status = STATUS_MATCH THEN o.lock_balance ELSE 0
Released(o) == [o EXCEPT !.lock_balance = @ - Refund(o)]

\* Mutant: the seller's fee stays in his position.
TradeLocks_NoSellerFee(a, b, m, a_amount, b_amount) ==
  LET paid_a == TryMinus(lock_balance, a.pid, m.token_a, a_amount)
      paid_b == TryMinus(paid_a, b.pid, m.token_b, b_amount)
      fee_a == TryMinus(paid_b, a.pid, FeeToken, a.lock_fee)
  IN  TryMinus(fee_a, a.pid, m.token_a,
               Refund(Executed(a, a_amount, a_amount, b_amount)))

\* Mutant: every trade takes the seller's fee, not only the first one.
TradeLocks_FeeEveryTime(a, b, m, a_amount, b_amount) ==
  TryMinus(TradeLocks_NoSellerFee(a, b, m, a_amount, b_amount),
           b.pid, FeeToken, Fee)

\* Lock balances: the two costs, the two fees, then the buyer's refund.
TradeLocks(a, b, m, a_amount, b_amount) ==
  LET paid_a == TryMinus(lock_balance, a.pid, m.token_a, a_amount)
      paid_b == TryMinus(paid_a, b.pid, m.token_b, b_amount)
      fee_a == TryMinus(paid_b, a.pid, FeeToken, a.lock_fee)
      fee_b == TryMinus(fee_a, b.pid, FeeToken, b.lock_fee)
  IN  TryMinus(fee_b, a.pid, m.token_a,
               Refund(Executed(a, a_amount, a_amount, b_amount)))

\* Mutant: the buyer pays out of the available balance.
TradeProceeds_FromBalance(a, b, m, a_amount, b_amount) ==
  Minus(Plus(Plus(balance, b.pid, m.token_a, a_amount),
             a.pid, m.token_b, b_amount),
        a.pid, m.token_a, a_amount)

\* What the two sides receive, before the refund.
TradeProceeds(a, b, m, a_amount, b_amount) ==
  Plus(Plus(balance, b.pid, m.token_a, a_amount), a.pid, m.token_b, b_amount)

\* Mutant: the refund is forgotten.
TradeBalances_NoRefund(a, b, m, a_amount, b_amount) ==
  TradeProceeds(a, b, m, a_amount, b_amount)

\* Mutant: the refund is what was locked before the trade.
TradeBalances_FullRefund(a, b, m, a_amount, b_amount) ==
  IF Executed(a, a_amount, a_amount, b_amount).status = STATUS_MATCH
  THEN TryPlus(TradeProceeds(a, b, m, a_amount, b_amount),
               a.pid, m.token_a, a.lock_balance)
  ELSE TradeProceeds(a, b, m, a_amount, b_amount)

TradeBalances(a, b, m, a_amount, b_amount) ==
  TryPlus(TradeProceeds(a, b, m, a_amount, b_amount), a.pid, m.token_a,
          Refund(Executed(a, a_amount, a_amount, b_amount)))

TradeFees(a, b) == a.lock_fee + b.lock_fee

TradeOrders(a_id, b_id, a_amount, b_amount) ==
  [orders EXCEPT
     ![a_id] = Released(Executed(@, a_amount, a_amount, b_amount)),
     ![b_id] = Executed(@, b_amount, a_amount, b_amount)]

AddTrade(signer, a_id, b_id, a_amount, b_amount) ==
  /\ Len(trades) < MaxTrades
  /\ signer = Admin
  /\ CheckNonce(signer)
  /\ {a_id, b_id} \subseteq DOMAIN orders
  /\ LET a == orders[a_id]
         b == orders[b_id]
         m == markets[a.market_id]
         proceeds == TradeProceeds(a, b, m, a_amount, b_amount)
     IN  /\ CanTrade(a, b, a_amount, b_amount)
         /\ proceeds[b.pid][m.token_a] <= MaxU64
         /\ proceeds[a.pid][m.token_b] <= MaxU64
         /\ balance' = TradeBalances(a, b, m, a_amount, b_amount)
         /\ lock_balance' = TradeLocks(a, b, m, a_amount, b_amount)
         /\ total_fee' = Wrap(total_fee + TradeFees(a, b))
         /\ orders' = TradeOrders(a_id, b_id, a_amount, b_amount)
         /\ trades' = Append(trades, [a_order_id |-> a_id, b_order_id |-> b_id,
                                      a_actual_amount |-> a_amount,
                                      b_actual_amount |-> b_amount])
         /\ markets' = [markets EXCEPT
                          ![a.market_id].last_deal_price = TradePrice(a, b)]
  /\ Commit(signer)
  /\ EmitEvent
  /\ UNCHANGED <<registered, tokens, settlement, history>>

-----------------------------------------------------------------------------
Next ==
  \/ \E pid \in Pids : RegisterPlayer(pid)
  \/ \E pid \in Pids, idx \in TokenIdxs, address \in Addresses :
       AddToken(pid, idx, address) \/ UpdateToken(pid, idx, address)
  \/ \E pid \in Pids, token_a, token_b \in TokenIdxs, price \in Prices :
       AddMarket(pid, token_a, token_b, price)
  \/ \E pid \in Pids, market_id \in 1 .. MaxMarkets :
       CloseMarket(pid, market_id)
  \/ \E signer, pid \in Pids, idx \in TokenIdxs, amount \in MoveAmounts :
       \/ Deposit(signer, pid, idx, amount)
       \/ Transfer(signer, pid, idx, amount)
  \/ \E pid \in Pids, idx \in TokenIdxs, amount \in MoveAmounts :
       Withdraw(pid, idx, amount)
  \/ FlushSettlement
  \/ \E pid \in Pids, market_id \in 1 .. MaxMarkets, flag \in Flags :
       \/ \E price \in Prices, amount \in LimitAmounts :
            AddLimitOrder(pid, market_id, flag, price, amount)
       \/ \E b_amount, a_amount \in MarketAmounts :
            AddMarketOrder(pid, market_id, flag, b_amount, a_amount)
  \/ \E pid \in Pids, order_id \in 1 .. MaxOrders : CancelOrder(pid, order_id)
  \/ \E signer \in Pids, a_id, b_id \in 1 .. MaxOrders,
        a_amount, b_amount \in TradeAmounts :
       AddTrade(signer, a_id, b_id, a_amount, b_amount)

Spec == Init /\ [][Next]_vars

-----------------------------------------------------------------------------
(* What the application promises.                                          *)

OrderType ==
  [type_ : {TYPE_LIMIT, TYPE_MARKET},
   status : {STATUS_LIVE, STATUS_MATCH, STATUS_PARTIAL_MATCH, STATUS_CANCEL},
   pid : Pids, market_id : DOMAIN markets, flag : 0 .. MaxU8, asked : U64,
   lock_balance : U64, lock_fee : U64, price : U64,
   b_token_amount : U64, a_token_amount : U64, already_deal_amount : U64]

MarketType ==
  [status : {MARKET_STATUS_OPEN, MARKET_STATUS_CLOSE},
   token_a : TokenIdxs, token_b : TokenIdxs, last_deal_price : U64]

TradeType ==
  [a_order_id : DOMAIN orders, b_order_id : DOMAIN orders,
   a_actual_amount : U64, b_actual_amount : U64]

AccountsType ==
  /\ registered \subseteq Pids
  /\ nonce \in [Pids -> Nat]
  /\ balance \in [Pids -> [TokenIdxs -> U64]]
  /\ lock_balance \in [Pids -> [TokenIdxs -> U64]]

ListingsType ==
  /\ tokens \in [TokenIdxs -> Addresses \cup {NoToken, MarketRecord}]
  /\ markets \in Seq(MarketType)

CountersType ==
  /\ counter \in Nat
  /\ total_fee \in U64
  /\ event_id_counter \in Nat

SettlementType ==
  /\ settlement \in Seq([token_idx : TokenIdxs, amount : U64])
  /\ deposited \in [TokenIdxs -> Nat]
  /\ withdrawn \in [TokenIdxs -> Nat]
  /\ paid \in [TokenIdxs -> Nat]

\* Every stored number fits its u64 and every stored id names a stored record.
TypeOK ==
  /\ AccountsType
  /\ ListingsType
  /\ orders \in Seq(OrderType)
  /\ trades \in Seq(TradeType)
  /\ CountersType
  /\ SettlementType

\* What order o keeps locked of token t for player p.  A cancelled order's
\* record still shows its fee, which was given back.
OrderLock(o, p, t) ==
  IF o.pid # p THEN 0
  ELSE (IF OrderToken(o) = t THEN o.lock_balance ELSE 0)
       + (IF t = FeeToken /\ o.status # STATUS_CANCEL THEN o.lock_fee ELSE 0)

LocksOf(p, t) ==
  SumTo([i \in DOMAIN orders |-> OrderLock(orders[i], p, t)], Len(orders))

\* An order that has become a buy order when its flag was cut to a byte: it
\* has locked token_b, and its record says token_a.
Turned(o) == is_buy(o) /\ o.asked # FLAG_BUY

\* A player who never placed such an order, and a market in which nobody who
\* did has traded.
Careful(p) ==
  \A i \in DOMAIN orders : orders[i].pid = p => ~Turned(orders[i])
CarefulTrades ==
  \A k \in DOMAIN trades :
    /\ Careful(orders[trades[k].a_order_id].pid)
    /\ Careful(orders[trades[k].b_order_id].pid)

\* A careful player's lock_balance is exactly what his orders say they keep
\* locked, whatever the others do, through partial fills, refunds, fees and
\* cancellations: nothing locked is ever orphaned or released twice.
LockAccounting ==
  \A p \in Pids :
    Careful(p) => \A t \in TokenIdxs : lock_balance[p][t] = LocksOf(p, t)

Held(t) == SumTo([p \in Pids |-> balance[p][t] + lock_balance[p][t]], NumPids)
FeesHeld(t) == IF t = FeeToken THEN total_fee ELSE 0
Accounted(t) == Held(t) + FeesHeld(t) + withdrawn[t]

\* No token is created or destroyed between its deposit and its withdrawal,
\* as long as the supply of a token fits a u64 and only careful players have
\* traded.
Conservation ==
  MaxSupply <= MaxU64 /\ CarefulTrades =>
    \A t \in TokenIdxs : Accounted(t) = deposited[t]

\* Whatever the supply, the wrapping and the ignored results of inc_balance
\* and dec_lock_balance never create tokens in trades of careful players.
NoMint == CarefulTrades => \A t \in TokenIdxs : Accounted(t) <= deposited[t]

\* The promise behind these two: seen from outside, the exchange is a bank.  A
\* trade, with its two costs, two fees and a refund over eight positions, some
\* of which can be one, is a single exchange of two amounts between two
\* players; orders, markets and locks move nothing; and whatever is not in the
\* bank's steps never happens before a player trades who is not careful.
Bank == INSTANCE Bank WITH
  NumPlayers <- NumPids, Tokens <- TokenIdxs, Capacity <- MaxU64,
  Amounts <- MoveAmounts \cup TradeAmounts,
  held <- [p \in Pids |->
             [t \in TokenIdxs |-> balance[p][t] + lock_balance[p][t]]],
  fees <- total_fee, credited <- deposited, debited <- withdrawn

ActsAsABank ==
  Bank!Init /\ [][CarefulTrades' => Bank!Next]_(Bank!bank_vars)

\* After any mixture of withdrawals and flushes, what deposits brought to the
\* settlement layer covers what it paid, what it still has to pay and every
\* balance, when only careful players have traded.
Solvent ==
  CarefulTrades =>
    \A t \in TokenIdxs :
      Precision * (paid[t] + PendingPayout(t)) + Held(t) + FeesHeld(t)
        <= deposited[t]

Traded(i) == \E k \in DOMAIN trades :
               i \in {trades[k].a_order_id, trades[k].b_order_id}

LockedFees == SumTo([i \in DOMAIN orders |-> orders[i].lock_fee], Len(orders))

\* The fee of an order is collected by its first trade, once, however many
\* partial fills follow; the collected sum does not wrap as long as the supply
\* of a token fits a u64 and only careful players have traded.
FeeOncePerOrder ==
  /\ MaxSupply <= MaxU64 /\ CarefulTrades =>
       total_fee + LockedFees = Fee * Len(orders)
  /\ \A i \in DOMAIN orders :
       orders[i].lock_fee = IF Traded(i) THEN 0 ELSE Fee

\* What the recorded trades took from order i, in the token it pays.
SpentBy(i) ==
  SumTo([k \in DOMAIN trades |->
           CASE trades[k].a_order_id = i -> trades[k].a_actual_amount
             [] trades[k].b_order_id = i -> trades[k].b_actual_amount
             [] OTHER -> 0],
        Len(trades))

\* A limit order never pays more than its request locked: what is spent and
\* what is still locked make up the whole, until it is finished.  That goes for
\* an order that its byte turned, too.
LimitBudget ==
  \A i \in DOMAIN orders :
    LET o == orders[i]
        budget == LimitCost(o.asked, o.price, o.b_token_amount)
    IN  is_limit_order(o) =>
          /\ SpentBy(i) + o.lock_balance <= budget
          /\ is_live(o) => SpentBy(i) + o.lock_balance = budget

\* No recorded trade is beyond the limit of a limit order on either side, up
\* to the rounding of safe_mul.
LimitRespected ==
  \A k \in DOMAIN trades :
    LET tr == trades[k]
        a == orders[tr.a_order_id]
        b == orders[tr.b_order_id]
    IN  /\ is_limit_order(a) =>
             tr.a_actual_amount <= MulDiv(a.price, tr.b_actual_amount)
        /\ is_limit_order(b) =>
             tr.a_actual_amount >= MulDiv(b.price, tr.b_actual_amount)

\* The progress of an order is the sum of its trades, as a u64.
DealtBy(i) ==
  SumTo([k \in DOMAIN trades |->
           IF i \in {trades[k].a_order_id, trades[k].b_order_id}
           THEN DealAmount(orders[i], trades[k].a_actual_amount,
                           trades[k].b_actual_amount)
           ELSE 0],
        Len(trades))

DealMatchesTrades ==
  \A i \in DOMAIN orders :
    orders[i].already_deal_amount = Wrap(DealtBy(i))

Finished(o) == o.status \in {STATUS_MATCH, STATUS_CANCEL}

\* An order whose size is in token_a but that sells token_b: its progress is
\* compared with a size of zero.
SizedInProceeds(o) ==
  is_market_order(o) /\ ~is_buy(o) /\ o.b_token_amount = 0

\* A finished order keeps nothing locked; with it nobody could unlock it.
\* (Market sells sized in token_a are the exception: see README.)
NothingStranded ==
  \A i \in DOMAIN orders :
    Finished(orders[i]) /\ ~SizedInProceeds(orders[i])
      => orders[i].lock_balance = 0

\* Every live order of a careful player can be cancelled by its owner, also in
\* a closed market and after any partial fills: only the loss of its market can
\* stop him, since none of the checked additions and subtractions of
\* cancel_order can fail.  Others need not be careful, but for those who trade.
CancelNeverFails ==
  MaxSupply <= MaxU64 /\ CarefulTrades =>
    \A i \in DOMAIN orders :
      is_live(orders[i]) /\ Careful(orders[i].pid) =>
        orders[i].pid \in registered /\ CanUnlock(orders[i])

\* An accepted transaction raises the nonce of exactly one player by one, so
\* that it cannot be replayed: also a deposit to the admin's own account,
\* which stores the same player twice.
OneSigner ==
  [][\/ nonce' = nonce /\ counter' = counter
     \/ /\ counter' = counter + 1
        /\ \E p \in Pids : nonce' = [nonce EXCEPT ![p] = @ + 1]]_vars

\* A player's available balance falls only by a transaction he signed; what
\* others do can only spend what his orders locked.
AvailableNeedsSignature ==
  [][\A p \in Pids, t \in TokenIdxs :
       balance'[p][t] < balance[p][t] => nonce'[p] = nonce[p] + 1]_vars

\* A matched or cancelled order never changes again.
TerminalIsFinal ==
  [][\A i \in DOMAIN orders :
       Finished(orders[i]) => orders'[i] = orders[i]]_vars

Overwritten(m) == m \in TokenIdxs /\ tokens[m] # MarketRecord

\* An order whose market has been overwritten by UpdateToken never changes
\* again, and the market never comes back: what the order locks stays locked.
LostWithItsMarket ==
  [][\A i \in DOMAIN orders :
       Overwritten(orders[i].market_id) =>
         orders'[i] = orders[i] /\ Overwritten(orders[i].market_id)']_vars

-----------------------------------------------------------------------------
(* What the repository says and the code does not do.                      *)

\* The comment on Order.already_deal_amount and the README: a market buy has
\* advanced by the token_a it spent, a market sell by the token_b it sold.
DealIsWhatWasSpent ==
  \A i \in DOMAIN orders :
    is_market_order(orders[i]) => orders[i].already_deal_amount = SpentBy(i)

\* The error text of add_trade: limit orders whose buy price is at least the
\* sell price do not fail its price check.
TouchingPricesTrade ==
  \A i, j \in DOMAIN orders :
    LET a == orders[i]
        b == orders[j]
    IN  /\ is_live(a) /\ is_limit_order(a) /\ is_buy(a)
        /\ is_live(b) /\ is_limit_order(b) /\ is_sell(b)
        /\ a.price >= b.price
        => PricesMatch(a, b)
=============================================================================
