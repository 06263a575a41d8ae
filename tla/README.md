# A verification development for zkwasm-exchange

zkwasm-exchange is an exchange that runs as a zkWasm rollup. Players deposit
tokens on a settlement chain, trade them inside the rollup, and withdraw. The
rollup application is a Rust program (`src/src`); around it run TypeScript
services (`src/ts/src`) that watch deposits, mirror the application's records in
MongoDB, keep order books and look for orders that match.

This directory holds TLA+ specifications of that system, the configurations that
check them with TLC on small instances, and theorems about them whose proofs the
TLA+ proof system TLAPS checks. Every definition is translated from the source;
`PROJECT.json` gives the lines for each one.

## 1. The system

### 1.1 Components

**Rollup application** (`src/src/transaction.rs`, `player.rs`, `state.rs`,
`settlement.rs`, `event.rs`). State: a Merkle store of players (nonce),
positions (available and locked balance per player and token), tokens, markets,
orders and trades; the global `STATE` with its counters and collected fees; the
list of withdrawals not flushed yet. Operations: the commands of
`process_inner`. The admin lists tokens and markets, credits deposits, transfers
and reports trades; players register, withdraw, place limit and market orders and
cancel them. The host hands it one signed transaction at a time, and takes the
pending withdrawals when it closes a bundle. What makes it hard: four records of
two players change in one trade, several of them twice; an order's share of a
player's lock is known only from the order; some results of checked additions and
subtractions are ignored; u64 sums wrap; a token and a market of the same number are
stored under the same key.
Correct means: no token is created, destroyed or paid out twice; what is locked
is what orders hold, and can be got back; limits, fees and budgets are respected;
no transaction can be replayed; nobody's available balance falls without his
signature.

**Matcher** (`ts/src/matcher/matcher.ts`). State: one `MatchingSystem` per market
with four lists of orders. Operations: `upsertOrder`, `tryMatchOrder`, which drops
finished orders and returns the next trade to report. Hard: the order in which the
lists are scanned, rounding, and that the chain decides by other rules than the
matcher. Correct means: what it proposes is fair (price, then time) and is what
the application would accept.

**Service** (`ts/src/service.ts`, `ts/src/info/info.ts`). State: the tracked
transactions, the mirrored collections, the map of matching systems. Operations:
`eventCallback` for each transaction, `batchedCallback` for each bundle, building
everything again at a start, queries. Hard: a chain of awaits over a database that can
fail or stop between any two of them. Correct means: after any crash and replay the
mirror and the books agree with the application.

**Deposit watcher** (`ts/src/deposit.ts`). State: one record per `TopUp` event of
the settlement contract (pending, in-progress, completed). Operations: replaying
all past events at start, then one asynchronous handler per new event. Hard:
concurrent handlers, swallowed errors, crashes between awaits. Correct means: each
top-up is credited once, and every one is credited in the end.

**API client** (`ts/src/api.ts`). No state: each call reads the player's nonce,
packs a command and its parameters into words, sends them with that nonce, and
swallows the errors of sending and of waiting for the answer. Hard: calls of one key
overlap, and an error does not say whether the transaction is executed. Correct
means: the application executes what the caller meant, at most once.

**Event stream and encoding** (`event.rs`, the `add_event` functions, the decoder of
transactions, the `to_data`/`from_data` pairs and the parsing loop of the service).
Pure: framing of events as `type << 32 | length`, packing of the nonce, of keys and
of addresses into words. Correct means: what one end reads is what the other wrote.

**State persistence** (`state.rs`, `lib.rs`). Writes the counters of `STATE` back
to the store; called by the external `zkwasm_rest_abi` macro.

### 1.2 How they interact

    settlement chain --TopUp--> Deposit watcher --Deposit (admin's key)--+
                                                                         v
    players --API client--> transactions -----------------> Rollup application
                                                               |  events
       books <-- Matcher <-- Service <-------------------------+
                    |                                          |  withdrawals
                    +--- proposed trades ---> AddTrade         v
                         (sent with the admin's key)    settlement chain

The service only logs the trades it finds: the call that would send them is
commented out (`service.ts:199`), so trades reach the application from whoever
holds the admin's key.

### 1.3 Hazards

`PROJECT.json` lists, line by line, what is hard to test in this code, each with
the properties that would catch it going wrong, or with the reason why no property
covers it yet.

## 2. Modules

| Module | What it is |
|---|---|
| `Sums` | sums of functions over `1..n`, as a recursive function, so that it can be used in proofs |
| `SumsProofs` | lemmas about those sums: frame, one changed term, append, tail, bounds; least elements and induction over naturals |
| `Exchange` | the rollup application: its store as variables, one action per command |
| `MCExchange` | instances of `Exchange` for TLC |
| `ExchangeProofs` | type correctness of `Exchange` for every value of its constants |
| `OrderProofs` | that locks are what the orders say, so that `Exchange` implements `Bank` and keeps what a bank keeps; what an order's trades add up to and what its lock pays for; what no step may do; what owners can rely on |
| `Bank` | the abstract specification of `Exchange`: credits, debits, moves, settlements, and no orders |
| `BankProofs` | that a bank is sound, for every value of its constants |
| `OrderBook` | a `MatchingSystem` as a record of four lists, its methods as operators |
| `Matcher`, `MCMatcher` | that order book fed with every order the application can report |
| `MatcherProofs` | what the book holds and what its trades promise, for any orders |
| `Service`, `MCService` | `Exchange` composed with the service: events, collections, one `OrderBook` per market, crashes |
| `ServiceProofs` | that mirror and books agree with the application, and what a restart restores |
| `DepositWatcher` | the deposit watcher and the client it sends with, between the settlement chain and the rollup |
| `WatcherProofs` | its type correctness, that a top-up is credited once, and why one was not |
| `Codec` | the words of transactions and events, as both ends write and read them |
| `Client` | the API client between its callers and the rollup, and the events back to the collections |
| `ClientProofs` | that both ends of the wire agree for all words, and what overlapping calls may do |

### 2.1 Exchange and the code

The wasm image executes one transaction after the other, so a transaction is one
atomic action. Its guard is the conjunction of the checks the code makes on the
way; the code stores records only after the last check that can fail, except
where it traps, and a trap throws the whole transaction away. So a rejected
transaction is a stuttering step.

| State | Code |
|---|---|
| `registered`, `nonce` | the stored `Player` records |
| `balance`, `lock_balance` | `Position`, per player and token index |
| `tokens`, `markets`, `orders`, `trades` | the records in the store; ids are positions in the sequences, because `STATE`'s counters number them from 1 |
| `settlement` | `SettlementInfo`, a pending list of withdrawals |
| `counter`, `total_fee`, `event_id_counter` | the remaining fields of `STATE` |
| `deposited`, `withdrawn`, `paid`, and `asked` of an order | history: no guard reads it, except the bound `MaxSupply` |

| Action | Code |
|---|---|
| `RegisterPlayer` | `install_player` |
| `AddToken`, `UpdateToken`, `AddMarket`, `CloseMarket`, `Deposit`, `Transfer`, `Withdraw` | the arms of `process_inner` |
| `FlushSettlement` | `State::flush_settlement`, called by the host |
| `AddLimitOrder`, `AddMarketOrder`, `CancelOrder`, `AddTrade` | the functions of those names |

Points where a shorter model would have been wrong:

* Positions of the pay token and of the fee token are the same record when the
  tokens are the same. `PlaceOrder`, `Unlocked` and `TradeLocks` therefore apply
  the code's calls one after the other, each to the result of the one before.
* `add_trade` ignores the results of `dec_lock_balance` for the two costs, of
  `inc_balance` for the refund and of the fee's unlocking. `TryMinus` and
  `TryPlus` leave the position unchanged in that case, as the code does, so that
  whether it can happen is a question for the properties.
* `Deposit` stores two copies of one record when the depositor is the admin.
* `total_fee`, the doublings of a market order's cost and
  `already_deal_amount` wrap; the product of `safe_mul` is taken in 128 bits and
  only its quotient is checked.
* A cancelled order keeps its `lock_fee` in the stored record.
* `Token::get_key` and `Market::get_key` give one key to a token and a market of the
  same number (`transaction.rs:62`). `tokens[i]` is therefore the record that is stored
  under number `i`: an address, a market (`MarketRecord`) or none. A market stored over
  a token still lets the token be used, since `Token::load` is only asked whether there
  is a record; a token stored over a market, which `UpdateToken` does, takes the market
  away, since `Market::load` traps on a token's four words (`CanLoad`), and the orders in
  it can be neither traded nor cancelled (`LostWithItsMarket`).
* A flag that is neither 0 nor 1 is accepted: such a limit order locks token_b,
  such a market order locks nothing.
* The flag of a request is a u64. The whole of it decides which token is locked and how
  much (`transaction.rs:759`, `851`, `863`); the stored order has its last byte
  (`params.flag as u8`, `814` and `913`), and every later command reads that. `NewOrder`
  keeps the byte as `flag` and the request's flag as the history field `asked`. An order
  whose flag is 1 only after the cut is `Turned`: it has locked what a seller locks, and
  its record says that it locks as much of token_a (section 3.1). `Careful` players have
  placed no such order, and `CarefulTrades` says that nobody else has traded.
  `LockAccounting` and `CancelNeverFails` are about careful players, whatever orders the
  others place; `Conservation`, `NoMint`, `Solvent`, `ActsAsABank`, the sum in
  `FeeOncePerOrder` and `CancelNeverFails` hold as long as `CarefulTrades` does. The other
  properties hold for turned orders too: `LimitBudget` measures them by what they asked for.

Abstractions: a public key is a player id; the token address is an opaque value;
the 128-bit product is an unbounded integer; event payloads are left out, only the
event counter is kept; the four words of a withdrawal record are its token and its
paid-out amount.

`Bank` is what is left of `Exchange` when its orders are forgotten: a player holds one
number of each token, available or locked, and one trade is one exchange between two
players, each of whom may pay a fee. `ActsAsABank` is that specification with
`held[p][t]` read as `balance[p][t] + lock_balance[p][t]`. Its only freedom is the
code's: when more of a token was credited than a u64 can count, a trade may pay less of it
than is due, never more.

Left out: an unknown command number falls back to `RegisterPlayer` in the decoder, which
the action covers. A market order whose flag is neither buy nor sell loads the position
of token `u32::MAX` (`transaction.rs:849`, `873`) and changes it by 0; no token has that
index, since `AddToken` refuses one above 255.

### 2.2 OrderBook, Matcher and the code

The four lists of a `MatchingSystem` are a record of four sequences;
`upsertOrder`, `removeMatchOrder`, `tryMatchOrder`, `matchOrders`, `canMatch` and
`processMatch` are operators of those names. The loops become first positions:
`FirstStop` is the ask at which the loop of `matchOrders` ends, `FirstPair` the
first pair that the nested loops over market orders accept. `matchOrders` returns
with its first trade, so its index over the bids never moves. The field
`shadow_already_deal_amount` is left out: each `tryMatchOrder` resets it before it
is read. The filters are the recursive function `Kept`, which keeps the elements of a
list that are in a set, so that theorems can be proved about it. A division by a price
of 0 is the result `Thrown`. `queryInfo` is what
`/data/pair` shows of a book, the market bids twice as the code has it.

`Matcher` keeps the orders as last reported beside the book. `ReportNew`, `ReportDeal`
and `ReportCancel` are the ORDER events that the application sends, `TryMatch` is the
call that the service makes after them. `add_trade` compares a trade with what the
orders have locked, not with their size, so that a trade that was not proposed can
overfill an order whose size says what it gets (`NamesProceeds`); the application takes
it for finished only when its progress is exactly its `b_token_amount` (`is_live`).
`ReportDeal` reports such orders, by at most `MaxOverfill` beyond the size. What is left
of one is negative: the book keeps it, pairs it like any other order, and proposes a
trade of a negative amount (`Quotient`: bigint division cuts towards zero). The
properties about remainders are about trades of orders `WithinSize`.

### 2.3 Service and the code

`Service` extends `Exchange`. Each action of `Exchange` that is accepted puts the
events it emits, in the order of the code, into `inbox`; `ApplyEvent` takes one at
a time, because `eventCallback` awaits a database call for each, and `TryMatch`
entries stand for the loop at its end. Behind the await of a market's or an order's
document the callback goes on to change the books, so each of these two events is two
steps: `StoreMarket` and `OpenBook` (`service.ts:152`, `154`), `StoreOrder` and
`ListOrder` (`162`, `164`). `written` says that the first of the two is done; in between
queries are answered and the process can end. `db_tokens` to `db_positions` are the
collections, `msM` the map of matching systems. `Restart` is a crash between two of
those steps followed by a start: what was not applied is lost, because
`insertTxIntoCommit` has recorded the transaction before its events are applied, and
the books are built from the stored orders, which the database may return in any
order (`Loaded` is the loop over one such order, as a recursive function, and what
`tryMatchOrder` makes of it). When that call throws (`service.ts:33`, a price of 0 against
a market order that names its token_a) the start ends: `StartThrows`, and `serving` is
FALSE until another start succeeds. `listed` is a history variable: the orders put into a
book since its market's last MARKET event.

Assumed of the server library, whose source is not here: it runs the callback of a
transaction to its end before it executes the next one, and after a crash it replays
the transactions that were not bundled, for which the callback does nothing.

`FollowNext` is the system with an admin who reports exactly the trades that the
service logs; `ServiceNext` has an admin who reports any trade. `FollowNext` has no
`Restart`: a crash in the middle of a callback loses the events of the last trade, and
the books that the start builds from the old records propose that trade again.

What the code does and the properties therefore say: every MARKET event, that is every
trade and the closing of a market, replaces the book by an empty one, so that the orders
that were waiting in it are matched again only after an event of their own or a restart.
`BookIsExact` is relative to `listed` for that reason, and `RestartRestores` says that a
restart brings them back, unless it throws, and that it throws only for two stored
orders that divide by zero (`DividesByZero`). Both leave out orders whose flag is
neither buy nor sell (`HasSide`): the application accepts them, but a book has no list
for them.

`ProposalsAreAccepted` has four exceptions, each of which TLC shows to be needed: equal
limit prices (section 3.1), a market order whose lock does not cover the trade, a market
order that the application takes for finished while the matcher, which compares with the
other amount, does not, and a market whose record was overwritten (section 2.1). The
second and the third go for turned orders (section 2.1) as well, whose record does not
say what they can pay.

`pair` is the query `/data/pair/:id`, which answers from the books.
`PairShowsStoredOrders` compares what it shows with the documents that a start would
read: in the middle of a callback and after a crash they differ in one order at most,
the one whose document the callback has written and whose book it has not reached
(`AtHand`), and there in nothing but the order's progress and status. So a query in that
window still shows a cancelled order as live, and no other query shows anything but what
is stored.

### 2.4 DepositWatcher and the code

A handler is one call of `processTopUpEvent`, named by its event and by whether the
replay or the subscription made it. Its `at` is the await it is in: looking up the
record, saving it, marking it in-progress, reading the nonce, sending, waiting for
the answer, marking it completed. Each step has its failing form where the code
catches or swallows an error. `Start`, `Query`, `ReplayNext`, `Subscribe` and
`Deliver` are `main` and `getTopUpEvents`; `Crash` ends every handler, but not the
requests that the rollup has already received (`queue`, `Execute`).

The rollup is reduced to what a deposit meets: the admin's nonce and whether the
token is listed. `OtherTransaction` is any other use of the admin's key.

Left out: the loop for a token that the contract does not list (the contract lists
its first token), the registration of the admin at the start (refused when he is
registered), an overflow of the depositor's balance, and a provider that delivers an
event twice.

### 2.5 Codec, Client and the code

In `Codec` a u64 is the sequence of its eight bytes, so that shifts, masks, casts and
byte orders are operations on sequences: `address2BigUint64Array` and
`u64_array_to_address` are the two ends of an address, `encodeCommand` with the methods
of `Player` and `DataOf` (`Transaction::decode`) those of a transaction, `add_event` with
the words of the five records and `Upserts` those of an event. No inverse is written down
that is not in the code: `Client` sends every method's words through all of it.

In `Client` a call is in one of its awaits: reading the nonce, sending, waiting for the
answer. `Make` is a caller; calls of one key overlap, since every script and service
holds a `Player` of its own. `SendFails` covers both errors that the method swallows: a
call that gives up waiting leaves its transaction in the server's `queue`. The application
is reduced to the nonce and the decoder; it may refuse anything, and reports for each
command the records of that command, with words that all differ (`Reported`), so that no
swap goes unseen. `ApplyEvent` is one turn of the loop of `eventCallback`, at the position
that the previous length gave.

External: `LeHexBN.toU64Array`, `pkey_to_pid`, `get_and_check_nonce`, the queue of the
server, and `findOneAndUpdate` with upsert. Left out: `getState`, which only queries,
and values beyond 2^53, which JavaScript Numbers would round (ids and indices count from
0). The documents keep a word as it was read; the schemas declare `BigInt`, which
MongoDB stores as a signed 64-bit integer, so what becomes of a word of 2^63 or more is
not covered.

## 3. Runs

Each run asks one question. `PROJECT.json` names a mutant for every property of
every passing run: a plausible bug in a definition that makes TLC report exactly
that property.

| Run | What it shows | Instance |
|---|---|---|
| `setup` | from the empty store: registration, listings, deposits, transfers, withdrawals and flushes in every order. What was paid out is always covered by deposits (`Solvent`), each accepted transaction uses one nonce (`OneSigner`), every step is one of the bank | 2 players, 2 tokens, 1 market, 8 transactions |
| `limit` | limit orders placed, cancelled and filled in parts, while a token may take the place of their market: conservation, fees, budgets, limits, signatures, final states, cancellation never fails, every step is one of the bank; careful players are safe from turned orders | 3 players, 3 orders, 3 trades, two prices, one flag that the cut turns |
| `market` | market orders sized in either token, flags that are neither buy nor sell or that the cut turns, the market closing, a 3-bit u64 and a supply of 20: types and locks hold and nothing is minted when additions overflow, refunds are dropped and sums wrap; progress, nothing stranded | 3 players, 2 orders, 3 trades; fee in token_b |
| `units` | finding: the unit in which market orders count their progress | as `market` |
| `touch` | finding: equal limit prices are refused | as `limit` |
| `orders` | the book holds the live orders as last reported; trades keep price and time priority, limits and remainders; each trade finishes an order; the matcher is idle only when the best bid and the market orders have no counterparty | 2 players, 3 orders, limit price 0 or 3, both sizes of market orders, overfilled by 1 |
| `gives_up` | finding: the matcher gives up too early | 2 players, 4 limit orders, 3 prices |
| `follow` | locks and books agree with the application after every callback; traded orders stay in the book; the application accepts what is proposed, and no order is overfilled | 3 players, 3 orders, 3 trades of any u64 amounts, one flag that the cut turns |
| `crash` | a crash between any two database calls, or between a document and its book: without one the mirror agrees with the application after every callback, and with one the two copies of an order differ only while the callback is between them; the restart's books are the stored live orders, unless it throws | 3 players, 2 markets, 2 orders, 1 trade, 1 crash; prices 0 and 3 |
| `deposits` | a top-up is credited once unless a write of its state is lost; records never go back; what was completed without credit was refused; as long as no call fails every top-up that the watcher sees is settled, unless it is down or waits at a record that a crash left in progress | 2 top-ups, 2 tokens, 2 amounts, 2 crashes, 1 failing call |
| `refused` | finding: a refused deposit is marked as completed | 2 top-ups |
| `wire` | every method of the client, with calls that overlap and fail: the application executes what was asked, once and under the caller's key; a nonce is refused only to the loser of a race; the documents are the reported records, word for word; every call returns | 2 keys, 2 calls at once, the first nonce 255 |

Why the bounds are enough. A trade touches two orders of two players; a third order lets
each of them have another order whose share of the lock must not be touched, and lets
one order have two counterparties. Three trades fill one order unit by unit and another
at once, or fill two orders and leave a part. Two prices make one price cross the other,
and a refund happen. A precision of 2 makes products round. The fee token is token_a in
`limit` and token_b in `market`, so that it coincides with either side's pay token. A
`u64` of 3 bits overflows with two deposits. In `market`, buys lock more than they
spend, and a supply of 20 makes their refunds overflow. `MaxU8` is 3, a byte of two
bits: flag 5 is a request that is no buy order and is stored as one, as 257 is in the
code. `MaxCounter` bounds the length of a run; no property mentions it. In `orders`,
three orders give one order two counterparties and let an owner's own order stand
between; a price of 3 over a precision of 2 rounds, and 0 divides by zero. `follow`
needs three orders for the same reason. Price 0 and the market orders in `crash` let a
start throw. One crash in `crash` can fall between any two calls for any transaction; a
second one would find the collections as the first left them. Two top-ups are enough for
`deposits`: a replay behind a blocked record, an event that falls between query and
subscription, two handlers with one nonce; the second crash can hit the replay of what
the first one left. In `wire` two calls are enough for a race over one nonce and for a
record that is stored a second time; the nonce 255 makes the next one need a second
byte.

The runs of `Exchange` other than `setup`, and those of `Service`, start in a state that
`setup`'s actions reach (every player registered, tokens and a market listed, both
traders funded), so that their bounded transactions are spent on orders.

CHECK_DEADLOCK is off in the runs of `Exchange`, `Service`, `DepositWatcher` and
`Client`: the system idles when nobody sends a transaction, calls a method or tops up,
and the bounds stop it. The matcher can always be asked again.

Fairness is assumed in `deposits` and `wire`. In `deposits`: weak fairness of each
handler's steps, of the replay, of the deliveries and of the rollup's queue, because a
running Node process calls the callbacks that are ready, and the server executes the
jobs it was given. Nothing makes anybody start the watcher again, so
`EveryTopUpIsSettled` excepts a watcher that is down. In `wire`, for the same reasons:
weak fairness of each call's promises, of the queue and of the callback.
`EveryCallReturns` needs the callback too: the queue stands still as long as its loop
over the events does not end. No liveness is claimed for the rest: nothing obliges
anyone to send a transaction.

### 3.1 Findings

* `units` (`DealIsWhatWasSpent`): the README and the comment on
  `already_deal_amount` say that a market buy counts the token_a it has spent and a
  market sell the token_b it has sold. The code counts whichever token the order's
  size was given in.
* `touch` (`TouchingPricesTrade`): `add_trade` refuses equal limit prices, while
  its error text speaks of `buy price >= sell price` and the matcher pairs equal
  prices.

* `gives_up` (`NoMatchIsLeftBehind`): when the loop over limit orders ends, its comment
  says that no more matches are possible. The loop steps over asks of the first bid's
  own player, ends at a higher ask, and never tries the next bid, which may reach the
  asks that were stepped over.
* `refused` (`CompletedMeansCredited`): a record is completed "after successful
  deposit", but the client swallows the refusal. Two live handlers that read the nonce
  before either deposit is executed are enough; the replay, which handles one event
  after the other, is safe as long as nobody else uses the admin's key
  (`UncreditedWasRefused`).

Observed without a line of the repository that says otherwise: an order whose flag is
above 255 and ends in the byte 1, like 257, locks `amount` of token_b when it is placed
and is stored as a buy order with that number as its `lock_balance`, which the README's
table of orders counts in token_a. A cancellation (`transaction.rs:951`) takes that much
token_a from the player's lock: it is refused, or takes what his other orders hold. A
trade ignores that the lock has no token_a to give (`661`) and pays the seller (`668`),
and the book adds up to more than was deposited. The properties of the bank are about
trades of careful players for that reason (section 2.1). A start of the service throws
while a limit order of price 0 and a market order that names its token_a are stored
(`RestartRestores`). `add_trade` does not ask how much a buyer still wants, so that only
the proposals keep orders from being filled beyond their size (`NeverOverfilled`); the
rest of a market order sized in token_a can be worth less than one token_b, and the
matcher then proposes a trade of size zero; the comment at `matcher.ts:496` says that
market orders match any opposite order beside the line that refuses two market orders;
`queryInfo` gives the market bids as `market_asks` (`matcher.ts:321`), so that
`/data/pair` never shows a market sell; an update of the token with a market's number
takes the market and its orders away (`LostWithItsMarket`); `Token::to_data` packs the
bytes of an address with shifts by `i % 8` instead of `8 * (i % 8)`, which loses bits,
but the address is only ever reported from the command, never from the store; a token
index beyond 32 bits is cut by the decoder; a call that ends with `undefined` may still
be executed, and a caller who repeats it then executes it twice.

`NothingStranded` excludes market sells sized in token_a (`SizedInProceeds`): their
progress in token_a is compared with a `b_token_amount` of 0, so they are never
complete by filling, and a trade that earns nothing completes them with their lock
left behind.

## 4. Proofs

The theorems hold for every number of players, every set of tokens and inputs, every
number of calls, crashes and failures, and every bound, under the named assumptions of
the modules. `Exchange`: inputs, flags among them, and the fee fit a u64, a byte has
more than one value, the admin is a player, the fee token is a token, the precision is
positive. `Matcher`: the precision is positive, prices and sizes are naturals.
`DepositWatcher`: the unit is positive, amounts and bounds are naturals. `Client`: at
most five keys, so that the bytes of the sample keys are bytes.

**The application** (`ExchangeProofs`, `OrderProofs`)

* `TypeCorrect`: `Spec => []TypeOK`. `TypeOK` is inductive: it says that every number
  fits its u64 and that the ids in orders and trades name stored markets and orders. The
  interesting steps are those where the code does not check: a trade's first refund
  lowers a lock that is at least the refund, the wrapping sums stay in range.
* `LocksCorrect`: `Spec => []LockAccounting`, a careful player's locked balance is the sum
  of what his orders hold. `TypeOK /\ LockAccounting` is inductive, player by player: what
  an order of somebody else says of itself, true or not, moves no position of a careful
  player but by proceeds, and a player who is not careful never becomes careful again. An
  order's share is at most its player's lock (the other shares are not negative), so none
  of the four subtractions of a trade, whose results the code ignores, can fail; each then
  moves the position and the order's share by the same amount. The difficulty is that the
  orders of a trade can pay in the same token, and that token can be the fee's.
* `BankIsSound` (`BankProofs`): a bank never holds more of a token than was credited, and
  exactly what was credited as long as its numbers can count that. A settlement only moves
  between two terms of the sum and the fees.
* `BankInvariant`, `BankRefined`: `Spec => []BankInv` and `Spec => ActsAsABank`, the
  refinement that `setup` and `limit` check. Both hold until a player trades who is not
  careful: a trade is stored for ever, so that the precondition `CarefulTrades` never
  comes back, and a step that keeps it true starts where it was. `BankInv` is `TypeOK`,
  `LockAccounting`, that an order's fee is the whole fee or spent, and the bank's
  soundness. Every action but four moves nothing or stutters: what is taken from an
  available balance is in the locked one. The step that matters is the trade
  (`TradeSettles`): by `LocksAfterTrade`, which rests on `LockAccounting`, each ignored
  subtraction succeeds and the two locks lose exactly cost, refund and fee; the
  available balances gain the two proceeds and, if it fits, the refund. The refund fits
  and the sum of the fees does not wrap if the credits fit u64, because any two holdings
  and the fees are at most the bank's total: here the soundness of the state before the
  step is needed, so that refinement and soundness are one induction.
* `NoMintCorrect`, `ConservationCorrect`: while `CarefulTrades` holds, what the exchange
  accounts for is the bank's total, so both follow from the bank's soundness, the second
  with the bound on the supply.
* `OneSignerCorrect`, `TerminalIsFinalCorrect`, `LostWithItsMarketCorrect`: the action
  properties, from `TypeOK`.
* `LimitRespectedCorrect`: `add_trade` checks the price of a trade against the limit of
  each order, and a stored trade and the limits of stored orders never change.
* `FeeOncePerOrderCorrect`: an order holds the fee it was placed with as long as its
  progress is 0, and none after a trade. Where the supply fits u64, `total_fee` and the
  fees still held are one fee for each order ever placed; the proof sums the orders' fees
  and uses `BankInv` for the sum that does not wrap.
* `LimitBudgetCorrect`: what a limit order, turned or not, has spent and what it still
  locks are exactly what its request locked while it is live, and never more: what a
  trade adds to the sum over the order's trades is what it takes from the lock, and only
  the end releases more.
* `DealMatchesTradesCorrect`: the progress that an order records is the u64 sum of what
  its trades count for it, in whichever token it is sized.
* `NothingStrandedCorrect`: a finished order locks nothing, with the exception that the
  property names (section 3.1). It is not inductive: that a sell order which is filled to
  the end keeps nothing needs that lock and progress of a live one are its size
  (`SellsAreCovered`).
* `AvailableNeedsSignatureCorrect`, `CancelNeverFailsCorrect`: a trade's available
  balances only rise, which again needs that no ignored subtraction fails. A live order
  of a careful player can be unlocked because its share is at most its owner's lock
  (`LockAccounting`) and available and locked together are at most the supply
  (`BankInv`), so that neither the two subtractions nor the two additions of
  `cancel_order` leave u64.
* `SolventCorrect`: paid and pending payouts, in units of the precision, are at most what
  was withdrawn, because each is rounded down; the rest is `NoMint`.

**The matcher** (`MatcherProofs`). `IInv` is inductive: every list of the book holds
orders as last reported, each once and on the list for its side; every live order is on
one; the limit lists are sorted by price and then age, the market lists by age; and the
last trade is what `tryMatchOrder` returned for that book. Removing and inserting keep a
list sorted (`Kept` and the insertion position are the lemmas that the rest leans on).
`BestPriceThenOldestCorrect` and `NothingToDoCorrect` follow from the scan:
`matchOrders` stops at the first position with a given property, which `LeastNat`
yields, and everything before it in a sorted list is better. `TradeIsWantedCorrect` and
`TradeFinishesAnOrderCorrect` are about orders that no trade has overfilled and about
rounding: the lemmas on products and quotients bound what a trade in one token is worth
in the other, to within one unit.

**The watcher** (`WatcherProofs`), for any number of top-ups, crashes and failures.

* `WatcherTypeCorrect`, `RecordsAdvance`, `CreditedOnceCorrect`: `CreditedOnce` is not
  inductive; four facts make it so. `Schedule`: the replay has handlers only for events
  up to its position, the subscription only for later ones, so that an event never has
  two busy handlers, and a start finds none. `Records`: a handler that is about to save
  or to mark a record still finds what it read. `Owners`: a request whose answer is
  awaited is its sender's only one, so an answer wakes a handler that waits. `Budget`:
  a top-up's credits, its requests in the rollup's queue, its handlers about to send
  and the fact that its record can still be taken up are together at most one more than
  its lost writes. A crash only ever lowers that sum, which is why restarting is safe;
  a lost write of "in-progress" is the one step that raises both sides.
* `UncreditedWasRefusedCorrect`: as long as no call has failed, who completes a record has
  an answer of the rollup (`Answered`). While only the replay has used the admin's key
  (`Sole`), it works through the events in order, in all its starts together (`Paced`), and
  has one request on its way at most, whose nonce is the admin's (`OneRequest`): then only a
  token that is not listed is a reason to refuse.

**The client** (`ClientProofs`). The codec is proved for all words:
`PlainMethodsArrive`, `AddressMethodsArrive` and `PidMethodsArrive` that what a method
packs is what the application decodes, from the eight bytes of each word; `EventIsRead`
that the loop of `eventCallback`, at the position of an event, reads the record that was
pushed there and finds the next event. On them rest the invariants of the calls that
overlap. `CallsInv` is inductive: a nonce that a call has read is at most the key's
(`NoncesRead`), every nonce below the key's was used by one executed call
(`NoncesUsed`), what waits in the queue is what its call has asked (`QueueAsSent`), so
is what was executed (`LogAsAsked`), no call is both waiting and executed (`OneFate`),
and a call that was refused is behind (`Behind`). `ExecutedAsAskedCorrect` and
`OutdatedLostARaceCorrect` are two of its parts. `DocumentsAreTheRecordsCorrect` needs
what holds in the middle of the loop (`MirrorInv`): `EventsPlaced` says where each event
of the transaction starts, and at the start of the k-th the documents are those of the
records before it. `ClientTypeCorrect` is the type invariant.

**The service** (`ServiceProofs`), composed with `Exchange` and the matcher's lists.

* `ServiceRunsTheExchange`: `ServiceSpec => Spec`; everything proved of `Exchange` holds
  of the application under the service.
* `Announced` is what each accepted transaction guarantees of the events it emits: every
  token, market, order, trade and lock that it changes is named by an event, the ORDER
  events of a trade come after the MARKET event of their market, and each event names a
  stored record. It is proved for each transaction from the lists that the code emits.
* `ServiceInv` holds in every state, in the middle of a callback and after crashes:
  documents of orders keep the identity and market of the stored order
  (`DocsAreOrders`), books are well-formed (`BooksReady`), what a book shows is what the
  collection stores but for the order at hand (`BooksShowStored`), and a document that
  the callback has just written is the application's record (`WrittenDocument`).
  `PairShowsStoredOrdersCorrect` follows.
* `RestartRestoresCorrect`: the loop of the start over the orders found, in whichever
  order the database returns them, by induction along `Loaded`; each prefix's book
  holds exactly the orders of that prefix that have a side. A start that throws has found
  two orders that divide by zero (`ThrowingStart`): the trade that is thrown pairs two
  orders of the book (`ThrownTrade`), which are orders found, and those are live.
* `MirrorInv` holds as long as nothing has crashed: a document that differs from the
  application's record, a lock that differs, and an order that is missing in its book has
  its event still in the inbox. When the inbox is empty nothing is stale, which is
  `MirrorIsCurrentCorrect`, `LocksAreMirroredCorrect` and `BookIsExactCorrect`.
  `TradedOrdersStayListedCorrect` needs the order of the events as well: an ORDER event of
  the last trade that was applied is in the book, because the MARKET event that empties
  the book was applied before it (`ComesAfterMarket`, `TradeListed`).
* `NeverOverfilledCorrect` and `ProposalsAreAcceptedCorrect` are about `FollowSpec`, for
  `TradeAmounts = U64`: the protocol lets the admin report any u64, and a smaller set
  might lack what the service logs. `FollowInv` (the invariants above and
  `NeverOverfilled`) gives that a book is exact, so a proposal names two live orders of
  the application and takes no more than what is left of either (`ProposalFits`); the
  lemmas of `MatcherProofs` on `NextTrade` are used through an instance for these books.
  A proposal that add_trade accepts is within the locks, so it does not wrap on its way.
  `AcceptInv` adds what `add_trade` asks for: the lock of a live limit buy that was not
  turned covers the rest of the order at its own price (`BuysAreCovered`, from the
  quotient of a sum being at least the sum of the quotients), a sell's lock is what it
  still has to give (`SellsAreCovered`), the owners are players (`OwnersKnown`), and a
  closed market's book is about to be emptied or holds cancelled orders only
  (`ClosedQuiet`).

The sums over players, orders and trades are folded by a recursive function; its
lemmas are proved in `SumsProofs`. The library's induction theorem takes an operator,
so the induction there is one over a set of naturals (`NatSetInduction`), derived from
the least element of a nonempty set of naturals. The same lemma carries the inductions
along `Kept`, the loops over words and `Loaded`.

Model-checked only is what is out of the prover's reach here: liveness under fairness
(`EveryTopUpIsSettled`, `EveryCallReturns`) and ENABLED.

## 5. Plan

1. `Exchange` and its proofs: done, sections 2.1 and 4.
2. The matcher and its proofs: done, sections 2.2 and 4.
3. The service, composed with `Exchange` and the matcher, and its proofs: done, sections
   2.3 and 4.
4. The deposit watcher with its client: done, sections 2.4 and 4. Next: events that are
   delivered twice, and `DepositWatcher` composed with `Exchange`, so that a deposit's
   other refusals are the application's own.
5. The encodings and the client, each pair of ends together: done, sections 2.5 and 4.
   Next: the `to_data`/`from_data` pairs of the Merkle store.
6. The abstract bank that `Exchange` implements: done, sections 2.1 and 4.
7. Every safety invariant and action property of the passing runs is a theorem. Left to
   TLC are the liveness properties (section 4); the parts of the plan that extend the
   model above come with theorems of their own.

## 6. Not modelled

Rejections' error codes, logging, paging and filters of the JSON queries (`/data/markets`,
`/data/tokens` and the like return collections as they are) and `getState`; the Merkle
store itself, which is taken to return the words that were set, with the
`to_data`/`from_data` pairs between it and the records; the proof system; when the host
calls `store` and flushes beyond "at any time between transactions"; the command-line
clients, which call one method each; deployment files.
