------------------------------- MODULE Codec -------------------------------
(***************************************************************************)
(* What crosses the wire, in both directions, and how the two ends read it: *)
(* transactions, which src/ts/src/api.ts packs and transaction.rs decodes,  *)
(* and events, which the Rust records push and service.ts takes apart.      *)
(*                                                                         *)
(* A u64 is the sequence of its 8 bytes, the least significant one first,   *)
(* so that shifts, masks, casts and byte orders are operations on           *)
(* sequences; `as u8` of what add_event has widened is the same word again. *)
(* A JavaScript Number made from an id or an index is exact (these count    *)
(* from 0 and stay far below 2^53), so that it is the word itself.          *)
(***************************************************************************)
EXTENDS Integers, Sequences, SequencesExt

\* A number below 2^31 as a word.
Word(n) == <<n % 256, (n \div 256) % 256, (n \div 65536) % 256,
             n \div 16777216, 0, 0, 0, 0>>

\* The number of the low 4 bytes of a word that is below 2^31.
Low(w) == w[1] + 256 * w[2] + 65536 * w[3] + 16777216 * w[4]

\* `as u32`.
u32(w) == SubSeq(w, 1, 4)

-----------------------------------------------------------------------------
(* api.ts: a transaction is its command and its parameters.                *)

CMD_ADD_TOKEN == 1
CMD_ADD_MARKET == 2
CMD_DEPOSIT == 3
CMD_INSTALL_PLAYER == 4
ADD_LIMIT_ORDER == 5
ADD_MARKET_ORDER == 6
CANCEL_ORDER == 7
CLOSE_MARKET == 8
TRANSFER == 9
WITHDRAW == 10
ADD_TRADE == 11
UPDATE_TOKEN == 12

Tx(command, params) == [command |-> command, params |-> params]

\* Mutant: a byte is left for the nonce.
encodeCommand_ByteNonce(nonce, tx) ==
  <<<<tx.command, Len(tx.params) + 1, nonce[1], 0, 0, 0, 0, 0>>>> \o tx.params

\* The command's byte, the byte of the length, and 48 bits for the nonce.
encodeCommand(nonce, tx) ==
  <<<<tx.command, Len(tx.params) + 1>> \o SubSeq(nonce, 1, 6)>> \o tx.params

\* BigInt('0x...') of a byte string: its last byte is the least significant.
FromHex(bytes) == Reverse(bytes)

\* Mutant: the limbs are not reversed.
address2BigUint64Array_BigEndian(a) ==
  <<<<0, 0, 0, 0>> \o FromHex(SubSeq(a, 1, 4)),
    FromHex(SubSeq(a, 5, 12)), FromHex(SubSeq(a, 13, 20))>>

\* 20 bytes as limbs of 4, 8 and 8, the first one shifted by 32 bits.
address2BigUint64Array(a) ==
  <<<<0, 0, 0, 0>> \o FromHex(Reverse(SubSeq(a, 1, 4))),
    FromHex(Reverse(SubSeq(a, 5, 12))),
    FromHex(Reverse(SubSeq(a, 13, 20)))>>

\* LeHexBN(key).toU64Array(): the four words of a public key's 32 bytes.
toU64Array(key) == [k \in 1 .. 4 |-> SubSeq(key, 8 * k - 7, 8 * k)]

\* [pid2[1], pid2[2]], counted from 0.
pidWords(pid) == SubSeq(toU64Array(pid), 2, 3)

register == Tx(CMD_INSTALL_PLAYER, <<>>)
addToken(idx, address) ==
  Tx(CMD_ADD_TOKEN, <<idx>> \o address2BigUint64Array(address))
updateToken(idx, address) ==
  Tx(UPDATE_TOKEN, <<idx>> \o address2BigUint64Array(address))
addMarket(tokenAIdx, tokenBIdx, lastPrice) ==
  Tx(CMD_ADD_MARKET, <<tokenAIdx, tokenBIdx, lastPrice>>)
closeMarket(marketId) == Tx(CLOSE_MARKET, <<marketId>>)
deposit(pid, tokenAIdx, amount) ==
  Tx(CMD_DEPOSIT, pidWords(pid) \o <<tokenAIdx, amount>>)
depositWithUint64Pid(pid_1, pid_2, tokenAIdx, amount) ==
  Tx(CMD_DEPOSIT, <<pid_1, pid_2, tokenAIdx, amount>>)
addLimitOrder(marketId, flag, limitPrice, amount) ==
  Tx(ADD_LIMIT_ORDER, <<marketId, flag, limitPrice, amount>>)
addMarketOrder(marketId, flag, bTokenAmount, aTokenAmount) ==
  Tx(ADD_MARKET_ORDER, <<marketId, flag, bTokenAmount, aTokenAmount>>)
cancelOrder(orderId) == Tx(CANCEL_ORDER, <<orderId>>)
addTrace(aOrderId, bOrderId, aActualAmount, bActualAmount) ==
  Tx(ADD_TRADE, <<aOrderId, bOrderId, aActualAmount, bActualAmount>>)
transfer(pid, tokenIdx, amount) ==
  Tx(TRANSFER, pidWords(pid) \o <<tokenIdx, amount>>)
withdraw(idx, address, amount) ==
  Tx(WITHDRAW, <<idx>> \o address2BigUint64Array(address) \o <<amount>>)

-----------------------------------------------------------------------------
(* transaction.rs: Data, as the application understands it.                *)

TokenData(name, token_idx, address) ==
  [name |-> name, token_idx |-> token_idx, address |-> address]
MarketData(token_a, token_b, last_deal_price) ==
  [name |-> "AddMarket", token_a |-> token_a, token_b |-> token_b,
   last_deal_price |-> last_deal_price]
CloseMarketData(market_id) == [name |-> "CloseMarket", market_id |-> market_id]
MoveData(name, pid_1, pid_2, token_idx, amount) ==
  [name |-> name, pid_1 |-> pid_1, pid_2 |-> pid_2, token_idx |-> token_idx,
   amount |-> amount]
WithdrawData(token_idx, to_address, amount) ==
  [name |-> "Withdraw", token_idx |-> token_idx, to_address |-> to_address,
   amount |-> amount]
LimitData(market_id, flag, limit_price, amount) ==
  [name |-> "AddLimitOrder", market_id |-> market_id, flag |-> flag,
   limit_price |-> limit_price, amount |-> amount]
MarketOrderData(market_id, flag, b_token_amount, a_token_amount) ==
  [name |-> "AddMarketOrder", market_id |-> market_id, flag |-> flag,
   b_token_amount |-> b_token_amount, a_token_amount |-> a_token_amount]
CancelData(order_id) == [name |-> "CancelOrder", order_id |-> order_id]
TradeData(a_order_id, b_order_id, a_actual_amount, b_actual_amount) ==
  [name |-> "AddTrade", a_order_id |-> a_order_id, b_order_id |-> b_order_id,
   a_actual_amount |-> a_actual_amount, b_actual_amount |-> b_actual_amount]
RegisterData == [name |-> "RegisterPlayer"]

u64_array_to_address(arr) == SubSeq(arr[1], 5, 8) \o arr[2] \o arr[3]

\* The parameters the i-th command requires, the word of the command included.
RequiredLength == <<5, 4, 5, 1, 5, 5, 2, 2, 5, 6, 5, 5>>

\* Nothing checks the length byte; a command that is not known registers.
DataOf(p) ==
  LET command == p[1][1]
      address == u64_array_to_address(SubSeq(p, 3, 5))
  IN  CASE command = 1 -> TokenData("AddToken", u32(p[2]), address)
        [] command = 12 -> TokenData("UpdateToken", u32(p[2]), address)
        [] command = 2 -> MarketData(u32(p[2]), u32(p[3]), p[4])
        [] command = 3 -> MoveData("Deposit", p[2], p[3], u32(p[4]), p[5])
        [] command = 5 -> LimitData(p[2], p[3], p[4], p[5])
        [] command = 6 -> MarketOrderData(p[2], p[3], p[4], p[5])
        [] command = 7 -> CancelData(p[2])
        [] command = 8 -> CloseMarketData(p[2])
        [] command = 9 -> MoveData("Transfer", p[2], p[3], u32(p[4]), p[5])
        [] command = 10 -> WithdrawData(u32(p[2]), address, p[6])
        [] command = 11 -> TradeData(p[2], p[3], p[4], p[5])
        [] OTHER -> RegisterData

\* `require` traps on a wrong number of parameters.
Decodes(p) ==
  p[1][1] \in DOMAIN RequiredLength => Len(p) = RequiredLength[p[1][1]]

\* params[0] >> 16.
NonceOf(p) == SubSeq(p[1], 3, 8) \o <<0, 0>>

\* pkey_to_pid: the second and the third word of the signer's key.
pkey_to_pid(pkey) == SubSeq(pkey, 2, 3)

-----------------------------------------------------------------------------
(* Events: add_event of the five kinds of records.                         *)

EVENT_POSITION == 1
EVENT_TOKEN == 2
EVENT_MARKET == 3
EVENT_ORDER == 4
EVENT_TRADE == 5

PositionWords(r) == <<r.pid[1], r.pid[2], r.token_idx, r.balance, r.lock_balance>>
TokenWords(r) ==
  <<r.token_idx>> \o [i \in 1 .. 20 |-> Word(r.address[i])]
MarketWords(r) ==
  <<r.market_id, r.status, r.token_a, r.token_b, r.last_deal_price>>
OrderWords(r) ==
  <<r.id, r.type_, r.status, r.pid[1], r.pid[2], r.market_id, r.flag,
    r.lock_balance, r.lock_fee, r.price, r.b_token_amount, r.a_token_amount,
    r.already_deal_amount>>
TradeWords(r) ==
  <<r.trade_id, r.market_id, r.a_order_id, r.b_order_id, r.a_actual_amount,
    r.b_actual_amount>>

RecordWords(r) ==
  CASE r.kind = EVENT_POSITION -> PositionWords(r)
    [] r.kind = EVENT_TOKEN -> TokenWords(r)
    [] r.kind = EVENT_MARKET -> MarketWords(r)
    [] r.kind = EVENT_ORDER -> OrderWords(r)
    [] r.kind = EVENT_TRADE -> TradeWords(r)

\* The kind in the high half, the number of words in the low half.
add_event(r) ==
  <<u32(Word(Len(RecordWords(r)))) \o u32(Word(r.kind))>> \o RecordWords(r)

\* EVENTS at the end of a transaction: the return code, the event id (0 when
\* there is no event) and the records.
Events(ret, event_id, records) ==
  <<Word(ret), IF records = <<>> THEN Word(0) ELSE event_id>>
    \o FlattenSeq([k \in DOMAIN records |-> add_event(records[k])])

-----------------------------------------------------------------------------
(* service.ts, info.ts and matcher.ts: what is stored of an event.         *)

PositionFromEvent(data) ==
  [pid_1 |-> data[1], pid_2 |-> data[2], token_idx |-> data[3],
   balance |-> data[4], lock_balance |-> data[5]]

\* Each of the 20 words gives two hexadecimal digits, that is a byte.
TokenFromEvent(data) ==
  [tokenIdx |-> data[1], address |-> [i \in 1 .. 20 |-> data[i + 1][1]]]

\* Mutant: the two tokens change places.
MarketFromEvent_Swapped(data) ==
  [marketId |-> data[1], status |-> data[2], tokenA |-> data[4],
   tokenB |-> data[3], lastPrice |-> data[5]]

MarketFromEvent(data) ==
  [marketId |-> data[1], status |-> data[2], tokenA |-> data[3],
   tokenB |-> data[4], lastPrice |-> data[5]]

\* The constructor sets the shadow, which toObject leaves out again.
OrderFromEvent(data) ==
  [id |-> data[1], type_ |-> data[2], status |-> data[3],
   pid |-> <<data[4], data[5]>>, market_id |-> data[6], flag |-> data[7],
   lock_balance |-> data[8], lock_fee |-> data[9], price |-> data[10],
   b_token_amount |-> data[11], a_token_amount |-> data[12],
   already_deal_amount |-> data[13], shadow_already_deal_amount |-> data[13]]

OrderToObject(o) ==
  [f \in DOMAIN o \ {"shadow_already_deal_amount"} |-> o[f]]

TradeFromEvent(data) ==
  [trade_id |-> data[1], market_id |-> data[2], a_order_id |-> data[3],
   b_order_id |-> data[4], a_actual_amount |-> data[5],
   b_actual_amount |-> data[6]]

\* The collection, the fields by which the callback looks the document up, and
\* the document.
Upsert(collection, key, doc) == [in |-> collection, key |-> key, doc |-> doc]

\* What an event stores: one document, or none if its kind is unknown.
Upserts(kind, data) ==
  CASE kind = EVENT_POSITION ->
         LET d == PositionFromEvent(data)
         IN  {Upsert("positions", <<d.pid_1, d.pid_2, d.token_idx>>, d)}
    [] kind = EVENT_TOKEN ->
         LET d == TokenFromEvent(data) IN {Upsert("tokens", d.tokenIdx, d)}
    [] kind = EVENT_MARKET ->
         LET d == MarketFromEvent(data) IN {Upsert("markets", d.marketId, d)}
    [] kind = EVENT_ORDER ->
         LET d == OrderFromEvent(data)
         IN  {Upsert("orders", d.id, OrderToObject(d))}
    [] kind = EVENT_TRADE ->
         LET d == TradeFromEvent(data) IN {Upsert("trades", d.trade_id, d)}
    [] OTHER -> {}

eventType(data, i) == Low(SubSeq(data[i], 5, 8))

\* data.slice, which stops at the end of the array.
eventData(data, i) ==
  SubSeq(data, i + 1, Min({i + Low(data[i]), Len(data)}))

\* Mutant: the header is not counted.
nextEvent_NoHeader(data, i) == i + Low(data[i])

\* Mutant: a position is not stepped over.
nextEvent_Stuck(data, i) == IF eventType(data, i) = EVENT_POSITION
                            THEN i ELSE i + 1 + Low(data[i])

\* Where the header after the one at i is.
nextEvent(data, i) == i + 1 + Low(data[i])
=============================================================================
