------------------------------- MODULE Client -------------------------------
(***************************************************************************)
(* The API client (src/ts/src/api.ts) between its callers and the rollup,   *)
(* and what comes back: a call reads the nonce of its key, sends one        *)
(* transaction with it and waits for the answer; the rollup decodes and     *)
(* executes what it has received in order; the events of an accepted        *)
(* transaction reach the service's collections through their words.         *)
(* Calls of one key can overlap: every script and the service hold a Player *)
(* of their own.                                                            *)
(*                                                                         *)
(* What the application decides beyond the nonce is left open: it may       *)
(* refuse any transaction.  What it emits for an order or a trade is a      *)
(* sample of each record, whose words are all different.                    *)
(***************************************************************************)
EXTENDS Codec, FiniteSets

CONSTANTS
  NumKeys,      \* public keys are numbered 1..NumKeys
  FirstNonce,   \* how many transactions key 1 has made so far
  MaxCalls, MaxAtOnce    \* bounds: calls ever made, calls at a time

ASSUME ClientAssumption ==
  /\ NumKeys \in 1 .. 5 /\ FirstNonce \in 1 .. 1000
  /\ MaxCalls \in Nat /\ MaxAtOnce \in Nat

Keys == 1 .. NumKeys
Calls == 1 .. MaxCalls

-----------------------------------------------------------------------------
(* What callers ask: the data they mean, and the transaction that the       *)
(* method makes of it.                                                      *)

\* Words and byte strings without two equal bytes, so that no swap, shift or
\* cut goes unseen.
W(n) == [i \in 1 .. 8 |-> 10 * n + i]
PublicKey(k) == [i \in 1 .. 32 |-> 40 * k + i]
Address == [i \in 1 .. 20 |-> 100 + i]

pid_of(k) == pkey_to_pid(toU64Array(PublicKey(k)))

Ask(data, tx) == [data |-> data, tx |-> tx]

Requests == <<
  Ask(RegisterData, register),
  Ask(TokenData("AddToken", u32(W(1)), Address), addToken(W(1), Address)),
  Ask(TokenData("UpdateToken", u32(W(1)), Address), updateToken(W(1), Address)),
  Ask(MarketData(u32(W(1)), u32(W(2)), W(3)), addMarket(W(1), W(2), W(3))),
  Ask(CloseMarketData(W(1)), closeMarket(W(1))),
  Ask(MoveData("Deposit", pid_of(1)[1], pid_of(1)[2], u32(W(3)), W(4)),
      deposit(PublicKey(1), W(3), W(4))),
  Ask(MoveData("Deposit", W(1), W(2), u32(W(3)), W(4)),
      depositWithUint64Pid(W(1), W(2), W(3), W(4))),
  Ask(LimitData(W(1), W(2), W(3), W(4)), addLimitOrder(W(1), W(2), W(3), W(4))),
  Ask(MarketOrderData(W(1), W(2), W(3), W(4)),
      addMarketOrder(W(1), W(2), W(3), W(4))),
  Ask(CancelData(W(1)), cancelOrder(W(1))),
  Ask(TradeData(W(1), W(2), W(3), W(4)), addTrace(W(1), W(2), W(3), W(4))),
  Ask(MoveData("Transfer", pid_of(1)[1], pid_of(1)[2], u32(W(3)), W(4)),
      transfer(PublicKey(1), W(3), W(4))),
  Ask(WithdrawData(u32(W(1)), Address, W(5)), withdraw(W(1), Address, W(5)))>>

-----------------------------------------------------------------------------
VARIABLES
  call,        \* [Calls -> what a call is doing]
  nonce,       \* [Keys -> Nat], 0 for a key that is not registered
  queue,       \* the transactions the server has received, in order
  log,         \* history: the accepted transactions, in order
  stored,      \* the records the application has stored and reported
  events,      \* the words of the last transaction, not handled yet
  pos,         \* i of eventCallback, from 1
  docs,        \* the mirrored collections
  outdated     \* history: calls whose transaction had a wrong nonce

mirror == <<events, pos, docs>>
client_vars == <<call, nonce, queue, log, stored, mirror, outdated>>

NotYet == [at |-> "not made"]
Handled == events = <<>>
Active == {c \in Calls : call[c].at \in {"asking", "sending", "waiting"}}

Init ==
  /\ call = [c \in Calls |-> NotYet]
  /\ nonce = [k \in Keys |-> IF k = 1 THEN FirstNonce ELSE 0]
  /\ queue = <<>> /\ log = <<>>
  /\ stored = {} /\ events = <<>> /\ pos = 3 /\ docs = {}
  /\ outdated = {}

At(c, place) == call' = [call EXCEPT ![c].at = place]

\* A caller calls a method of a Player that holds key k.
Make(c, k, request) ==
  /\ call[c] = NotYet /\ \A d \in 1 .. c - 1 : call[d] # NotYet
  /\ Cardinality(Active) < MaxAtOnce
  /\ call' = [call EXCEPT ![c] = [at |-> "asking", key |-> k,
                                  asked |-> request, nonce |-> 0]]
  /\ UNCHANGED <<nonce, queue, log, stored, mirror, outdated>>

\* getNonce: 0 as long as the server knows no player of this key.
getNonce(c) ==
  /\ call[c].at = "asking"
  /\ call' = [call EXCEPT ![c].nonce = nonce[call[c].key], ![c].at = "sending"]
  /\ UNCHANGED <<nonce, queue, log, stored, mirror, outdated>>

\* It is called outside of the try block: its failure is the caller's.
getNonceFails(c) ==
  /\ call[c].at = "asking"
  /\ At(c, "thrown")
  /\ UNCHANGED <<nonce, queue, log, stored, mirror, outdated>>

Send(c) ==
  /\ call[c].at = "sending"
  /\ queue' = Append(queue, [call |-> c, key |-> call[c].key,
                             words |-> encodeCommand(Word(call[c].nonce),
                                                     Requests[call[c].asked].tx)])
  /\ At(c, "waiting")
  /\ UNCHANGED <<nonce, log, stored, mirror, outdated>>

\* Errors of sending and of waiting are logged and swallowed: the call ends
\* with undefined, and in the second case its transaction is still there.
SendFails(c) ==
  /\ call[c].at \in {"sending", "waiting"}
  /\ At(c, "undefined")
  /\ UNCHANGED <<nonce, queue, log, stored, mirror, outdated>>

\* The server answers the call that still waits, if it does.
Answered(c, answer) ==
  IF call[c].at = "waiting" THEN [call EXCEPT ![c].at = answer] ELSE call

-----------------------------------------------------------------------------
(* The rollup.                                                              *)

SamplePosition(t) ==
  [kind |-> EVENT_POSITION, pid |-> <<W(1), W(2)>>, token_idx |-> t,
   balance |-> W(6), lock_balance |-> W(7)]
SampleOrder(id) ==
  [kind |-> EVENT_ORDER, id |-> id, type_ |-> Word(1), status |-> Word(2),
   pid |-> <<W(1), W(2)>>, market_id |-> Word(3), flag |-> Word(4),
   lock_balance |-> W(5), lock_fee |-> W(6), price |-> W(7),
   b_token_amount |-> W(8), a_token_amount |-> W(9),
   already_deal_amount |-> W(10)]
SampleMarket(id, a, b, price) ==
  [kind |-> EVENT_MARKET, market_id |-> id, status |-> Word(1),
   token_a |-> a \o <<0, 0, 0, 0>>, token_b |-> b \o <<0, 0, 0, 0>>,
   last_deal_price |-> price]
SampleTrade(d) ==
  [kind |-> EVENT_TRADE, trade_id |-> Word(1), market_id |-> Word(3),
   a_order_id |-> d.a_order_id, b_order_id |-> d.b_order_id,
   a_actual_amount |-> d.a_actual_amount, b_actual_amount |-> d.b_actual_amount]

\* The records that a transaction stores and reports, in the code's order.
Reported(d) ==
  CASE d.name \in {"AddToken", "UpdateToken"} ->
         <<[kind |-> EVENT_TOKEN, token_idx |-> d.token_idx \o <<0, 0, 0, 0>>,
            address |-> d.address]>>
    [] d.name = "AddMarket" ->
         <<SampleMarket(Word(1), d.token_a, d.token_b, d.last_deal_price)>>
    [] d.name = "CloseMarket" ->
         <<SampleMarket(d.market_id, u32(W(1)), u32(W(2)), W(3))>>
    [] d.name \in {"AddLimitOrder", "AddMarketOrder"} ->
         <<SamplePosition(Word(0)), SamplePosition(Word(1)),
           SampleOrder(Word(1))>>
    [] d.name = "CancelOrder" ->
         <<SampleOrder(d.order_id), SamplePosition(Word(0))>>
    [] d.name = "AddTrade" ->
         <<SamplePosition(Word(0)), SamplePosition(Word(1)),
           SampleMarket(Word(3), u32(W(1)), u32(W(2)), W(3)), SampleTrade(d),
           SampleOrder(d.a_order_id), SampleOrder(d.b_order_id)>>
    [] OTHER -> <<>>

\* Two records of one key in the application's store.
SameRecord(r, s) ==
  /\ r.kind = s.kind
  /\ CASE r.kind = EVENT_POSITION -> r.pid = s.pid /\ r.token_idx = s.token_idx
       [] r.kind = EVENT_TOKEN -> r.token_idx = s.token_idx
       [] r.kind = EVENT_MARKET -> r.market_id = s.market_id
       [] r.kind = EVENT_ORDER -> r.id = s.id
       [] r.kind = EVENT_TRADE -> r.trade_id = s.trade_id

\* Storing a record replaces the one of its key.
StoreOne(all, r) == {s \in all : ~SameRecord(s, r)} \cup {r}

\* What is stored after each of the records.
StoredAfter(all, records) ==
  LET after[k \in 0 .. Len(records)] ==
        IF k = 0 THEN all ELSE StoreOne(after[k - 1], records[k])
  IN  after

Store(records) == StoredAfter(stored, records)[Len(records)]

Registered(job) == nonce[job.key] > 0
IsRegister(job) == DataOf(job.words) = RegisterData

\* get_and_check_nonce, and check_and_inc_nonce of a new player.
NonceIsRight(job) == NonceOf(job.words) = Word(nonce[job.key])

Accept(job) ==
  LET data == DataOf(job.words)
  IN  /\ Decodes(job.words)
      /\ NonceIsRight(job)
      /\ Registered(job) <=> ~IsRegister(job)
      /\ nonce' = [nonce EXCEPT ![job.key] = @ + 1]
      /\ log' = Append(log, [call |-> job.call, key |-> job.key, data |-> data,
                             nonce |-> nonce[job.key]])
      /\ stored' = Store(Reported(data))
      \* The id of the event is for its storage: the callback never reads it.
      /\ events' = Events(0, W(1), Reported(data))
      /\ call' = Answered(job.call, "done")
      /\ UNCHANGED outdated

\* The application returns an error code: a player who exists registers again,
\* or one of the checks of the command fails, before or after the nonce's.
Refuse(job) ==
  /\ Decodes(job.words)
  /\ events' = Events(1, Word(0), <<>>)
  /\ call' = Answered(job.call, "undefined")
  /\ UNCHANGED <<nonce, log, stored, outdated>>

\* It traps, and there is nothing for the callback.
Trap(job) ==
  /\ ~Decodes(job.words) \/ ~NonceIsRight(job) \/ ~Registered(job)
  /\ Registered(job) => ~IsRegister(job)
  /\ outdated' = IF Registered(job) THEN outdated \cup {job.call} ELSE outdated
  /\ call' = Answered(job.call, "undefined")
  /\ UNCHANGED <<nonce, log, stored, events>>

\* One transaction after the other, each with its callback.
Execute ==
  /\ queue # <<>> /\ Handled
  /\ queue' = Tail(queue)
  /\ LET job == Head(queue)
     IN  Refuse(job) \/ Trap(job) \/ Accept(job)
  /\ UNCHANGED <<pos, docs>>

-----------------------------------------------------------------------------
(* eventCallback.                                                          *)

\* It skips a failed transaction, one without events, and ends the loop.
CallbackEnds ==
  /\ ~Handled
  /\ events[1] # Word(0) \/ pos > Len(events)
  /\ events' = <<>> /\ pos' = 3
  /\ UNCHANGED <<call, nonce, queue, log, stored, docs, outdated>>

\* findOneAndUpdate with upsert.
Upserted(new) ==
  {d \in docs : \A u \in new : d.in # u.in \/ d.key # u.key} \cup new

ApplyEvent ==
  /\ ~Handled
  /\ events[1] = Word(0) /\ pos <= Len(events)
  /\ pos' = nextEvent(events, pos)
  /\ docs' = Upserted(Upserts(eventType(events, pos), eventData(events, pos)))
  /\ UNCHANGED <<call, nonce, queue, log, stored, events, outdated>>

CallStep(c) == getNonce(c) \/ Send(c)

Next ==
  \/ \E c \in Calls, k \in Keys, request \in DOMAIN Requests : Make(c, k, request)
  \/ \E c \in Calls :
       getNonce(c) \/ getNonceFails(c) \/ Send(c) \/ SendFails(c)
  \/ Execute
  \/ ApplyEvent
  \/ CallbackEnds

\* Promises are resolved and the server works its queue off.
Fairness ==
  /\ \A c \in Calls : WF_client_vars(CallStep(c))
  /\ WF_client_vars(Execute)
  /\ WF_client_vars(ApplyEvent \/ CallbackEnds)

Spec == Init /\ [][Next]_client_vars /\ Fairness

-----------------------------------------------------------------------------
(* What the client and the service promise.                                *)

Places == {"not made", "asking", "sending", "waiting", "done", "undefined",
           "thrown"}

\* Calls are where a call can be, nonces are numbers, and the loop over the
\* events never leaves their words behind.
TypeOK ==
  /\ \A c \in Calls : call[c].at \in Places
  /\ nonce \in [Keys -> Nat]
  /\ \A i \in DOMAIN queue : queue[i].call \in Calls
  /\ events = <<>> => pos = 3
  /\ pos <= Len(events) + 1 \/ pos = 3
  /\ outdated \subseteq Calls

\* The application executes what the caller meant, under the caller's key, and
\* no call twice: nothing is swapped, shifted or cut on the way from the method
\* to Data, but for the high half of a token index.
ExecutedAsAsked ==
  \A i \in DOMAIN log :
    LET c == log[i].call
    IN  /\ log[i].data = Requests[call[c].asked].data
        /\ log[i].key = call[c].key
        /\ \A j \in DOMAIN log : log[j].call = c => j = i

\* A call whose nonce is refused has lost a race: another accepted transaction
\* of its key used up the very nonce that it had read.  So callers that await
\* one another's answers, and get them, are never refused for the nonce.
OutdatedLostARace ==
  \A c \in outdated :
    \E i \in DOMAIN log : /\ log[i].key = call[c].key
                          /\ log[i].nonce = call[c].nonce
                          /\ log[i].call # c

\* What a document should say of a record: the same words under the names of
\* the TypeScript classes.
Mirrored(r) ==
  CASE r.kind = EVENT_POSITION ->
         [pid_1 |-> r.pid[1], pid_2 |-> r.pid[2], token_idx |-> r.token_idx,
          balance |-> r.balance, lock_balance |-> r.lock_balance]
    [] r.kind = EVENT_TOKEN -> [tokenIdx |-> r.token_idx, address |-> r.address]
    [] r.kind = EVENT_MARKET ->
         [marketId |-> r.market_id, status |-> r.status, tokenA |-> r.token_a,
          tokenB |-> r.token_b, lastPrice |-> r.last_deal_price]
    [] OTHER -> [f \in DOMAIN r \ {"kind"} |-> r[f]]

\* Whenever the callback has ended, the documents are the reported records,
\* word for word, however many records of whatever length a transaction had.
DocumentsAreTheRecords ==
  Handled => {d.doc : d \in docs} = {Mirrored(r) : r \in stored}

\* Every call comes back to its caller, whatever the rollup makes of it, which
\* needs the loop over the events to end.
EveryCallReturns ==
  \A c \in Calls :
    call[c].at = "asking" ~> call[c].at \in {"done", "undefined", "thrown"}
=============================================================================
