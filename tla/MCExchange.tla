----------------------------- MODULE MCExchange -----------------------------
(***************************************************************************)
(* Instances of Exchange for TLC.  SetupSpec starts from the empty store.   *)
(* FundedSpec starts from a state the empty store reaches: every player     *)
(* has registered and the admin has added the tokens, opened one market and *)
(* made one deposit of Funds per trader and token, so that the bound        *)
(* MaxCounter - FundedCounter is spent on orders, trades and cancellations. *)
(***************************************************************************)
EXTENDS Exchange, FiniteSets

CONSTANTS
  Funds,        \* deposited once per trader and token
  TokenA, TokenB, LastPrice    \* the market that is open

Traders == Pids \ {Admin}
Deposits == Cardinality(Traders) * Cardinality(TokenIdxs)
FundedCounter == NumPids + Cardinality(TokenIdxs) + 1 + Deposits

FundedInit ==
  /\ registered = Pids
  /\ nonce = [p \in Pids |->
                IF p = Admin THEN 2 + Cardinality(TokenIdxs) + Deposits ELSE 1]
  /\ balance = [p \in Pids |->
                  [t \in TokenIdxs |-> IF p = Admin THEN 0 ELSE Funds]]
  /\ lock_balance = [p \in Pids |-> [t \in TokenIdxs |-> 0]]
  /\ tokens \in {f \in [TokenIdxs -> Addresses \cup {MarketRecord}] :
                  \A t \in TokenIdxs : f[t] = MarketRecord <=> t = 1}
  /\ markets = <<[status |-> MARKET_STATUS_OPEN, token_a |-> TokenA,
                  token_b |-> TokenB, last_deal_price |-> LastPrice]>>
  /\ orders = <<>> /\ trades = <<>> /\ settlement = <<>>
  /\ counter = FundedCounter /\ total_fee = 0
  /\ event_id_counter = Cardinality(TokenIdxs) + 1
  /\ deposited = [t \in TokenIdxs |-> Cardinality(Traders) * Funds]
  /\ withdrawn = [t \in TokenIdxs |-> 0]
  /\ paid = [t \in TokenIdxs |-> 0]

FundedSpec == FundedInit /\ [][Next]_vars
SetupSpec == Spec
=============================================================================
