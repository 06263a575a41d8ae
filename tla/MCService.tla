----------------------------- MODULE MCService -----------------------------
(***************************************************************************)
(* Instances of Service for TLC.  Listings start from nothing; the funded   *)
(* ones start as MCExchange's do, when the callback has applied the events  *)
(* of the listings.                                                         *)
(***************************************************************************)
EXTENDS Service, MCExchange

ListedService ==
  /\ serving = TRUE
  /\ inbox = <<>>
  /\ written = FALSE
  /\ db_tokens \in {f \in [TokenIdxs -> Addresses] : \A t \in TokenIdxs :
                     tokens[t] # MarketRecord => f[t] = tokens[t]}
  /\ db_markets = [m \in MarketIds |-> IF m \in DOMAIN markets THEN markets[m]
                                       ELSE NoDoc]
  /\ db_orders = [i \in OrderIds |-> NoDoc]
  /\ db_trades = [k \in 1 .. MaxTrades |-> NoDoc]
  /\ db_positions = [p \in Pids |-> [t \in TokenIdxs |-> NoDoc]]
  /\ msM = [m \in MarketIds |-> IF m \in DOMAIN markets THEN OB!EmptyBook
                                ELSE NoBook]
  /\ listed = [m \in MarketIds |-> {}]
  /\ crashes = 0

FundedServiceSpec ==
  FundedInit /\ ListedService /\ [][ServiceNext]_<<vars, service_vars>>
FundedFollowSpec ==
  FundedInit /\ ListedService /\ [][FollowNext]_<<vars, service_vars>>
=============================================================================
