--------------------------- MODULE DepositWatcher ---------------------------
(***************************************************************************)
(* The deposit watcher (src/ts/src/deposit.ts) between the settlement       *)
(* contract's TopUp events and the rollup application, with the client of   *)
(* api.ts through which it sends.  At its start it replays all past events, *)
(* one after the other; then every new event has a handler of its own, and  *)
(* handlers interleave at each await.                                       *)
(*                                                                         *)
(* A handler is named <<event, k>>: k is Replay for the loop over the past  *)
(* events and Live for the subscription.  The rollup is the part of it that *)
(* the watcher meets: the admin's nonce, whether the token is listed, and   *)
(* the requests not executed yet, which outlive a crash of the watcher.     *)
(***************************************************************************)
EXTENDS Integers, Sequences

CONSTANTS
  L1Tokens,       \* token addresses on the settlement chain
  FirstToken,     \* proxyContract._tokens(0)
  Amounts,        \* amounts of top-ups, in wei
  GWei,           \* wei in the unit that is credited
  MaxTopUps,      \* bounds: top-ups, crashes of the watcher, failed calls,
  MaxCrashes,
  MaxFailures,
  MaxOthers       \* and other transactions of the admin

ASSUME WatcherAssumption ==
  /\ FirstToken \in L1Tokens
  /\ Amounts \subseteq Nat
  /\ GWei \in Nat \ {0}
  /\ {MaxTopUps, MaxCrashes, MaxFailures, MaxOthers} \subseteq Nat

VARIABLES
  chain,        \* the TopUp events of the contract, in order
  record,       \* event -> state of its TxHash document, or "none"
  watcher,      \* "down", "starting", "replaying" or "listening"
  found,        \* how many events queryFilter returned
  position,     \* how many of them the replay has begun
  joined,       \* how many events there were when the subscription began
  heard,        \* events up to this one have been delivered
  handler,      \* the handlers
  queue,        \* requests that the rollup has not executed
  admin_nonce,
  listed,       \* the token is listed in the rollup
  credits,      \* history: how often each event was credited,
  lost,         \* its state writes that failed,
  refused,      \* why its last deposit was refused,
  alone,        \* whether the replay was the only user of the admin's key,
  crashes, failures, others

watcher_vars == <<watcher, found, position, joined, heard>>
rollup_vars == <<queue, admin_nonce, listed, credits, refused>>
bounds == <<crashes, failures, others>>
vars == <<chain, record, watcher_vars, handler, rollup_vars, lost, alone, bounds>>

Replay == 0
Live == 1
TopUps == 1 .. MaxTopUps
Handlers == TopUps \X {Replay, Live}
NoHandler == <<0, Replay>>

Idle == [at |-> "idle", nonce |-> 0]
IsDone(h) == handler[h].at = "done"

Init ==
  /\ chain = <<>>
  /\ record = [i \in TopUps |-> "none"]
  /\ watcher = "down"
  /\ found = 0 /\ position = 0 /\ joined = 0 /\ heard = 0
  /\ handler = [h \in Handlers |-> Idle]
  /\ queue = <<>>
  /\ admin_nonce = 0
  /\ listed \in BOOLEAN
  /\ credits = [i \in TopUps |-> 0]
  /\ lost = [i \in TopUps |-> 0]
  /\ refused = [i \in TopUps |-> "no"]
  /\ alone = TRUE
  /\ crashes = 0 /\ failures = 0 /\ others = 0

-----------------------------------------------------------------------------
(* The settlement chain, and the rollup.                                   *)

TopUp(l1token, amount) ==
  /\ Len(chain) < MaxTopUps
  /\ chain' = Append(chain, [l1token |-> l1token, amount |-> amount])
  /\ UNCHANGED <<record, watcher_vars, handler, rollup_vars, lost, alone, bounds>>

\* Any other transaction of the admin; one of them lists the token.
OtherTransaction(lists) ==
  /\ others < MaxOthers
  /\ others' = others + 1
  /\ admin_nonce' = admin_nonce + 1
  /\ listed' = (listed \/ lists)
  /\ alone' = FALSE
  /\ UNCHANGED <<chain, record, watcher_vars, handler, queue, credits, refused,
                 lost, crashes, failures>>

\* The rollup executes the oldest request; its answer lets the handler go on,
\* which does not look at it.  The amount is taken to fit the balance.
Execute ==
  /\ queue # <<>>
  /\ LET request == Head(queue)
         i == request.event
         h == request.handler
     IN  /\ IF request.nonce = admin_nonce /\ listed
            THEN /\ admin_nonce' = admin_nonce + 1
                 /\ credits' = [credits EXCEPT ![i] = @ + 1]
                 /\ UNCHANGED refused
            ELSE /\ refused' = [refused EXCEPT ![i] =
                      IF request.nonce = admin_nonce THEN "token" ELSE "nonce"]
                 /\ UNCHANGED <<admin_nonce, credits>>
         /\ handler' = IF h = NoHandler THEN handler
                       ELSE [handler EXCEPT ![h].at = "completing"]
  /\ queue' = Tail(queue)
  /\ UNCHANGED <<chain, record, watcher_vars, listed, lost, alone, bounds>>

-----------------------------------------------------------------------------
(* processTopUpEvent, from one await to the next.                          *)

Fails ==
  /\ failures < MaxFailures
  /\ failures' = failures + 1

NothingFails == UNCHANGED failures

GoesTo(h, place) == handler' = [handler EXCEPT ![h].at = place]

InGWei(i) == chain[i].amount \div GWei

\* Mutant: also records that are in progress are processed.
AfterLookup_InProgress(state) ==
  CASE state = "none" -> "saving"
    [] state \in {"pending", "in-progress"} -> "marking"
    [] OTHER -> "done"

\* A record in progress makes the handler wait for ever.
AfterLookup(state) ==
  CASE state = "none" -> "saving"
    [] state = "pending" -> "marking"
    [] state = "in-progress" -> "stuck"
    [] OTHER -> "done"

\* Events of other tokens are skipped.
Lookup(h) ==
  /\ handler[h].at = "looking up"
  /\ GoesTo(h, IF chain[h[1]].l1token # FirstToken THEN "done"
               ELSE AfterLookup(record[h[1]]))
  /\ NothingFails
  /\ UNCHANGED <<chain, record, watcher_vars, rollup_vars, lost, alone,
                 crashes, others>>

\* A call to the provider or the database throws: the event is dropped.
LookupFails(h) ==
  /\ handler[h].at = "looking up"
  /\ Fails
  /\ GoesTo(h, "done")
  /\ UNCHANGED <<chain, record, watcher_vars, rollup_vars, lost, alone,
                 crashes, others>>

Save(h) ==
  /\ handler[h].at = "saving"
  /\ record' = [record EXCEPT ![h[1]] = "pending"]
  /\ GoesTo(h, "marking")
  /\ NothingFails
  /\ UNCHANGED <<chain, watcher_vars, rollup_vars, lost, alone, crashes, others>>

\* The failed save may have reached the database.
SaveFails(h) ==
  /\ handler[h].at = "saving"
  /\ Fails
  /\ record' \in {record, [record EXCEPT ![h[1]] = "pending"]}
  /\ GoesTo(h, "done")
  /\ UNCHANGED <<chain, watcher_vars, rollup_vars, lost, alone, crashes, others>>

\* updateTxState swallows its errors.
WriteState(i, state) ==
  /\ UNCHANGED <<chain, watcher_vars, rollup_vars, alone, crashes, others>>
  /\ \/ /\ record' = [record EXCEPT ![i] = state]
        /\ NothingFails
        /\ UNCHANGED lost
     \/ /\ Fails
        /\ lost' = [lost EXCEPT ![i] = @ + 1]
        /\ UNCHANGED record

\* Mutant: a skipped amount ends the handler.
AfterMark_SkipReturns(i) == IF InGWei(i) < 1 THEN "done" ELSE "reading nonce"

\* An amount below one unit is not deposited, but completed.
AfterMark(i) == IF InGWei(i) < 1 THEN "completing" ELSE "reading nonce"

Mark(h) ==
  /\ handler[h].at = "marking"
  /\ WriteState(h[1], "in-progress")
  /\ GoesTo(h, AfterMark(h[1]))

\* depositWithUint64Pid reads the nonce first,
ReadNonce(h) ==
  /\ handler[h].at = "reading nonce"
  /\ handler' = [handler EXCEPT ![h] = [at |-> "sending", nonce |-> admin_nonce]]
  /\ NothingFails
  /\ UNCHANGED <<chain, record, watcher_vars, rollup_vars, lost, alone,
                 crashes, others>>

\* Mutant: the record can be tried again.
Abandoned_Retried(i) == [record EXCEPT ![i] = "pending"]

\* The line that would mark the record as failed is commented out.
Abandoned(i) == record

\* outside of its try block: an error reaches the handler, which gives up.
ReadNonceFails(h) ==
  /\ handler[h].at = "reading nonce"
  /\ Fails
  /\ record' = Abandoned(h[1])
  /\ GoesTo(h, "done")
  /\ UNCHANGED <<chain, watcher_vars, rollup_vars, lost, alone, crashes, others>>

\* Then it sends and waits for the answer.
Send(h) ==
  /\ handler[h].at = "sending"
  /\ queue' = Append(queue, [event |-> h[1], nonce |-> handler[h].nonce,
                             handler |-> h])
  /\ GoesTo(h, "waiting")
  /\ NothingFails
  /\ UNCHANGED <<chain, record, watcher_vars, admin_nonce, listed, credits,
                 refused, lost, alone, crashes, others>>

\* Errors of sending and of waiting are swallowed.
SendFails(h) ==
  /\ handler[h].at = "sending"
  /\ Fails
  /\ GoesTo(h, "completing")
  /\ UNCHANGED <<chain, record, watcher_vars, rollup_vars, lost, alone,
                 crashes, others>>

\* A request whose sender does not wait for it any more.
Disowned(request) == [request EXCEPT !.handler = NoHandler]

WaitFails(h) ==
  /\ handler[h].at = "waiting"
  /\ Fails
  /\ GoesTo(h, "completing")
  /\ queue' = [k \in DOMAIN queue |-> IF queue[k].handler = h
                                      THEN Disowned(queue[k]) ELSE queue[k]]
  /\ UNCHANGED <<chain, record, watcher_vars, admin_nonce, listed, credits,
                 refused, lost, alone, crashes, others>>

Complete(h) ==
  /\ handler[h].at = "completing"
  /\ WriteState(h[1], "completed")
  /\ GoesTo(h, "done")

HandlerStep(h) ==
  \/ Lookup(h) \/ LookupFails(h)
  \/ Save(h) \/ SaveFails(h)
  \/ Mark(h)
  \/ ReadNonce(h) \/ ReadNonceFails(h)
  \/ Send(h) \/ SendFails(h)
  \/ WaitFails(h)
  \/ Complete(h)

-----------------------------------------------------------------------------
(* main and getTopUpEvents.                                                *)

Begins(h) == GoesTo(h, "looking up")

Start ==
  /\ watcher = "down"
  /\ watcher' = "starting"
  /\ UNCHANGED <<chain, record, found, position, joined, heard, handler,
                 rollup_vars, lost, alone, bounds>>

\* Mutant: an event too many.
Events_OneMore == Len(chain) + 1

Events == Len(chain)

\* A failed query is like an empty one.
Query ==
  /\ watcher = "starting"
  /\ \/ found' = Events /\ NothingFails
     \/ found' = 0 /\ Fails
  /\ watcher' = "replaying"
  /\ position' = 0
  /\ UNCHANGED <<chain, record, joined, heard, handler, rollup_vars, lost,
                 alone, crashes, others>>

\* Mutant: the loop does not await the handlers.
ReplayIsFree_NoAwait == TRUE

ReplayIsFree == position > 0 => IsDone(<<position, Replay>>)

ReplayNext ==
  /\ watcher = "replaying"
  /\ ReplayIsFree
  /\ position < found
  /\ position' = position + 1
  /\ Begins(<<position + 1, Replay>>)
  /\ UNCHANGED <<chain, record, watcher, found, joined, heard, rollup_vars,
                 lost, alone, bounds>>

\* What happened since the query is delivered to nobody.
Subscribe ==
  /\ watcher = "replaying"
  /\ ReplayIsFree
  /\ position = found
  /\ watcher' = "listening"
  /\ joined' = Len(chain)
  /\ heard' = Len(chain)
  /\ UNCHANGED <<chain, record, found, position, handler, rollup_vars, lost,
                 alone, bounds>>

Deliver ==
  /\ watcher = "listening"
  /\ heard < Len(chain)
  /\ heard' = heard + 1
  /\ Begins(<<heard + 1, Live>>)
  /\ alone' = FALSE
  /\ UNCHANGED <<chain, record, watcher, found, position, joined, rollup_vars,
                 lost, bounds>>

\* The handlers are gone, their requests are not.
Crash ==
  /\ watcher # "down"
  /\ crashes < MaxCrashes
  /\ crashes' = crashes + 1
  /\ watcher' = "down"
  /\ handler' = [h \in Handlers |-> Idle]
  /\ queue' = [k \in DOMAIN queue |-> Disowned(queue[k])]
  /\ UNCHANGED <<chain, record, found, position, joined, heard, admin_nonce,
                 listed, credits, refused, lost, alone, failures, others>>

Next ==
  \/ \E l1token \in L1Tokens, amount \in Amounts : TopUp(l1token, amount)
  \/ \E lists \in BOOLEAN : OtherTransaction(lists)
  \/ Execute
  \/ \E h \in Handlers : HandlerStep(h)
  \/ Start \/ Query \/ ReplayNext \/ Subscribe \/ Deliver \/ Crash

Spec == Init /\ [][Next]_vars

\* A running watcher's callbacks are called, the subscription delivers, and the
\* rollup executes what it was sent.  Nothing makes anybody start the watcher,
\* top up, or crash.
Fairness ==
  /\ WF_vars(Execute)
  /\ \A h \in Handlers : WF_vars(HandlerStep(h))
  /\ WF_vars(Query) /\ WF_vars(ReplayNext) /\ WF_vars(Subscribe)
  /\ WF_vars(Deliver)

FairSpec == Spec /\ Fairness

-----------------------------------------------------------------------------
Places == {"idle", "looking up", "saving", "marking", "reading nonce",
           "sending", "waiting", "completing", "stuck", "done"}
States == {"none", "pending", "in-progress", "completed"}
Request == [event : TopUps, nonce : Nat, handler : Handlers \cup {NoHandler}]

TypeOK ==
  /\ chain \in Seq([l1token : L1Tokens, amount : Amounts])
  /\ Len(chain) <= MaxTopUps
  /\ record \in [TopUps -> States]
  /\ watcher \in {"down", "starting", "replaying", "listening"}
  /\ found \in 0 .. Len(chain) /\ position \in 0 .. found
  /\ heard \in 0 .. Len(chain) /\ joined \in 0 .. heard
  /\ handler \in [Handlers -> [at : Places, nonce : Nat]]
  /\ queue \in Seq(Request)
  /\ admin_nonce \in Nat
  /\ listed \in BOOLEAN
  /\ credits \in [TopUps -> Nat]
  /\ lost \in [TopUps -> Nat]
  /\ refused \in [TopUps -> {"no", "nonce", "token"}]
  /\ alone \in BOOLEAN
  /\ crashes \in Nat /\ failures \in Nat /\ others \in Nat

\* A top-up is credited once, whatever crashes and whichever calls fail; only
\* a lost write of "in-progress" lets a later start credit it again.
CreditedOnce == \A i \in TopUps : credits[i] <= 1 + lost[i]

Rank(state) == CASE state = "none" -> 0
                 [] state = "pending" -> 1
                 [] state = "in-progress" -> 2
                 [] state = "completed" -> 3

\* No handler of this or of an earlier start takes a record back.
RecordsOnlyAdvance ==
  [][\A i \in TopUps : Rank(record[i]) <= Rank(record'[i])]_vars

Depositable(i) ==
  /\ i <= Len(chain)
  /\ chain[i].l1token = FirstToken
  /\ InGWei(i) >= 1

\* The comment where the record is completed, after a successful deposit; with
\* all tokens listed and no call failing.
CompletedMeansCredited ==
  failures = 0 =>
    \A i \in TopUps :
      Depositable(i) /\ record[i] = "completed" /\ refused[i] # "token" =>
        credits[i] > 0

\* When no call fails, a completed top-up that was not credited has been
\* refused by the rollup; and as long as the replay alone uses the admin's
\* key, only for a token that is not listed: its nonces are right, also after
\* crashes that left requests behind.
UncreditedWasRefused ==
  failures = 0 =>
    \A i \in TopUps :
      Depositable(i) /\ record[i] = "completed" /\ credits[i] = 0 =>
        refused[i] \in IF alone THEN {"token"} ELSE {"token", "nonce"}

\* As long as no call fails, what the replay found or the subscription delivers
\* is completed in the end, unless the watcher is down or waits for ever at a
\* record that an earlier crash left in progress, where the code asks for a
\* manual check.
Unseen(i) == watcher = "listening" /\ found < i /\ i <= joined
Blocked == \E i \in TopUps : handler[<<i, Replay>>].at = "stuck"

EveryTopUpIsSettled ==
  \A i \in TopUps :
    (i <= Len(chain) /\ chain[i].l1token = FirstToken)
      ~> (record[i] = "completed" \/ Unseen(i) \/ Blocked \/ watcher = "down"
            \/ failures > 0)
=============================================================================
