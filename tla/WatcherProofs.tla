--------------------------- MODULE WatcherProofs ---------------------------
(***************************************************************************)
(* The deposit watcher for every number of top-ups, crashes, failed calls   *)
(* and other transactions: types, who runs when (Schedule, Records, Owners), *)
(* that records only advance, that a top-up is credited once (Budget), and   *)
(* why one that is completed was not credited (Answered, Sole).              *)
(***************************************************************************)
EXTENDS DepositWatcher, SumsProofs, SequenceTheorems

-----------------------------------------------------------------------------
(* Types.                                                                  *)

HandlerType == [at : Places, nonce : Nat]

\* Where a handler goes next is a place.
LEMMA GoesToType ==
  ASSUME NEW h \in Handlers, NEW place \in Places,
         handler \in [Handlers -> HandlerType], GoesTo(h, place)
  PROVE  handler' \in [Handlers -> HandlerType]
BY DEF GoesTo, HandlerType

LEMMA AfterLookupType == \A state : AfterLookup(state) \in Places
BY DEF AfterLookup, Places

LEMMA AfterMarkType == \A i : AfterMark(i) \in Places
BY DEF AfterMark, Places

\* What no handler changes.
Elsewhere == <<chain, watcher, found, position, joined, heard, admin_nonce,
               listed, credits, refused, alone, crashes, others>>

LEMMA HandlerStepElsewhere ==
  ASSUME NEW h, HandlerStep(h) PROVE UNCHANGED Elsewhere
BY DEF HandlerStep, Lookup, LookupFails, Save, SaveFails, Mark, WriteState,
       ReadNonce, ReadNonceFails, Send, SendFails, WaitFails, Complete,
       Elsewhere, watcher_vars, rollup_vars

LEMMA HandlerStepPlace ==
  ASSUME TypeOK, NEW h \in Handlers, HandlerStep(h)
  PROVE  handler' \in [Handlers -> HandlerType]
<1>0. /\ handler \in [Handlers -> HandlerType]
      /\ admin_nonce \in Nat
      /\ {"done", "marking", "reading nonce", "sending", "waiting",
          "completing"} \subseteq Places
  BY DEF TypeOK, HandlerType, Places
<1>1. CASE ReadNonce(h)
  BY <1>0, <1>1 DEF ReadNonce, HandlerType
<1>2. CASE Lookup(h)
  BY <1>0, <1>2, GoesToType, AfterLookupType DEF Lookup
<1>3. CASE Mark(h)
  BY <1>0, <1>3, GoesToType, AfterMarkType DEF Mark
<1>4. CASE LookupFails(h) \/ Save(h) \/ SaveFails(h) \/ ReadNonceFails(h)
             \/ Send(h) \/ SendFails(h) \/ WaitFails(h) \/ Complete(h)
  BY <1>0, <1>4, GoesToType
     DEF LookupFails, Save, SaveFails, ReadNonceFails, Send, SendFails,
         WaitFails, Complete
<1> QED
  BY <1>1, <1>2, <1>3, <1>4 DEF HandlerStep

LEMMA HandlerStepRecord ==
  ASSUME TypeOK, NEW h \in Handlers, HandlerStep(h)
  PROVE  /\ record' \in [TopUps -> States]
         /\ lost' \in [TopUps -> Nat]
         /\ failures' \in Nat
<1>0. /\ h[1] \in TopUps
      /\ record \in [TopUps -> States] /\ lost \in [TopUps -> Nat]
      /\ failures \in Nat
      /\ {"pending", "in-progress", "completed"} \subseteq States
  BY DEF TypeOK, Handlers, States
<1>1. CASE Save(h) \/ SaveFails(h)
  BY <1>0, <1>1 DEF Save, SaveFails, Fails, NothingFails
<1>2. ASSUME NEW state \in States, WriteState(h[1], state)
      PROVE  /\ record' \in [TopUps -> States] /\ lost' \in [TopUps -> Nat]
             /\ failures' \in Nat
  BY <1>0, <1>2 DEF WriteState, Fails, NothingFails
<1>3. CASE Mark(h) \/ Complete(h)
  BY <1>0, <1>2, <1>3 DEF Mark, Complete
<1>4. CASE Lookup(h) \/ LookupFails(h) \/ ReadNonce(h) \/ ReadNonceFails(h)
             \/ Send(h) \/ SendFails(h) \/ WaitFails(h)
  <2>1. UNCHANGED <<record, lost>>
    BY <1>4 DEF Lookup, LookupFails, ReadNonce, ReadNonceFails, Abandoned,
                Send, SendFails, WaitFails
  <2>2. failures' \in {failures, failures + 1}
    BY <1>4 DEF Lookup, LookupFails, ReadNonce, ReadNonceFails, Send,
                SendFails, WaitFails, Fails, NothingFails
  <2> QED
    BY <1>0, <2>1, <2>2
<1> QED
  BY <1>1, <1>3, <1>4 DEF HandlerStep

LEMMA HandlerStepQueue ==
  ASSUME TypeOK, NEW h \in Handlers, HandlerStep(h)
  PROVE  queue' \in Seq(Request)
<1>0. queue \in Seq(Request)
  BY DEF TypeOK
<1>1. CASE Send(h)
  <2>1. [event |-> h[1], nonce |-> handler[h].nonce, handler |-> h] \in Request
    BY DEF TypeOK, Handlers, Request
  <2> QED
    BY <1>0, <1>1, <2>1, AppendProperties DEF Send
<1>2. CASE WaitFails(h)
  <2>1. ASSUME NEW request \in Request PROVE Disowned(request) \in Request
    BY DEF Disowned, Request
  <2>2. \A k \in 1 .. Len(queue) : queue[k] \in Request
    BY <1>0
  <2> QED
    BY <1>0, <1>2, <2>1, <2>2 DEF WaitFails
<1>3. CASE ~ Send(h) /\ ~ WaitFails(h)
  BY <1>0, <1>3
     DEF HandlerStep, Lookup, LookupFails, Save, SaveFails, Mark, WriteState,
         ReadNonce, ReadNonceFails, SendFails, Complete, rollup_vars
<1> QED
  BY <1>1, <1>2, <1>3

LEMMA HandlerStepType ==
  ASSUME TypeOK, NEW h \in Handlers, HandlerStep(h)
  PROVE  TypeOK'
BY HandlerStepElsewhere, HandlerStepPlace, HandlerStepRecord, HandlerStepQueue
   DEF TypeOK, Elsewhere, HandlerType

LEMMA ExecuteType == ASSUME TypeOK, Execute PROVE TypeOK'
<1> DEFINE request == Head(queue)
<1>0. queue \in Seq(Request) /\ queue # <<>>
  BY DEF TypeOK, Execute
<1>1. request \in Request
  BY <1>0
<1>2. queue' \in Seq(Request)
  BY <1>0 DEF Execute
<1>3. /\ request.event \in TopUps
      /\ request.handler \in Handlers \cup {NoHandler}
  BY <1>1 DEF Request
<1> HIDE DEF request
<1>4. handler' \in [Handlers -> [at : Places, nonce : Nat]]
  <2>1. \/ handler' = handler
        \/ /\ request.handler \in Handlers
           /\ handler' = [handler EXCEPT ![request.handler].at = "completing"]
    BY <1>3 DEF Execute, request
  <2>2. handler \in [Handlers -> [at : Places, nonce : Nat]]
    BY DEF TypeOK
  <2>3. "completing" \in Places
    BY DEF Places
  <2> QED
    BY <2>1, <2>2, <2>3
<1>5. admin_nonce' \in Nat /\ credits' \in [TopUps -> Nat]
  <2>1. \/ UNCHANGED <<admin_nonce, credits>>
        \/ /\ admin_nonce' = admin_nonce + 1
           /\ credits' = [credits EXCEPT ![request.event] = @ + 1]
    BY DEF Execute, request
  <2>2. admin_nonce \in Nat /\ credits \in [TopUps -> Nat]
    BY DEF TypeOK
  <2> QED
    BY <1>3, <2>1, <2>2
<1>6. refused' \in [TopUps -> {"no", "nonce", "token"}]
  <2>1. \E why \in {"no", "nonce", "token"} :
          \/ UNCHANGED refused
          \/ refused' = [refused EXCEPT ![request.event] = why]
    BY DEF Execute, request
  <2> QED
    BY <1>3, <2>1 DEF TypeOK
<1>7. UNCHANGED <<chain, record, watcher, found, position, joined, heard,
                  listed, lost, alone, crashes, failures, others>>
  BY DEF Execute, watcher_vars, bounds
<1> QED
  BY <1>2, <1>4, <1>5, <1>6, <1>7 DEF TypeOK

\* A handler that begins is one of the handlers.
LEMMA BeginsType ==
  ASSUME TypeOK, NEW i \in TopUps, NEW k \in {Replay, Live}, Begins(<<i, k>>)
  PROVE  handler' \in [Handlers -> [at : Places, nonce : Nat]]
<1>1. <<i, k>> \in Handlers /\ "looking up" \in Places
  BY DEF Handlers, Places
<1> QED
  BY <1>1, GoesToType DEF Begins, TypeOK, HandlerType

LEMMA NextType == TypeOK /\ [Next]_vars => TypeOK'
<1> SUFFICES ASSUME TypeOK, [Next]_vars PROVE TypeOK'
  OBVIOUS
<1> USE DEF watcher_vars, rollup_vars, bounds
<1>1. ASSUME NEW l1token \in L1Tokens, NEW amount \in Amounts,
             TopUp(l1token, amount)
      PROVE  TypeOK'
  <2> DEFINE event == [l1token |-> l1token, amount |-> amount]
  <2>1. /\ chain \in Seq([l1token : L1Tokens, amount : Amounts])
        /\ event \in [l1token : L1Tokens, amount : Amounts]
        /\ chain' = Append(chain, event)
    BY <1>1 DEF TypeOK, TopUp
  <2>2. /\ chain' \in Seq([l1token : L1Tokens, amount : Amounts])
        /\ Len(chain') = Len(chain) + 1
        /\ Len(chain) \in Nat
    BY <2>1
  <2>3. Len(chain') <= MaxTopUps
    BY <1>1, <2>2, WatcherAssumption DEF TopUp
  <2>4. UNCHANGED <<record, watcher, found, position, joined, heard, handler,
                    queue, admin_nonce, listed, credits, refused, lost, alone,
                    crashes, failures, others>>
    BY <1>1 DEF TopUp
  <2> QED
    BY <2>2, <2>3, <2>4 DEF TypeOK
<1>2. ASSUME NEW lists \in BOOLEAN, OtherTransaction(lists) PROVE TypeOK'
  <2>1. listed' \in BOOLEAN
    BY <1>2 DEF OtherTransaction
  <2>2. /\ admin_nonce' = admin_nonce + 1 /\ others' = others + 1
        /\ alone' = FALSE
        /\ UNCHANGED <<chain, record, watcher, found, position, joined, heard,
                       handler, queue, credits, refused, lost, crashes, failures>>
    BY <1>2 DEF OtherTransaction
  <2>3. /\ chain \in Seq([l1token : L1Tokens, amount : Amounts])
        /\ Len(chain) <= MaxTopUps
        /\ record \in [TopUps -> States]
        /\ watcher \in {"down", "starting", "replaying", "listening"}
        /\ found \in 0 .. Len(chain) /\ position \in 0 .. found
        /\ heard \in 0 .. Len(chain) /\ joined \in 0 .. heard
        /\ handler \in [Handlers -> [at : Places, nonce : Nat]]
        /\ queue \in Seq(Request)
        /\ credits \in [TopUps -> Nat]
        /\ lost \in [TopUps -> Nat]
        /\ refused \in [TopUps -> {"no", "nonce", "token"}]
        /\ crashes \in Nat /\ failures \in Nat
    BY DEF TypeOK
  <2>4. admin_nonce' \in Nat /\ others' \in Nat
    BY <2>2 DEF TypeOK
  <2> QED
    BY <2>1, <2>2, <2>3, <2>4, Zenon DEF TypeOK
<1>3. CASE Execute
  BY <1>3, ExecuteType
<1>4. ASSUME NEW h \in Handlers, HandlerStep(h) PROVE TypeOK'
  BY <1>4, HandlerStepType
<1>5. CASE Start
  BY <1>5 DEF TypeOK, Start
<1>6. CASE Query
  <2>1. /\ found' \in 0 .. Len(chain) /\ position' = 0
        /\ watcher' = "replaying" /\ failures' \in Nat
    BY <1>6 DEF TypeOK, Query, Events, Fails, NothingFails
  <2>2. UNCHANGED <<chain, record, joined, heard, handler, queue, admin_nonce,
                    listed, credits, refused, lost, alone, crashes, others>>
    BY <1>6 DEF Query
  <2> QED
    BY <2>1, <2>2 DEF TypeOK
<1>7. CASE ReplayNext
  <2>1. position + 1 \in 0 .. found /\ position + 1 \in TopUps
    BY <1>7, WatcherAssumption DEF TypeOK, ReplayNext, TopUps
  <2>2. handler' \in [Handlers -> [at : Places, nonce : Nat]]
    BY <1>7, <2>1, BeginsType DEF ReplayNext
  <2> QED
    BY <1>7, <2>1, <2>2 DEF TypeOK, ReplayNext
<1>8. CASE Subscribe
  BY <1>8 DEF TypeOK, Subscribe
<1>9. CASE Deliver
  <2>1. heard + 1 \in 0 .. Len(chain) /\ heard + 1 \in TopUps
    BY <1>9, WatcherAssumption DEF TypeOK, Deliver, TopUps
  <2>2. handler' \in [Handlers -> [at : Places, nonce : Nat]]
    BY <1>9, <2>1, BeginsType DEF Deliver
  <2>3. joined' \in 0 .. heard'
    BY <1>9 DEF TypeOK, Deliver
  <2> QED
    BY <1>9, <2>1, <2>2, <2>3 DEF TypeOK, Deliver
<1>10. CASE Crash
  <2>1. queue' \in Seq(Request)
    <3>1. ASSUME NEW request \in Request PROVE Disowned(request) \in Request
      BY DEF Disowned, Request
    <3>2. queue \in Seq(Request)
      BY DEF TypeOK
    <3>3. \A k \in 1 .. Len(queue) : queue[k] \in Request
      BY <3>2
    <3> QED
      BY <1>10, <3>1, <3>2, <3>3 DEF Crash
  <2>2. handler' \in [Handlers -> [at : Places, nonce : Nat]]
    BY <1>10 DEF Crash, Idle, Places
  <2> QED
    BY <1>10, <2>1, <2>2 DEF TypeOK, Crash
<1>11. CASE UNCHANGED vars
  BY <1>11 DEF TypeOK, vars
<1> QED
  BY <1>1, <1>2, <1>3, <1>4, <1>5, <1>6, <1>7, <1>8, <1>9, <1>10, <1>11 DEF Next

LEMMA InitType == Init => TypeOK
BY WatcherAssumption DEF Init, TypeOK, Idle, Places, States

\* Every record keeps one of its states, every handler is at one of its awaits,
\* and the replay and the subscription stay within the events there are.
THEOREM WatcherTypeCorrect == Spec => []TypeOK
BY InitType, NextType, PTL DEF Spec

-----------------------------------------------------------------------------
(* Who runs when.  The replay and the subscription never have a handler of  *)
(* the same event, and a handler about to write a record has read what is    *)
(* still there.                                                            *)

Busy(h) == handler[h].at # "idle"

Schedule ==
  /\ watcher \in {"down", "starting"} => \A h \in Handlers : ~ Busy(h)
  /\ \A i \in TopUps : Busy(<<i, Replay>>) => i <= position
  /\ \A i \in TopUps :
       Busy(<<i, Live>>) => watcher = "listening" /\ joined < i /\ i <= heard
  /\ watcher = "listening" => found <= joined

Records ==
  \A h \in Handlers :
    /\ handler[h].at = "saving" => record[h[1]] = "none"
    /\ handler[h].at = "marking" => record[h[1]] = "pending"

\* A request whose answer somebody waits for is the only one of its sender.
Owners ==
  \A k \in 1 .. Len(queue) : queue[k].handler # NoHandler =>
    /\ handler[queue[k].handler].at = "waiting"
    /\ \A j \in 1 .. Len(queue) : j # k => queue[j].handler # queue[k].handler

Alone == TypeOK /\ Schedule /\ Records /\ Owners

LEMMA QueueTypes ==
  ASSUME TypeOK
  PROVE  /\ queue \in Seq(Request) /\ Len(queue) \in Nat
         /\ \A k \in 1 .. Len(queue) :
              /\ queue[k] \in Request
              /\ queue[k].event \in TopUps
              /\ queue[k].handler \in Handlers \cup {NoHandler}
         /\ handler \in [Handlers -> HandlerType]
         /\ NoHandler \notin Handlers
<1>1. queue \in Seq(Request) /\ handler \in [Handlers -> HandlerType]
  BY DEF TypeOK, HandlerType
<1>2. Len(queue) \in Nat /\ \A k \in 1 .. Len(queue) : queue[k] \in Request
  BY <1>1
<1>3. ASSUME NEW r \in Request
      PROVE  r.event \in TopUps /\ r.handler \in Handlers \cup {NoHandler}
  BY DEF Request
<1>4. NoHandler \notin Handlers
  BY DEF NoHandler, Handlers, TopUps
<1> QED
  BY <1>1, <1>2, <1>3, <1>4

\* A disowned request waits for nobody.
LEMMA DisownedRequest ==
  ASSUME NEW request \in Request
  PROVE  /\ Disowned(request).handler = NoHandler
         /\ Disowned(request).event = request.event
BY DEF Disowned, Request

\* Of the two handlers of an event one is idle.
LEMMA OneHandler ==
  ASSUME TypeOK, Schedule, NEW h \in Handlers, NEW g \in Handlers,
         h # g, h[1] = g[1], Busy(h)
  PROVE  ~ Busy(g)
<1>1. PICK i \in TopUps : \/ h = <<i, Replay>> /\ g = <<i, Live>>
                          \/ h = <<i, Live>> /\ g = <<i, Replay>>
  BY DEF Handlers
<1>2. ~ (Busy(<<i, Replay>>) /\ Busy(<<i, Live>>))
  <2>1. i \in Int /\ position \in Int /\ joined \in Int /\ found \in Int
        /\ position <= found
    BY DEF TypeOK, TopUps
  <2> QED
    BY <2>1 DEF Schedule
<1> QED
  BY <1>1, <1>2

\* A step of a handler changes this handler and its record only.
LEMMA HandlerStepLocal ==
  ASSUME TypeOK, NEW h \in Handlers, HandlerStep(h)
  PROVE  /\ Busy(h)
         /\ \A g \in Handlers : g # h => handler'[g] = handler[g]
         /\ \A i \in TopUps : i # h[1] => record'[i] = record[i]
<1>0. /\ h[1] \in TopUps
      /\ record \in [TopUps -> States]
      /\ handler \in [Handlers -> HandlerType]
  BY DEF TypeOK, Handlers, HandlerType
<1>1. Busy(h)
  BY DEF HandlerStep, Lookup, LookupFails, Save, SaveFails, Mark, ReadNonce,
         ReadNonceFails, Send, SendFails, WaitFails, Complete, Busy
<1>2. \A g \in Handlers : g # h => handler'[g] = handler[g]
  BY <1>0 DEF HandlerStep, Lookup, LookupFails, Save, SaveFails, Mark, GoesTo,
              ReadNonce, ReadNonceFails, Send, SendFails, WaitFails, Complete
<1>3. \A i \in TopUps : i # h[1] => record'[i] = record[i]
  BY <1>0 DEF HandlerStep, Lookup, LookupFails, Save, SaveFails, Mark,
              WriteState, ReadNonce, ReadNonceFails, Abandoned, Send,
              SendFails, WaitFails, Complete
<1> QED
  BY <1>1, <1>2, <1>3

\* The schedule, the records and the owners under a step of a handler.
LEMMA HandlerStepAlone ==
  ASSUME Alone, NEW h \in Handlers, HandlerStep(h)
  PROVE  Schedule' /\ Records' /\ Owners'
<1>0. TypeOK /\ Schedule /\ Records /\ Owners
  BY DEF Alone
<1>1. Schedule'
  <2>1. \A g \in Handlers : Busy(g)' => Busy(g)
    BY <1>0, HandlerStepLocal DEF Busy
  <2>2. UNCHANGED <<watcher, position, joined, heard, found>>
    BY HandlerStepElsewhere DEF Elsewhere
  <2>3. \A i \in TopUps : <<i, Replay>> \in Handlers /\ <<i, Live>> \in Handlers
    BY DEF Handlers
  <2> HIDE DEF Busy
  <2> QED
    BY <1>0, <2>1, <2>2, <2>3 DEF Schedule
<1>2. ASSUME NEW g \in Handlers
      PROVE  /\ (handler[g].at = "saving" => record[g[1]] = "none")'
             /\ (handler[g].at = "marking" => record[g[1]] = "pending")'
  <2>1. CASE g = h
    <3>0. /\ h[1] \in TopUps
          /\ record \in [TopUps -> States]
          /\ handler \in [Handlers -> HandlerType]
      BY <1>0 DEF TypeOK, Handlers, HandlerType
    <3>1. CASE Lookup(h)
      <4>1. /\ AfterLookup(record[h[1]]) = "saving" => record[h[1]] = "none"
            /\ AfterLookup(record[h[1]]) = "marking" => record[h[1]] = "pending"
        BY DEF AfterLookup
      <4>2. /\ handler'[h].at = IF chain[h[1]].l1token # FirstToken THEN "done"
                                ELSE AfterLookup(record[h[1]])
            /\ record' = record
        BY <3>0, <3>1 DEF Lookup, GoesTo, HandlerType
      <4> QED
        BY <2>1, <4>1, <4>2
    <3>2. CASE Save(h)
      <4>1. handler'[h].at = "marking" /\ record'[h[1]] = "pending"
        BY <3>0, <3>2 DEF Save, GoesTo, HandlerType
      <4> QED
        BY <2>1, <4>1
    <3>3. CASE Mark(h)
      <4>1. handler'[h].at \in {"completing", "reading nonce"}
        BY <3>0, <3>3 DEF Mark, GoesTo, AfterMark, HandlerType
      <4> QED
        BY <2>1, <4>1
    <3>4. CASE ReadNonce(h)
      <4>1. handler'[h].at = "sending"
        BY <3>0, <3>4 DEF ReadNonce, HandlerType
      <4> QED
        BY <2>1, <4>1
    <3>5. CASE \/ LookupFails(h) \/ SaveFails(h) \/ ReadNonceFails(h) \/ Send(h)
               \/ SendFails(h) \/ WaitFails(h) \/ Complete(h)
      <4>1. handler'[h].at \in {"done", "waiting", "completing"}
        BY <3>0, <3>5 DEF LookupFails, SaveFails, ReadNonceFails, Send,
                          SendFails, WaitFails, Complete, GoesTo, HandlerType
      <4> QED
        BY <2>1, <4>1
    <3> QED
      BY <3>1, <3>2, <3>3, <3>4, <3>5 DEF HandlerStep
  <2>2. CASE g # h /\ g[1] = h[1]
    <3>1. handler'[g] = handler[g] /\ ~ Busy(g)
      BY <1>0, <2>2, HandlerStepLocal, OneHandler
    <3> QED
      BY <3>1 DEF Busy
  <2>3. CASE g # h /\ g[1] # h[1]
    <3>1. handler'[g] = handler[g] /\ record'[g[1]] = record[g[1]]
      BY <1>0, <2>3, HandlerStepLocal DEF Handlers
    <3> QED
      BY <1>0, <3>1 DEF Records
  <2> QED
    BY <2>1, <2>2, <2>3
<1>3. Owners'
  <2>0. /\ queue \in Seq(Request) /\ Len(queue) \in Nat
        /\ \A k \in 1 .. Len(queue) :
             queue[k].handler # NoHandler => queue[k].handler \in Handlers
        /\ handler \in [Handlers -> HandlerType]
        /\ NoHandler \notin Handlers
    BY <1>0, QueueTypes
  <2>1. CASE Send(h)
    <3> DEFINE request == [event |-> h[1], nonce |-> handler[h].nonce,
                           handler |-> h]
    <3>1. /\ handler[h].at = "sending" /\ handler'[h].at = "waiting"
          /\ queue' = Append(queue, request) /\ request.handler = h
      BY <2>0, <2>1 DEF Send, GoesTo, HandlerType
    <3> HIDE DEF request
    <3>2. /\ Len(queue') = Len(queue) + 1
          /\ queue'[Len(queue) + 1] = request
          /\ \A k \in 1 .. Len(queue) : queue'[k] = queue[k]
      BY <2>0, <3>1
    <3>3. \A k \in 1 .. Len(queue) : queue[k].handler # h
      BY <1>0, <2>0, <3>1 DEF Owners
    <3>4. ASSUME NEW k \in 1 .. Len(queue'), queue'[k].handler # NoHandler
          PROVE  /\ handler'[queue'[k].handler].at = "waiting"
                 /\ \A j \in 1 .. Len(queue') :
                      j # k => queue'[j].handler # queue'[k].handler
      <4>1. CASE k = Len(queue) + 1
        BY <2>0, <3>1, <3>2, <3>3, <4>1
      <4>2. CASE k \in 1 .. Len(queue)
        <5>1. /\ queue[k].handler \in Handlers /\ queue[k].handler # h
              /\ queue'[k] = queue[k]
          BY <2>0, <3>2, <3>3, <3>4, <4>2
        <5>2. handler'[queue[k].handler] = handler[queue[k].handler]
          BY <1>0, <5>1, HandlerStepLocal
        <5> QED
          BY <1>0, <2>0, <3>1, <3>2, <4>2, <5>1, <5>2 DEF Owners
      <4> QED
        BY <2>0, <3>2, <4>1, <4>2
    <3> QED
      BY <3>4 DEF Owners
  <2>2. CASE WaitFails(h)
    <3>1. /\ Len(queue') = Len(queue)
          /\ \A k \in 1 .. Len(queue) :
               queue'[k].handler = IF queue[k].handler = h THEN NoHandler
                                   ELSE queue[k].handler
      <4>1. \A k \in 1 .. Len(queue) :
              queue[k] \in Request /\ Disowned(queue[k]).handler = NoHandler
        BY <1>0, QueueTypes, DisownedRequest
      <4> QED
        BY <2>0, <2>2, <4>1 DEF WaitFails
    <3>2. ASSUME NEW g \in Handlers, g # h PROVE handler'[g] = handler[g]
      BY <1>0, <3>2, HandlerStepLocal
    <3> QED
      BY <1>0, <2>0, <3>1, <3>2 DEF Owners
  <2>3. CASE ~ Send(h) /\ ~ WaitFails(h)
    <3>1. UNCHANGED queue /\ handler[h].at # "waiting"
      BY <2>3 DEF HandlerStep, Lookup, LookupFails, Save, SaveFails, Mark,
                  WriteState, ReadNonce, ReadNonceFails, SendFails, Complete,
                  rollup_vars
    <3>2. ASSUME NEW g \in Handlers, g # h PROVE handler'[g] = handler[g]
      BY <1>0, <3>2, HandlerStepLocal
    <3> QED
      BY <1>0, <2>0, <3>1, <3>2 DEF Owners
  <2> QED
    BY <2>1, <2>2, <2>3
<1> QED
  BY <1>1, <1>2, <1>3 DEF Records

\* A handler begins that was idle.
LEMMA BeginsAlone ==
  ASSUME Alone, NEW h \in Handlers, Begins(h), ~ Busy(h),
         UNCHANGED <<record, queue>>
  PROVE  /\ Records' /\ Owners'
         /\ \A g \in Handlers : g # h => handler'[g] = handler[g]
<1>1. handler \in [Handlers -> HandlerType]
  BY DEF Alone, TypeOK, HandlerType
<1>2. handler'[h].at = "looking up"
  BY <1>1 DEF Begins, GoesTo, HandlerType
<1>3. \A g \in Handlers : g # h => handler'[g] = handler[g]
  BY <1>1 DEF Begins, GoesTo
<1>4. \A k \in 1 .. Len(queue) :
        queue[k].handler # NoHandler => queue[k].handler \in Handlers
  BY QueueTypes DEF Alone
<1>5. Owners'
  BY <1>3, <1>4 DEF Alone, Owners, Busy
<1>6. Records'
  BY <1>2, <1>3 DEF Alone, Records
<1> QED
  BY <1>3, <1>5, <1>6

\* They are an invariant.
LEMMA NextAlone == Alone /\ [Next]_vars => Alone'
<1> SUFFICES ASSUME Alone, [Next]_vars PROVE Alone'
  OBVIOUS
<1>0. TypeOK /\ Schedule /\ Records /\ Owners /\ TypeOK'
  BY NextType DEF Alone
<1>1. \A i \in TopUps : <<i, Replay>> \in Handlers /\ <<i, Live>> \in Handlers
  BY DEF Handlers
<1> SUFFICES Schedule' /\ Records' /\ Owners'
  BY <1>0 DEF Alone
<1>2. CASE \/ \E l1token \in L1Tokens, amount \in Amounts : TopUp(l1token, amount)
           \/ \E lists \in BOOLEAN : OtherTransaction(lists)
           \/ UNCHANGED vars
  BY <1>0, <1>2 DEF TopUp, OtherTransaction, vars, watcher_vars, rollup_vars,
                    Schedule, Records, Owners, Busy
<1>3. CASE Execute
  <2>1. UNCHANGED <<record, watcher, position, joined, heard, found>>
    BY <1>3 DEF Execute, watcher_vars
  <2> DEFINE owner == queue[1].handler
  <2>2. /\ queue \in Seq(Request) /\ Len(queue) \in Nat /\ 1 \in 1 .. Len(queue)
        /\ owner \in Handlers \cup {NoHandler}
        /\ handler \in [Handlers -> HandlerType]
        /\ NoHandler \notin Handlers
        /\ \A k \in 1 .. Len(queue) :
             queue[k].handler # NoHandler => queue[k].handler \in Handlers
    <3>1. queue \in Seq(Request) /\ queue # <<>>
      BY <1>0, <1>3, QueueTypes DEF Execute
    <3>2. 1 \in 1 .. Len(queue)
      BY <3>1
    <3> QED
      BY <1>0, <3>2, QueueTypes
  <2>3. /\ handler' = IF owner = NoHandler THEN handler
                      ELSE [handler EXCEPT ![owner].at = "completing"]
        /\ Len(queue') = Len(queue) - 1
        /\ \A k \in 1 .. Len(queue') : k + 1 \in 1 .. Len(queue)
                                       /\ queue'[k] = queue[k + 1]
    <3>1. Head(queue) = queue[1] /\ queue' = Tail(queue)
      BY <1>3, <2>2 DEF Execute
    <3>2. handler' = IF owner = NoHandler THEN handler
                     ELSE [handler EXCEPT ![owner].at = "completing"]
      BY <1>3, <3>1 DEF Execute
    <3>3. /\ Len(queue') = Len(queue) - 1
          /\ \A k \in 1 .. Len(queue') : k + 1 \in 1 .. Len(queue)
                                         /\ queue'[k] = queue[k + 1]
      BY <2>2, <3>1
    <3> QED
      BY <3>2, <3>3
  <2> HIDE DEF owner
  <2>4. ASSUME NEW g \in Handlers
        PROVE  \/ g # owner /\ handler'[g] = handler[g]
               \/ Busy(g) /\ handler'[g].at = "completing"
    <3>1. g = owner => handler[g].at = "waiting"
      BY <1>0, <2>2 DEF Owners, owner
    <3> QED
      BY <2>2, <2>3, <3>1 DEF Busy, HandlerType
  <2>5. Schedule' /\ Records'
    BY <1>0, <1>1, <2>1, <2>4 DEF Schedule, Records, Busy
  <2>6. ASSUME NEW k \in 1 .. Len(queue'), queue'[k].handler # NoHandler
        PROVE  /\ handler'[queue'[k].handler].at = "waiting"
               /\ \A j \in 1 .. Len(queue') :
                    j # k => queue'[j].handler # queue'[k].handler
    <3>1. /\ k + 1 \in 1 .. Len(queue) /\ k + 1 # 1
          /\ queue'[k] = queue[k + 1] /\ k \in Int
      BY <2>2, <2>3
    <3>2. queue[k + 1].handler \in Handlers /\ queue[k + 1].handler # owner
      BY <1>0, <2>2, <2>6, <3>1 DEF Owners, owner
    <3>3. handler'[queue[k + 1].handler] = handler[queue[k + 1].handler]
      BY <2>2, <2>3, <3>2
    <3>4. \A j \in 1 .. Len(queue') :
            j # k => queue[j + 1].handler # queue[k + 1].handler
      BY <1>0, <2>2, <2>3, <2>6, <3>1 DEF Owners
    <3> QED
      BY <1>0, <2>3, <2>6, <3>1, <3>3, <3>4 DEF Owners
  <2> QED
    BY <2>5, <2>6 DEF Owners
<1>4. ASSUME NEW h \in Handlers, HandlerStep(h)
      PROVE  Schedule' /\ Records' /\ Owners'
  BY <1>4, HandlerStepAlone
<1>5. CASE Start
  BY <1>0, <1>5 DEF Start, rollup_vars, Schedule, Records, Owners, Busy
<1>6. CASE Query
  <2>1. UNCHANGED <<handler, record, queue>> /\ watcher = "starting"
        /\ watcher' = "replaying"
    BY <1>6 DEF Query, rollup_vars
  <2>2. \A h \in Handlers : ~ Busy(h) /\ handler'[h] = handler[h]
    BY <1>0, <2>1 DEF Schedule
  <2>3. Schedule'
    <3>1. \A h \in Handlers : ~ Busy(h)'
      BY <2>1, <2>2 DEF Busy
    <3> QED
      BY <1>1, <2>1, <3>1 DEF Schedule
  <2>4. Records' /\ Owners'
    BY <1>0, <2>1 DEF Records, Owners
  <2> QED
    BY <2>3, <2>4
<1>7. CASE ReplayNext
  <2>1. <<position + 1, Replay>> \in Handlers
    BY <1>0, <1>7, WatcherAssumption DEF ReplayNext, TypeOK, Handlers, TopUps
  <2>0. ~ Busy(<<position + 1, Replay>>)
    BY <1>0, <1>7, <2>1 DEF Schedule, ReplayNext, TypeOK, Handlers
  <2>2. /\ Records' /\ Owners'
        /\ \A g \in Handlers : g # <<position + 1, Replay>> => handler'[g] = handler[g]
    BY <1>7, <2>1, <2>0, BeginsAlone DEF ReplayNext, rollup_vars
  <2>3. /\ position \in Int /\ position' = position + 1
        /\ watcher = "replaying" /\ UNCHANGED <<watcher, found, joined, heard>>
    BY <1>0, <1>7 DEF ReplayNext, TypeOK
  <2>4. ASSUME NEW i \in TopUps, Busy(<<i, Replay>>)' PROVE i <= position'
    <3>1. CASE i = position + 1
      BY <2>3, <3>1
    <3>2. CASE i # position + 1
      <4>1. Busy(<<i, Replay>>)
        BY <1>1, <2>2, <2>4, <3>2 DEF Busy
      <4> QED
        BY <1>0, <2>3, <4>1 DEF Schedule, TopUps
    <3> QED
      BY <3>1, <3>2
  <2>5. ASSUME NEW i \in TopUps, Busy(<<i, Live>>)' PROVE Busy(<<i, Live>>)
    <3>1. <<i, Live>> # <<position + 1, Replay>>
      BY DEF Replay, Live
    <3>2. handler'[<<i, Live>>] = handler[<<i, Live>>]
      BY <1>1, <2>2, <3>1
    <3> QED
      BY <2>5, <3>2 DEF Busy
  <2> QED
    BY <1>0, <2>2, <2>3, <2>4, <2>5 DEF Schedule
<1>8. CASE Subscribe
  <2>1. /\ UNCHANGED <<handler, record, queue, position, found>>
        /\ watcher = "replaying" /\ watcher' = "listening"
        /\ joined' = Len(chain)
    BY <1>8 DEF Subscribe, rollup_vars
  <2>2. found <= joined'
    BY <1>0, <2>1 DEF TypeOK
  <2> QED
    BY <1>0, <2>1, <2>2 DEF Schedule, Records, Owners, Busy
<1>9. CASE Deliver
  <2>1. <<heard + 1, Live>> \in Handlers
    BY <1>0, <1>9, WatcherAssumption DEF Deliver, TypeOK, Handlers, TopUps
  <2>0. ~ Busy(<<heard + 1, Live>>)
    BY <1>0, <1>9, <2>1 DEF Schedule, Deliver, TypeOK, Handlers
  <2>2. /\ Records' /\ Owners'
        /\ \A g \in Handlers : g # <<heard + 1, Live>> => handler'[g] = handler[g]
    BY <1>9, <2>1, <2>0, BeginsAlone DEF Deliver, rollup_vars
  <2>3. /\ heard \in Int /\ joined \in Int /\ joined <= heard
        /\ heard' = heard + 1
        /\ watcher = "listening" /\ UNCHANGED <<watcher, found, joined, position>>
    BY <1>0, <1>9 DEF Deliver, TypeOK
  <2>4. ASSUME NEW i \in TopUps, Busy(<<i, Live>>)'
        PROVE  joined < i /\ i <= heard'
    <3>1. CASE i = heard + 1
      BY <2>3, <3>1
    <3>2. CASE i # heard + 1
      <4>1. Busy(<<i, Live>>)
        BY <1>1, <2>2, <2>4, <3>2 DEF Busy
      <4> QED
        BY <1>0, <2>3, <4>1 DEF Schedule, TopUps
    <3> QED
      BY <3>1, <3>2
  <2>5. ASSUME NEW i \in TopUps, Busy(<<i, Replay>>)' PROVE Busy(<<i, Replay>>)
    <3>1. <<i, Replay>> # <<heard + 1, Live>>
      BY DEF Replay, Live
    <3>2. handler'[<<i, Replay>>] = handler[<<i, Replay>>]
      BY <1>1, <2>2, <3>1
    <3> QED
      BY <2>5, <3>2 DEF Busy
  <2> QED
    BY <1>0, <2>2, <2>3, <2>4, <2>5 DEF Schedule
<1>10. CASE Crash
  <2>1. \A h \in Handlers : ~ Busy(h)' /\ handler'[h].at = "idle"
    BY <1>10 DEF Crash, Idle, Busy
  <2>2. watcher' = "down"
    BY <1>10 DEF Crash
  <2>3. /\ Len(queue') = Len(queue)
        /\ \A k \in 1 .. Len(queue) : queue'[k].handler = NoHandler
    <3>1. /\ queue \in Seq(Request)
          /\ \A k \in 1 .. Len(queue) : queue[k] \in Request
      BY <1>0, QueueTypes
    <3>2. \A k \in 1 .. Len(queue) : Disowned(queue[k]).handler = NoHandler
      BY <3>1, DisownedRequest
    <3> QED
      BY <1>10, <3>1, <3>2 DEF Crash
  <2> QED
    BY <1>1, <2>1, <2>2, <2>3 DEF Schedule, Records, Owners
<1> QED
  BY <1>2, <1>3, <1>4, <1>5, <1>6, <1>7, <1>8, <1>9, <1>10 DEF Next

LEMMA InitAlone == Init => Alone
<1> SUFFICES ASSUME Init PROVE Alone
  OBVIOUS
<1>1. \A h \in Handlers : ~ Busy(h) /\ handler[h].at = "idle"
  BY DEF Init, Idle, Busy
<1>2. \A i \in TopUps : <<i, Replay>> \in Handlers /\ <<i, Live>> \in Handlers
  BY DEF Handlers
<1>3. TypeOK
  BY InitType
<1>4. Len(queue) = 0 /\ watcher = "down"
  BY DEF Init
<1>5. Schedule
  BY <1>1, <1>2, <1>4 DEF Schedule
<1>6. Records /\ Owners
  BY <1>1, <1>4 DEF Records, Owners
<1> QED
  BY <1>3, <1>5, <1>6 DEF Alone

-----------------------------------------------------------------------------
(* No handler takes a record back.                                         *)

\* The order of the states of a record.
LEMMA RankIncreases ==
  Rank("none") = 0 /\ Rank("pending") = 1 /\ Rank("in-progress") = 2
    /\ Rank("completed") = 3 /\ \A state \in States : Rank(state) \in 0 .. 3
BY DEF Rank, States

\* The step of a handler takes no record back.
LEMMA HandlerStepAdvances ==
  ASSUME Alone, NEW h \in Handlers, HandlerStep(h), NEW i \in TopUps
  PROVE  Rank(record[i]) <= Rank(record'[i])
<1>0. /\ record \in [TopUps -> States] /\ h[1] \in TopUps
      /\ Rank(record[i]) \in 0 .. 3
      /\ handler[h].at = "saving" => record[h[1]] = "none"
      /\ handler[h].at = "marking" => record[h[1]] = "pending"
  BY RankIncreases DEF Alone, TypeOK, Records, Handlers
<1>1. CASE i = h[1]
  <2>1. \/ record'[i] = record[i]
        \/ record[i] = "none" /\ record'[i] = "pending"
        \/ record[i] = "pending" /\ record'[i] = "in-progress"
        \/ record'[i] = "completed"
    BY <1>0, <1>1
       DEF HandlerStep, Lookup, LookupFails, Save, SaveFails, Mark, WriteState,
           ReadNonce, ReadNonceFails, Abandoned, Send, SendFails, WaitFails,
           Complete
  <2> QED
    BY <1>0, <2>1, RankIncreases
<1>2. CASE i # h[1]
  <2>1. record'[i] = record[i]
    BY <1>2, HandlerStepLocal DEF Alone
  <2> QED
    BY <1>0, <2>1
<1> QED
  BY <1>1, <1>2

\* No handler, of this or of an earlier start of the watcher, takes a record
\* back: a record is saved only where there is none, and marked as in progress
\* only while it is pending.
THEOREM RecordsAdvance == Spec => RecordsOnlyAdvance
<1>1. ASSUME Alone, [Next]_vars
      PROVE  [\A i \in TopUps : Rank(record[i]) <= Rank(record'[i])]_vars
  <2>1. CASE \E h \in Handlers : HandlerStep(h)
    BY <1>1, <2>1, HandlerStepAdvances
  <2>2. CASE ~ \E h \in Handlers : HandlerStep(h)
    <3>1. UNCHANGED record
      BY <1>1, <2>2 DEF Next, TopUp, OtherTransaction, Execute, Start, Query,
                        ReplayNext, Subscribe, Deliver, Crash, vars
    <3>2. ASSUME NEW i \in TopUps PROVE Rank(record[i]) \in 0 .. 3
      BY <1>1, RankIncreases DEF Alone, TypeOK
    <3> QED
      BY <3>1, <3>2
  <2> QED
    BY <2>1, <2>2
<1> QED
  BY <1>1, InitAlone, NextAlone, PTL DEF Spec, RecordsOnlyAdvance

-----------------------------------------------------------------------------
(* A top-up is credited once.  It has one unit to spend: while its record    *)
(* can still be taken up, or a handler is about to send its deposit, or the  *)
(* deposit waits in the rollup, or once it is credited.  Only a write of its  *)
(* record that fails adds one.                                             *)

Has(request, i) == IF request.event = i THEN 1 ELSE 0
InQueue(q, i) == [k \in 1 .. Len(q) |-> Has(q[k], i)]
InFlight(q, i) == SumTo(InQueue(q, i), Len(q))
Sends(h) == IF handler[h].at \in {"reading nonce", "sending"} THEN 1 ELSE 0
Untried(i) == IF record[i] \in {"none", "pending"} THEN 1 ELSE 0

Budget ==
  \A i \in TopUps :
    credits[i] + InFlight(queue, i) + Sends(<<i, Replay>>) + Sends(<<i, Live>>)
      + Untried(i) <= 1 + lost[i]

\* How the number of requests of an event follows the queue.
LEMMA InFlightNat ==
  ASSUME NEW q \in Seq(Request), NEW i
  PROVE  InFlight(q, i) \in Nat
<1>1. Len(q) \in Nat /\ \A k \in 1 .. Len(q) : InQueue(q, i)[k] \in Nat
  BY DEF InQueue, Has
<1> QED
  BY <1>1, SumToNat DEF InFlight

LEMMA InFlightSame ==
  ASSUME NEW p \in Seq(Request), NEW q \in Seq(Request), NEW i,
         Len(p) = Len(q), \A k \in 1 .. Len(p) : p[k].event = q[k].event
  PROVE  InFlight(p, i) = InFlight(q, i)
<1>1. \A k \in 1 .. Len(p) : InQueue(p, i)[k] = InQueue(q, i)[k]
  BY DEF InQueue, Has
<1>2. Len(p) \in Nat
  OBVIOUS
<1> QED
  BY <1>1, <1>2, SumToSameTerms DEF InFlight

LEMMA InFlightAppend ==
  ASSUME NEW q \in Seq(Request), NEW request \in Request, NEW i
  PROVE  InFlight(Append(q, request), i) = InFlight(q, i) + Has(request, i)
<1> DEFINE p == Append(q, request)
<1>1. /\ Len(q) \in Nat /\ Len(p) = Len(q) + 1 /\ p[Len(q) + 1] = request
      /\ \A k \in 1 .. Len(q) : p[k] = q[k]
  OBVIOUS
<1> HIDE DEF p
<1>2. /\ \A k \in 1 .. Len(q) : InQueue(q, i)[k] = InQueue(p, i)[k]
      /\ InQueue(p, i)[Len(q) + 1] = Has(request, i)
  BY <1>1 DEF InQueue
<1>3. SumTo(InQueue(p, i), Len(q) + 1)
        = SumTo(InQueue(q, i), Len(q)) + InQueue(p, i)[Len(q) + 1]
  BY <1>1, <1>2, SumToAppend
<1> QED
  BY <1>1, <1>2, <1>3 DEF InFlight, p

LEMMA InFlightTail ==
  ASSUME NEW q \in Seq(Request), NEW i, q # <<>>
  PROVE  InFlight(q, i) = Has(q[1], i) + InFlight(Tail(q), i)
<1> DEFINE p == Tail(q)
<1>1. /\ Len(p) \in Nat /\ Len(q) = Len(p) + 1
      /\ \A k \in 1 .. Len(p) : p[k] = q[k + 1]
  OBVIOUS
<1> HIDE DEF p
<1>2. /\ \A k \in 1 .. Len(p) + 1 : InQueue(q, i)[k] \in Int
      /\ \A k \in 1 .. Len(p) : InQueue(p, i)[k] = InQueue(q, i)[k + 1]
      /\ InQueue(q, i)[1] = Has(q[1], i)
  BY <1>1 DEF InQueue, Has
<1>3. SumTo(InQueue(q, i), Len(p) + 1)
        = InQueue(q, i)[1] + SumTo(InQueue(p, i), Len(p))
  BY <1>1, <1>2, SumToTail
<1> QED
  BY <1>1, <1>2, <1>3 DEF InFlight, p

\* Every part of the budget is a natural.
LEMMA BudgetTypes ==
  ASSUME TypeOK, NEW i \in TopUps
  PROVE  /\ credits[i] \in Nat /\ lost[i] \in Nat
         /\ InFlight(queue, i) \in Nat
         /\ Untried(i) \in 0 .. 1 /\ \A h : Sends(h) \in 0 .. 1
<1>1. credits[i] \in Nat /\ lost[i] \in Nat
  BY DEF TypeOK
<1>2. InFlight(queue, i) \in Nat
  BY QueueTypes, InFlightNat
<1>3. Untried(i) \in 0 .. 1 /\ \A h : Sends(h) \in 0 .. 1
  BY DEF Untried, Sends
<1> QED
  BY <1>1, <1>2, <1>3

\* What a step of a handler does to its own event.
LEMMA HandlerStepSpends ==
  ASSUME Alone, Alone', NEW h \in Handlers, HandlerStep(h), NEW i, i = h[1]
  PROVE  InFlight(queue', i) + Sends(h)' + Untried(i)' - lost'[i]
           <= InFlight(queue, i) + Sends(h) + Untried(i) - lost[i]
<1>0. /\ TypeOK /\ TypeOK' /\ i \in TopUps
      /\ record \in [TopUps -> States] /\ lost \in [TopUps -> Nat]
      /\ handler \in [Handlers -> HandlerType]
      /\ handler[h].at = "saving" => record[i] = "none"
      /\ handler[h].at = "marking" => record[i] = "pending"
  BY DEF Alone, TypeOK, Records, Handlers, HandlerType
<1>1. /\ lost[i] \in Nat /\ lost'[i] \in Nat
      /\ InFlight(queue, i) \in Nat /\ InFlight(queue', i) \in Nat
      /\ Untried(i) \in 0 .. 1 /\ Untried(i)' \in 0 .. 1
      /\ Sends(h) \in 0 .. 1 /\ Sends(h)' \in 0 .. 1
  <2>1. InFlight(queue', i) \in Nat
    BY <1>0, InFlightNat DEF TypeOK
  <2>2. Untried(i)' \in 0 .. 1 /\ Sends(h)' \in 0 .. 1
    BY DEF Untried, Sends
  <2>3. lost'[i] \in Nat
    BY <1>0 DEF TypeOK
  <2> QED
    BY <1>0, <2>1, <2>2, <2>3, BudgetTypes
<1>2. CASE Lookup(h) \/ LookupFails(h) \/ ReadNonce(h) \/ SendFails(h)
             \/ ReadNonceFails(h)
  <2>1. UNCHANGED <<queue, record, lost>>
    BY <1>2 DEF Lookup, LookupFails, ReadNonce, ReadNonceFails, Abandoned,
                SendFails, rollup_vars
  <2>2. Untried(i)' = Untried(i)
    BY <2>1 DEF Untried
  <2>3. Sends(h)' <= Sends(h)
    <3>1. CASE ReadNonce(h)
      <4>1. handler[h].at = "reading nonce"
        BY <3>1 DEF ReadNonce
      <4>2. Sends(h) = 1
        BY <4>1 DEF Sends
      <4> QED
        BY <1>1, <4>2
    <3>2. CASE Lookup(h) \/ LookupFails(h) \/ SendFails(h) \/ ReadNonceFails(h)
      <4>1. handler'[h].at \in {"saving", "marking", "stuck", "done", "completing"}
        BY <1>0, <3>2 DEF Lookup, LookupFails, SendFails, ReadNonceFails,
                          GoesTo, AfterLookup, HandlerType
      <4>2. Sends(h)' = 0
        BY <4>1 DEF Sends
      <4> QED
        BY <1>1, <4>2
    <3> QED
      BY <1>2, <3>1, <3>2
  <2> QED
    BY <1>1, <2>1, <2>2, <2>3
<1>3. CASE Save(h) \/ SaveFails(h)
  <2>1. UNCHANGED <<queue, lost>> /\ record[i] = "none"
    BY <1>0, <1>3 DEF Save, SaveFails, rollup_vars
  <2>2. Untried(i) = 1
    BY <2>1 DEF Untried
  <2>3. handler'[h].at \in {"marking", "done"}
    BY <1>0, <1>3 DEF Save, SaveFails, GoesTo, HandlerType
  <2>4. Sends(h)' = 0
    BY <2>3 DEF Sends
  <2> QED
    BY <1>1, <2>1, <2>2, <2>4
<1>4. CASE Mark(h)
  <2>1. UNCHANGED queue /\ handler[h].at = "marking" /\ record[i] = "pending"
    BY <1>0, <1>4 DEF Mark, WriteState, rollup_vars
  <2>2. Untried(i) = 1 /\ Sends(h) = 0
    BY <2>1 DEF Untried, Sends
  <2>3. \/ lost' = lost /\ record'[i] = "in-progress"
        \/ lost'[i] = lost[i] + 1
    BY <1>0, <1>4 DEF Mark, WriteState
  <2>4. record'[i] = "in-progress" => Untried(i)' = 0
    BY DEF Untried
  <2> QED
    BY <1>1, <2>1, <2>2, <2>3, <2>4
<1>5. CASE Send(h)
  <2> DEFINE request == [event |-> h[1], nonce |-> handler[h].nonce,
                         handler |-> h]
  <2>1. UNCHANGED <<record, lost>> /\ queue' = Append(queue, request)
    BY <1>5 DEF Send
  <2>2. request \in Request /\ Has(request, i) = 1
    BY <1>0 DEF Request, HandlerType, Has
  <2> HIDE DEF request
  <2>3. InFlight(queue', i) = InFlight(queue, i) + 1
    BY <1>0, <2>1, <2>2, InFlightAppend, QueueTypes
  <2>4. Untried(i)' = Untried(i)
    BY <2>1 DEF Untried
  <2>5. Sends(h) = 1 /\ Sends(h)' = 0
    <3>1. handler[h].at = "sending" /\ handler'[h].at = "waiting"
      BY <1>0, <1>5 DEF Send, GoesTo, HandlerType
    <3> QED
      BY <3>1 DEF Sends
  <2> QED
    BY <1>1, <2>1, <2>3, <2>4, <2>5
<1>6. CASE WaitFails(h)
  <2>1. UNCHANGED <<record, lost>> /\ handler'[h].at = "completing"
    BY <1>0, <1>6 DEF WaitFails, GoesTo, HandlerType
  <2>2. Untried(i)' = Untried(i) /\ Sends(h)' = 0
    BY <2>1 DEF Untried, Sends
  <2>3. /\ Len(queue') = Len(queue)
        /\ \A k \in 1 .. Len(queue') : queue'[k].event = queue[k].event
    <3>1. \A k \in 1 .. Len(queue) : Disowned(queue[k]).event = queue[k].event
      BY <1>0, QueueTypes, DisownedRequest
    <3> QED
      BY <1>0, <1>6, <3>1, QueueTypes DEF WaitFails
  <2>4. InFlight(queue', i) = InFlight(queue, i)
    <3>1. queue \in Seq(Request) /\ queue' \in Seq(Request)
      BY <1>0 DEF TypeOK
    <3> QED
      BY <2>3, <3>1, InFlightSame
  <2> QED
    BY <1>1, <2>1, <2>2, <2>4
<1>7. CASE Complete(h)
  <2>1. UNCHANGED queue /\ handler'[h].at = "done"
    BY <1>0, <1>7 DEF Complete, WriteState, GoesTo, HandlerType, rollup_vars
  <2>2. Sends(h)' = 0
    BY <2>1 DEF Sends
  <2>3. \/ lost' = lost /\ record'[i] = "completed"
        \/ lost'[i] = lost[i] + 1 /\ record' = record
    BY <1>0, <1>7 DEF Complete, WriteState
  <2>4. /\ record'[i] = "completed" => Untried(i)' = 0
        /\ record' = record => Untried(i)' = Untried(i)
    BY DEF Untried
  <2> QED
    BY <1>1, <2>1, <2>2, <2>3, <2>4
<1> QED
  BY <1>2, <1>3, <1>4, <1>5, <1>6, <1>7 DEF HandlerStep

\* The other handler of the same event.
LEMMA OtherHandler ==
  ASSUME NEW h \in Handlers, NEW i, i = h[1]
  PROVE  \E g \in Handlers : /\ h # g /\ h[1] = g[1]
                             /\ \/ h = <<i, Replay>> /\ g = <<i, Live>>
                                \/ h = <<i, Live>> /\ g = <<i, Replay>>
<1>1. /\ i \in TopUps /\ <<i, Replay>> \in Handlers /\ <<i, Live>> \in Handlers
      /\ <<i, Replay>> # <<i, Live>>
      /\ h = <<i, Replay>> \/ h = <<i, Live>>
  BY DEF Handlers, Replay, Live
<1>2. CASE h = <<i, Replay>>
  <2> <<i, Live>> \in Handlers
    BY <1>1
  <2> WITNESS <<i, Live>> \in Handlers
  <2> QED
    BY <1>1, <1>2
<1>3. CASE h = <<i, Live>>
  <2> <<i, Replay>> \in Handlers
    BY <1>1
  <2> WITNESS <<i, Replay>> \in Handlers
  <2> QED
    BY <1>1, <1>3
<1> QED
  BY <1>1, <1>2, <1>3

\* The two handlers of an event send as much as the one that is busy.
LEMMA OneSends ==
  ASSUME TypeOK, Schedule, NEW h \in Handlers, Busy(h), NEW i, i = h[1]
  PROVE  Sends(<<i, Replay>>) + Sends(<<i, Live>>) = Sends(h)
<1>1. PICK g \in Handlers : /\ h # g /\ h[1] = g[1]
                            /\ \/ h = <<i, Replay>> /\ g = <<i, Live>>
                               \/ h = <<i, Live>> /\ g = <<i, Replay>>
  BY OtherHandler
<1>2. handler[g].at = "idle"
  BY <1>1, OneHandler DEF Busy
<1>3. Sends(g) = 0
  BY <1>2 DEF Sends
<1>4. Sends(h) \in 0 .. 1
  BY DEF Sends
<1> QED
  BY <1>1, <1>3, <1>4

\* The budget under a step of a handler,
LEMMA HandlerStepBudget ==
  ASSUME Alone, Alone', Budget, NEW h \in Handlers, HandlerStep(h)
  PROVE  Budget'
<1>0. TypeOK /\ Schedule /\ TypeOK' /\ Schedule' /\ UNCHANGED credits
  BY HandlerStepElsewhere DEF Alone, Elsewhere
<1> SUFFICES ASSUME NEW i \in TopUps
             PROVE  credits'[i] + InFlight(queue', i) + Sends(<<i, Replay>>)'
                      + Sends(<<i, Live>>)' + Untried(i)' <= 1 + lost'[i]
  BY DEF Budget
<1>1. credits[i] + InFlight(queue, i) + Sends(<<i, Replay>>) + Sends(<<i, Live>>)
        + Untried(i) <= 1 + lost[i]
  BY DEF Budget
<1>2. /\ credits[i] \in Nat /\ lost[i] \in Nat /\ lost'[i] \in Nat
      /\ InFlight(queue, i) \in Nat /\ InFlight(queue', i) \in Nat
      /\ Untried(i) \in 0 .. 1 /\ \A g : Sends(g) \in 0 .. 1
  BY <1>0, BudgetTypes, InFlightNat DEF TypeOK
<1>3. Untried(i)' \in 0 .. 1 /\ Sends(<<i, Replay>>)' \in 0 .. 1
        /\ Sends(<<i, Live>>)' \in 0 .. 1 /\ Sends(h)' \in 0 .. 1
  BY DEF Untried, Sends
<1>4. CASE i = h[1]
  <2>1. Sends(<<i, Replay>>) + Sends(<<i, Live>>) = Sends(h)
    BY <1>0, <1>4, OneSends, HandlerStepLocal
  <2>2. Sends(<<i, Replay>>)' + Sends(<<i, Live>>)' = Sends(h)'
    <3>1. PICK g \in Handlers : /\ h # g /\ h[1] = g[1]
                                /\ \/ h = <<i, Replay>> /\ g = <<i, Live>>
                                   \/ h = <<i, Live>> /\ g = <<i, Replay>>
      BY <1>4, OtherHandler
    <3>2. ~ Busy(g) /\ handler'[g] = handler[g]
      BY <1>0, <3>1, OneHandler, HandlerStepLocal
    <3>3. Sends(g)' = 0
      BY <3>2 DEF Sends, Busy
    <3> QED
      BY <1>3, <3>1, <3>3
  <2>3. InFlight(queue', i) + Sends(h)' + Untried(i)' - lost'[i]
          <= InFlight(queue, i) + Sends(h) + Untried(i) - lost[i]
    BY <1>4, HandlerStepSpends
  <2> HIDE DEF InFlight, Sends, Untried
  <2> QED
    BY <1>0, <1>1, <1>2, <1>3, <2>1, <2>2, <2>3
<1>5. CASE i # h[1]
  <2>1. /\ <<i, Replay>> \in Handlers /\ <<i, Replay>> # h
        /\ <<i, Live>> \in Handlers /\ <<i, Live>> # h
    BY <1>5 DEF Handlers
  <2>2. /\ handler'[<<i, Replay>>] = handler[<<i, Replay>>]
        /\ handler'[<<i, Live>>] = handler[<<i, Live>>]
        /\ record'[i] = record[i]
    BY <1>0, <1>5, <2>1, HandlerStepLocal
  <2>3. /\ Sends(<<i, Replay>>)' = Sends(<<i, Replay>>)
        /\ Sends(<<i, Live>>)' = Sends(<<i, Live>>)
        /\ Untried(i)' = Untried(i)
    BY <2>2 DEF Sends, Untried
  <2>4. lost'[i] = lost[i]
    <3>1. lost \in [TopUps -> Nat] /\ h[1] \in TopUps
      BY <1>0 DEF TypeOK, Handlers
    <3> QED
      BY <1>5, <3>1
         DEF HandlerStep, Lookup, LookupFails, Save, SaveFails, Mark,
             WriteState, ReadNonce, ReadNonceFails, Send, SendFails, WaitFails,
             Complete
  <2>5. InFlight(queue', i) = InFlight(queue, i)
    <3>0. queue \in Seq(Request) /\ queue' \in Seq(Request)
      BY <1>0 DEF TypeOK
    <3>1. CASE Send(h)
      <4> DEFINE request == [event |-> h[1], nonce |-> handler[h].nonce,
                             handler |-> h]
      <4>1. queue' = Append(queue, request)
        BY <3>1 DEF Send
      <4>2. request \in Request /\ Has(request, i) = 0
        BY <1>0, <1>5 DEF TypeOK, Handlers, Request, Has
      <4> HIDE DEF request
      <4>3. InFlight(queue', i) = InFlight(queue, i) + 0
        BY <3>0, <4>1, <4>2, InFlightAppend
      <4> QED
        BY <1>2, <4>3
    <3>2. CASE WaitFails(h)
      <4>1. \A k \in 1 .. Len(queue) : Disowned(queue[k]).event = queue[k].event
        BY <1>0, QueueTypes, DisownedRequest
      <4>2. /\ Len(queue') = Len(queue)
            /\ \A k \in 1 .. Len(queue') : queue'[k].event = queue[k].event
        BY <3>0, <3>2, <4>1 DEF WaitFails
      <4> QED
        BY <3>0, <4>2, InFlightSame
    <3>3. CASE ~ Send(h) /\ ~ WaitFails(h)
      BY <3>3 DEF HandlerStep, Lookup, LookupFails, Save, SaveFails, Mark,
                  WriteState, ReadNonce, ReadNonceFails, SendFails, Complete,
                  rollup_vars
    <3> QED
      BY <3>1, <3>2, <3>3
  <2> QED
    BY <1>0, <1>1, <2>3, <2>4, <2>5
<1> QED
  BY <1>4, <1>5

\* and under every step.
LEMMA NextBudget == Alone /\ Budget /\ [Next]_vars => Budget'
<1> SUFFICES ASSUME Alone, Budget, [Next]_vars PROVE Budget'
  OBVIOUS
<1>0. TypeOK /\ Schedule /\ Alone' /\ TypeOK'
  BY NextAlone DEF Alone
<1>1. CASE \E h \in Handlers : HandlerStep(h)
  BY <1>0, <1>1, HandlerStepBudget
<1>2. CASE ~ \E h \in Handlers : HandlerStep(h)
  <2>1. UNCHANGED <<record, lost>>
    BY <1>2 DEF Next, TopUp, OtherTransaction, Execute, Start, Query,
                ReplayNext, Subscribe, Deliver, Crash, vars
  <2> SUFFICES ASSUME NEW i \in TopUps
               PROVE  credits'[i] + InFlight(queue', i) + Sends(<<i, Replay>>)'
                        + Sends(<<i, Live>>)' + Untried(i)' <= 1 + lost'[i]
    BY DEF Budget
  <2>2. credits[i] + InFlight(queue, i) + Sends(<<i, Replay>>)
          + Sends(<<i, Live>>) + Untried(i) <= 1 + lost[i]
    BY DEF Budget
  <2>3. /\ credits[i] \in Nat /\ credits'[i] \in Nat /\ lost[i] \in Nat
        /\ InFlight(queue, i) \in Nat /\ InFlight(queue', i) \in Nat
        /\ Untried(i) \in 0 .. 1 /\ \A g : Sends(g) \in 0 .. 1
    BY <1>0, BudgetTypes, InFlightNat DEF TypeOK
  <2>4. Untried(i)' = Untried(i)
    BY <2>1 DEF Untried
  <2>5. \A g \in Handlers : Sends(g)' <= Sends(g) /\ Sends(g)' \in 0 .. 1
    <3>1. ASSUME NEW g \in Handlers
          PROVE  \/ handler'[g] = handler[g]
                 \/ handler'[g].at \in {"looking up", "completing", "idle"}
      <4>1. handler \in [Handlers -> HandlerType]
        BY <1>0 DEF TypeOK, HandlerType
      <4>2. CASE Execute
        BY <4>1, <4>2 DEF Execute, HandlerType
      <4>3. CASE ReplayNext \/ Deliver
        BY <4>1, <4>3 DEF ReplayNext, Deliver, Begins, GoesTo, HandlerType
      <4>4. CASE Crash
        BY <4>4 DEF Crash, Idle
      <4>5. CASE ~ Execute /\ ~ ReplayNext /\ ~ Deliver /\ ~ Crash
        BY <1>2, <4>5 DEF Next, TopUp, OtherTransaction, Start, Query,
                          Subscribe, vars
      <4> QED
        BY <4>2, <4>3, <4>4, <4>5
    <3>2. ASSUME NEW g \in Handlers,
                 handler'[g].at \in {"looking up", "completing", "idle"}
          PROVE  Sends(g)' = 0
      BY <3>2 DEF Sends
    <3>3. ASSUME NEW g \in Handlers, handler'[g] = handler[g]
          PROVE  Sends(g)' = Sends(g)
      BY <3>3 DEF Sends
    <3>4. \A g \in Handlers : Sends(g)' = Sends(g) \/ Sends(g)' = 0
      BY <3>1, <3>2, <3>3, Zenon
    <3>5. \A g : Sends(g) \in 0 .. 1
      BY DEF Sends
    <3> HIDE DEF Sends
    <3> QED
      BY <3>4, <3>5
  <2>6. credits'[i] + InFlight(queue', i) <= credits[i] + InFlight(queue, i)
    <3>0. queue \in Seq(Request) /\ queue' \in Seq(Request)
      BY <1>0 DEF TypeOK
    <3>1. CASE Execute
      <4>1. queue # <<>> /\ queue' = Tail(queue) /\ Head(queue) = queue[1]
            /\ queue[1].event \in TopUps
        <5>1. queue # <<>> /\ queue' = Tail(queue)
          BY <3>1 DEF Execute
        <5>2. 1 \in 1 .. Len(queue) /\ Head(queue) = queue[1]
          BY <3>0, <5>1
        <5> QED
          BY <1>0, <5>1, <5>2, QueueTypes
      <4>2. InFlight(queue, i) = Has(queue[1], i) + InFlight(queue', i)
        BY <3>0, <4>1, InFlightTail
      <4>3. \/ UNCHANGED credits
            \/ credits' = [credits EXCEPT ![queue[1].event] = @ + 1]
        BY <3>1, <4>1 DEF Execute
      <4>4. credits'[i] <= credits[i] + Has(queue[1], i)
        <5>1. credits \in [TopUps -> Nat]
          BY <1>0 DEF TypeOK
        <5> QED
          BY <4>1, <4>3, <5>1 DEF Has
      <4>5. Has(queue[1], i) \in 0 .. 1
        BY DEF Has
      <4> QED
        BY <2>3, <4>2, <4>4, <4>5
    <3>2. CASE Crash
      <4>1. UNCHANGED credits
        BY <3>2 DEF Crash
      <4>2. \A k \in 1 .. Len(queue) : Disowned(queue[k]).event = queue[k].event
        BY <1>0, QueueTypes, DisownedRequest
      <4>3. /\ Len(queue') = Len(queue)
            /\ \A k \in 1 .. Len(queue') : queue'[k].event = queue[k].event
        BY <3>0, <3>2, <4>2 DEF Crash
      <4>4. InFlight(queue', i) = InFlight(queue, i)
        BY <3>0, <4>3, InFlightSame
      <4> QED
        BY <2>3, <4>1, <4>4
    <3>3. CASE ~ Execute /\ ~ Crash
      <4>1. UNCHANGED <<queue, credits>>
        BY <1>2, <3>3 DEF Next, TopUp, OtherTransaction, Start, Query,
                          ReplayNext, Subscribe, Deliver, vars, rollup_vars
      <4> QED
        BY <2>3, <4>1
    <3> QED
      BY <3>1, <3>2, <3>3
  <2>7. <<i, Replay>> \in Handlers /\ <<i, Live>> \in Handlers
    BY DEF Handlers
  <2> HIDE DEF InFlight, Sends, Untried
  <2>8. /\ Sends(<<i, Replay>>)' <= Sends(<<i, Replay>>)
        /\ Sends(<<i, Replay>>)' \in 0 .. 1
        /\ Sends(<<i, Live>>)' <= Sends(<<i, Live>>)
        /\ Sends(<<i, Live>>)' \in 0 .. 1
    BY <2>5, <2>7
  <2> QED
    BY <2>1, <2>2, <2>3, <2>4, <2>6, <2>8
<1> QED
  BY <1>1, <1>2

LEMMA InitBudget == Init => Budget
<1> SUFFICES ASSUME Init, NEW i \in TopUps
             PROVE  credits[i] + InFlight(queue, i) + Sends(<<i, Replay>>)
                      + Sends(<<i, Live>>) + Untried(i) <= 1 + lost[i]
  BY DEF Budget
<1>1. <<i, Replay>> \in Handlers /\ <<i, Live>> \in Handlers
  BY DEF Handlers
<1>2. Sends(<<i, Replay>>) = 0 /\ Sends(<<i, Live>>) = 0
  BY <1>1 DEF Init, Idle, Sends
<1>3. InFlight(queue, i) = 0
  <2>1. Len(queue) = 0
    BY DEF Init
  <2> QED
    BY <2>1, SumToEquations DEF InFlight
<1>4. Untried(i) = 1 /\ credits[i] = 0 /\ lost[i] = 0
  BY DEF Init, Untried
<1> QED
  BY <1>2, <1>3, <1>4

\* A top-up is credited at most once, through every crash and restart, every
\* failing call and every order of the handlers, unless a write of the state
\* of its record was lost; every lost write adds at most one credit.
THEOREM CreditedOnceCorrect == Spec => []CreditedOnce
<1>1. Alone /\ Budget => CreditedOnce
  <2> SUFFICES ASSUME Alone, Budget, NEW i \in TopUps
               PROVE  credits[i] <= 1 + lost[i]
    BY DEF CreditedOnce
  <2>1. credits[i] + InFlight(queue, i) + Sends(<<i, Replay>>)
          + Sends(<<i, Live>>) + Untried(i) <= 1 + lost[i]
    BY DEF Budget
  <2>2. /\ credits[i] \in Nat /\ lost[i] \in Nat
        /\ InFlight(queue, i) \in Nat
        /\ Untried(i) \in 0 .. 1 /\ \A h : Sends(h) \in 0 .. 1
    BY BudgetTypes DEF Alone
  <2> HIDE DEF InFlight, Sends, Untried
  <2>3. Sends(<<i, Replay>>) \in 0 .. 1 /\ Sends(<<i, Live>>) \in 0 .. 1
    BY <2>2
  <2> QED
    BY <2>1, <2>2, <2>3
<1> QED
  BY <1>1, InitAlone, NextAlone, InitBudget, NextBudget, PTL DEF Spec

-----------------------------------------------------------------------------
(* Who is credited or refused.                                             *)

\* As long as no call has failed, whoever is about to complete a record that
\* can be deposited has an answer of the rollup, and so has whoever did.
HasAnswer(i) == credits[i] > 0 \/ refused[i] # "no"

Answered ==
  /\ \A i \in TopUps : record[i] # "none" => i <= Len(chain)
  /\ \A k \in 1 .. Len(queue) :
       queue[k].handler # NoHandler => queue[k].handler[1] = queue[k].event
  /\ failures = 0 =>
       /\ \A i \in TopUps :
            Depositable(i) /\ record[i] = "completed" => HasAnswer(i)
       /\ \A h \in Handlers :
            Depositable(h[1]) /\ handler[h].at = "completing" => HasAnswer(h[1])

\* The replay has nothing to do with an event any more.
Past(i) == chain[i].l1token # FirstToken \/ record[i] = "completed"

\* The replay works through the events in their order, in all starts together,
Paced ==
  /\ \A i \in TopUps : ~ Busy(<<i, Live>>)
  /\ \A i \in TopUps :
       watcher \in {"replaying", "listening"} /\ i < position =>
         handler[<<i, Replay>>].at = "done"
  /\ \A i \in TopUps : handler[<<i, Replay>>].at = "done" => Past(i)
  /\ \A i \in TopUps : record[i] # "none" =>
       /\ chain[i].l1token = FirstToken
       /\ \A j \in TopUps : j < i => Past(j)
  /\ \A i \in TopUps :
       handler[<<i, Replay>>].at \notin {"idle", "looking up", "done"} =>
         chain[i].l1token = FirstToken
  /\ \A i \in TopUps :
       handler[<<i, Replay>>].at
           \in {"reading nonce", "sending", "waiting", "completing"} =>
         record[i] = "in-progress"

\* and has at most one request on its way, whose nonce is the admin's.
OneRequest ==
  /\ \A i \in TopUps :
       handler[<<i, Replay>>].at \in {"reading nonce", "sending", "completing"} =>
         queue = <<>>
  /\ \A i \in TopUps : handler[<<i, Replay>>].at = "sending" =>
       handler[<<i, Replay>>].nonce = admin_nonce
  /\ Len(queue) <= 1
  /\ \A k \in 1 .. Len(queue) :
       queue[k].nonce = admin_nonce /\ record[queue[k].event] = "in-progress"
  /\ \A i \in TopUps : refused[i] # "nonce"

Sole == alone /\ failures = 0 => Paced /\ OneRequest

\* What a step of a handler does as long as no call fails.
LEMMA ReliableStep ==
  ASSUME TypeOK, NEW h \in Handlers, HandlerStep(h), failures' = 0
  PROVE  /\ failures = 0
         /\ \/ /\ handler[h].at = "looking up"
               /\ UNCHANGED <<record, queue>>
               /\ \/ /\ handler'[h].at = "done"
                     /\ Past(h[1])
                  \/ /\ handler'[h].at \in {"saving", "marking", "stuck"}
                     /\ chain[h[1]].l1token = FirstToken
            \/ /\ handler[h].at = "saving" /\ handler'[h].at = "marking"
               /\ record'[h[1]] = "pending" /\ UNCHANGED queue
            \/ /\ handler[h].at = "marking"
               /\ \/ handler'[h].at = "reading nonce"
                  \/ handler'[h].at = "completing" /\ InGWei(h[1]) < 1
               /\ record'[h[1]] = "in-progress" /\ UNCHANGED queue
            \/ /\ handler[h].at = "reading nonce" /\ handler'[h].at = "sending"
               /\ handler'[h].nonce = admin_nonce
               /\ UNCHANGED <<record, queue>>
            \/ /\ handler[h].at = "sending" /\ handler'[h].at = "waiting"
               /\ queue' = Append(queue, [event |-> h[1], handler |-> h,
                                          nonce |-> handler[h].nonce])
               /\ UNCHANGED record
            \/ /\ handler[h].at = "completing" /\ handler'[h].at = "done"
               /\ record'[h[1]] = "completed" /\ UNCHANGED queue
<1>0. /\ h[1] \in TopUps
      /\ record \in [TopUps -> States]
      /\ handler \in [Handlers -> HandlerType]
      /\ failures \in Nat
  BY DEF TypeOK, Handlers, HandlerType
<1>1. ~ Fails /\ failures + 1 # 0
  BY <1>0 DEF Fails
<1>2. \/ Lookup(h) \/ Save(h) \/ Mark(h) \/ ReadNonce(h) \/ Send(h)
      \/ Complete(h)
  BY <1>1 DEF HandlerStep, LookupFails, SaveFails, ReadNonceFails, SendFails,
              WaitFails
<1>3. failures = 0
  BY <1>0, <1>1, <1>2 DEF Lookup, Save, Mark, ReadNonce, Send, Complete,
                          WriteState, NothingFails
<1>4. CASE Lookup(h)
  <2>1. /\ handler'[h].at = IF chain[h[1]].l1token # FirstToken THEN "done"
                            ELSE AfterLookup(record[h[1]])
        /\ handler[h].at = "looking up"
        /\ UNCHANGED <<record, queue>>
    BY <1>0, <1>4 DEF Lookup, GoesTo, HandlerType, rollup_vars
  <2>2. \/ AfterLookup(record[h[1]]) \in {"saving", "marking", "stuck"}
        \/ AfterLookup(record[h[1]]) = "done" /\ record[h[1]] = "completed"
    BY <1>0 DEF AfterLookup, States
  <2> QED
    BY <1>3, <2>1, <2>2 DEF Past
<1>5. CASE Save(h)
  BY <1>0, <1>3, <1>5 DEF Save, GoesTo, HandlerType, rollup_vars
<1>6. CASE Mark(h)
  <2>1. /\ handler'[h].at = AfterMark(h[1]) /\ handler[h].at = "marking"
        /\ UNCHANGED queue
    BY <1>0, <1>6 DEF Mark, WriteState, GoesTo, HandlerType, rollup_vars
  <2>2. record'[h[1]] = "in-progress"
    BY <1>0, <1>1, <1>6 DEF Mark, WriteState
  <2> QED
    BY <1>3, <2>1, <2>2 DEF AfterMark
<1>7. CASE ReadNonce(h)
  BY <1>0, <1>3, <1>7 DEF ReadNonce, HandlerType, rollup_vars
<1>8. CASE Send(h)
  <2>1. /\ handler[h].at = "sending" /\ handler'[h].at = "waiting"
        /\ UNCHANGED record
    BY <1>0, <1>8 DEF Send, GoesTo, HandlerType
  <2>2. queue' = Append(queue, [event |-> h[1], handler |-> h,
                                nonce |-> handler[h].nonce])
    BY <1>8 DEF Send
  <2> QED
    BY <1>3, <2>1, <2>2
<1>9. CASE Complete(h)
  <2>1. /\ handler[h].at = "completing" /\ handler'[h].at = "done"
        /\ UNCHANGED queue
    BY <1>0, <1>9 DEF Complete, WriteState, GoesTo, HandlerType, rollup_vars
  <2>2. record'[h[1]] = "completed"
    BY <1>0, <1>1, <1>9 DEF Complete, WriteState
  <2> QED
    BY <1>3, <2>1, <2>2
<1> QED
  BY <1>2, <1>4, <1>5, <1>6, <1>7, <1>8, <1>9

\* The other steps write no record and make no handler an active one, but for
\* the answer that ends a wait.
Rests(h) == handler[h].at \in {"idle", "looking up"}

LEMMA OtherStep ==
  ASSUME TypeOK, [Next]_vars, ~ \E h \in Handlers : HandlerStep(h), ~ Execute
  PROVE  /\ record' = record
         /\ UNCHANGED <<credits, refused>>
         /\ \A h \in Handlers : handler'[h] = handler[h] \/ Rests(h)'
         /\ \/ queue' = queue
            \/ Crash
         /\ failures' = 0 => failures = 0
         /\ alone' => alone /\ admin_nonce' = admin_nonce
<1> USE DEF watcher_vars, rollup_vars, bounds
<1>0. handler \in [Handlers -> HandlerType] /\ failures \in Nat
  BY DEF TypeOK, HandlerType
<1>1. CASE \/ \E l1token \in L1Tokens, amount \in Amounts : TopUp(l1token, amount)
           \/ UNCHANGED vars
  <2>1. UNCHANGED <<record, credits, refused, handler, queue, failures, alone,
                    admin_nonce>>
    BY <1>1 DEF TopUp, vars
  <2> QED
    BY <2>1
<1>5. ASSUME NEW lists \in BOOLEAN, OtherTransaction(lists)
      PROVE  /\ UNCHANGED <<record, credits, refused, handler, queue, failures>>
             /\ ~ alone'
  BY <1>5, Zenon DEF OtherTransaction
<1>2. CASE Start \/ Query \/ Subscribe
  BY <1>0, <1>2 DEF Start, Query, Subscribe, Fails, NothingFails
<1>3. CASE ReplayNext \/ Deliver
  <2>1. \A h \in Handlers : handler'[h] = handler[h] \/ Rests(h)'
    BY <1>0, <1>3 DEF ReplayNext, Deliver, Begins, GoesTo, HandlerType, Rests
  <2> QED
    BY <1>3, <2>1 DEF ReplayNext, Deliver
<1>4. CASE Crash
  <2>1. \A h \in Handlers : Rests(h)'
    BY <1>4 DEF Crash, Idle, Rests
  <2> QED
    BY <1>4, <2>1 DEF Crash
<1> QED
  BY <1>1, <1>2, <1>3, <1>4, <1>5 DEF Next

LEMMA ChainKept ==
  ASSUME TypeOK, [Next]_vars
  PROVE  /\ Len(chain) \in Nat /\ Len(chain) <= Len(chain') /\ Len(chain') \in Nat
         /\ \A i \in 1 .. Len(chain) : chain'[i] = chain[i]
<1>0. chain \in Seq([l1token : L1Tokens, amount : Amounts])
  BY DEF TypeOK
<1>1. ASSUME NEW l1token \in L1Tokens, NEW amount \in Amounts,
             TopUp(l1token, amount)
      PROVE  /\ Len(chain) <= Len(chain') /\ Len(chain') \in Nat
             /\ \A i \in 1 .. Len(chain) : chain'[i] = chain[i]
  <2> DEFINE event == [l1token |-> l1token, amount |-> amount]
  <2>1. /\ event \in [l1token : L1Tokens, amount : Amounts]
        /\ chain' = Append(chain, event)
    BY <1>1 DEF TopUp
  <2> QED
    BY <1>0, <2>1, AppendProperties
<1>2. CASE ~ \E l1token \in L1Tokens, amount \in Amounts : TopUp(l1token, amount)
  <2>1. chain' = chain
    <3>1. CASE \E h \in Handlers : HandlerStep(h)
      BY <3>1, HandlerStepElsewhere DEF Elsewhere
    <3>2. CASE ~ \E h \in Handlers : HandlerStep(h)
      BY <1>2, <3>2 DEF Next, OtherTransaction, Execute, Start, Query,
                        ReplayNext, Subscribe, Deliver, Crash, vars
    <3> QED
      BY <3>1, <3>2
  <2> QED
    BY <1>0, <2>1
<1> QED
  BY <1>0, <1>1, <1>2

\* Only events of the chain are handled.
LEMMA BusyInChain ==
  ASSUME TypeOK, Schedule, NEW h \in Handlers, Busy(h)
  PROVE  h[1] \in 1 .. Len(chain)
<1>1. PICK i \in TopUps : h = <<i, Replay>> \/ h = <<i, Live>>
  BY DEF Handlers
<1>2. h[1] = i /\ i \in Nat /\ i >= 1
  BY <1>1 DEF TopUps
<1>3. i <= position \/ i <= heard
  BY <1>1 DEF Schedule
<1>4. /\ position \in Int /\ found \in Int /\ heard \in Int /\ Len(chain) \in Int
      /\ position <= found /\ found <= Len(chain) /\ heard <= Len(chain)
  BY DEF TypeOK
<1> QED
  BY <1>2, <1>3, <1>4

LEMMA DepositableKept ==
  ASSUME TypeOK, [Next]_vars, NEW i \in TopUps, i <= Len(chain)
  PROVE  /\ Depositable(i)' <=> Depositable(i)
         /\ Past(i)' <=> chain[i].l1token # FirstToken \/ record'[i] = "completed"
         /\ chain'[i] = chain[i] /\ i \in 1 .. Len(chain)
<1>1. i \in 1 .. Len(chain) /\ i <= Len(chain')
  BY ChainKept DEF TopUps
<1>2. chain'[i] = chain[i]
  BY <1>1, ChainKept
<1> QED
  BY <1>1, <1>2 DEF Depositable, InGWei, Past

\* The rollup answers the request at the head of the queue.
LEMMA ExecuteAnswers ==
  ASSUME TypeOK, Owners, Execute
  PROVE  /\ queue \in Seq(Request) /\ Len(queue) \in Nat /\ 1 \in 1 .. Len(queue)
         /\ queue[1].event \in TopUps
         /\ queue[1].handler \in Handlers \cup {NoHandler}
         /\ Len(queue') = Len(queue) - 1
         /\ \A k \in 1 .. Len(queue') : k + 1 \in 1 .. Len(queue)
                                        /\ queue'[k] = queue[k + 1]
         /\ UNCHANGED <<chain, record, watcher, found, position, joined, heard,
                        failures>>
         /\ alone' = alone
         /\ \A i \in TopUps : HasAnswer(i) \/ i = queue[1].event => HasAnswer(i)'
         /\ queue[1].nonce = admin_nonce =>
              \A i \in TopUps : refused'[i] = "nonce" => refused[i] = "nonce"
         /\ \A g \in Handlers :
              \/ g # queue[1].handler /\ handler'[g] = handler[g]
              \/ /\ g = queue[1].handler
                 /\ handler[g].at = "waiting"
                 /\ handler'[g].at = "completing"
<1> DEFINE r == queue[1]
<1>1. queue \in Seq(Request) /\ queue # <<>>
  BY DEF TypeOK, Execute
<1>2. Len(queue) \in Nat /\ 1 \in 1 .. Len(queue) /\ Head(queue) = r
  BY <1>1
<1>3. r.event \in TopUps /\ r.handler \in Handlers \cup {NoHandler}
  BY <1>2, QueueTypes
<1>4. queue' = Tail(queue)
  BY DEF Execute
<1>5. /\ Len(queue') = Len(queue) - 1
      /\ \A k \in 1 .. Len(queue') : k + 1 \in 1 .. Len(queue)
                                     /\ queue'[k] = queue[k + 1]
  BY <1>1, <1>4
<1>6. /\ UNCHANGED <<chain, record, watcher, found, position, joined, heard,
                     failures>>
      /\ alone' = alone
  BY Zenon DEF Execute, watcher_vars, bounds
<1>7. \/ /\ credits' = [credits EXCEPT ![r.event] = @ + 1]
         /\ UNCHANGED refused
      \/ /\ UNCHANGED credits
         /\ \/ refused' = [refused EXCEPT ![r.event] = "token"]
            \/ /\ refused' = [refused EXCEPT ![r.event] = "nonce"]
               /\ r.nonce # admin_nonce
  BY <1>2 DEF Execute
<1>8. handler' = IF r.handler = NoHandler THEN handler
                 ELSE [handler EXCEPT ![r.handler].at = "completing"]
  BY <1>2 DEF Execute
<1>9. r.handler # NoHandler => handler[r.handler].at = "waiting"
  BY <1>2 DEF Owners
<1>10. credits \in [TopUps -> Nat] /\ refused \in [TopUps -> {"no", "nonce", "token"}]
  BY DEF TypeOK
<1> HIDE DEF r
<1>11. ASSUME NEW i \in TopUps, HasAnswer(i) \/ i = r.event PROVE HasAnswer(i)'
  BY <1>3, <1>7, <1>10, <1>11 DEF HasAnswer
<1>12. ASSUME r.nonce = admin_nonce, NEW i \in TopUps, refused'[i] = "nonce"
       PROVE  refused[i] = "nonce"
  BY <1>3, <1>7, <1>10, <1>12
<1>13. ASSUME NEW g \in Handlers
       PROVE  \/ g # r.handler /\ handler'[g] = handler[g]
              \/ /\ g = r.handler
                 /\ handler[g].at = "waiting"
                 /\ handler'[g].at = "completing"
  <2>1. handler \in [Handlers -> HandlerType] /\ NoHandler \notin Handlers
    BY QueueTypes
  <2> QED
    BY <1>3, <1>8, <1>9, <2>1 DEF HandlerType
<1> QED
  BY <1>1, <1>2, <1>3, <1>5, <1>6, <1>11, <1>12, <1>13 DEF r

\* Answers are not taken back.
LEMMA HandlerStepAnswered ==
  ASSUME Alone, Answered, NEW h \in Handlers, HandlerStep(h), [Next]_vars
  PROVE  Answered'
<1>0. /\ TypeOK /\ Schedule
      /\ h[1] \in TopUps /\ handler \in [Handlers -> HandlerType]
      /\ record \in [TopUps -> States]
  BY DEF Alone, TypeOK, Handlers, HandlerType
<1>1. /\ Busy(h)
      /\ \A g \in Handlers : g # h => handler'[g] = handler[g]
      /\ \A i \in TopUps : i # h[1] => record'[i] = record[i]
  BY <1>0, HandlerStepLocal
<1>2. h[1] \in 1 .. Len(chain)
  BY <1>0, <1>1, BusyInChain
<1>3. UNCHANGED <<chain, credits, refused>>
  BY HandlerStepElsewhere DEF Elsewhere
<1>4. \A i \in TopUps : record'[i] # "none" => i <= Len(chain')
  BY <1>0, <1>1, <1>2, <1>3 DEF Answered
<1>5. \A k \in 1 .. Len(queue') :
        queue'[k].handler # NoHandler => queue'[k].handler[1] = queue'[k].event
  <2>0. queue \in Seq(Request) /\ Len(queue) \in Nat
    BY <1>0, QueueTypes
  <2>1. CASE Send(h)
    <3> DEFINE request == [event |-> h[1], nonce |-> handler[h].nonce,
                           handler |-> h]
    <3>1. queue' = Append(queue, request) /\ request.handler[1] = request.event
      BY <2>1 DEF Send
    <3> HIDE DEF request
    <3>2. /\ Len(queue') = Len(queue) + 1
          /\ queue'[Len(queue) + 1] = request
          /\ \A k \in 1 .. Len(queue) : queue'[k] = queue[k]
      BY <2>0, <3>1
    <3> QED
      BY <2>0, <3>1, <3>2 DEF Answered
  <2>2. CASE WaitFails(h)
    <3>1. \A k \in 1 .. Len(queue) : Disowned(queue[k]).handler = NoHandler
      BY <1>0, QueueTypes, DisownedRequest
    <3> QED
      BY <2>0, <2>2, <3>1 DEF WaitFails, Answered
  <2>3. CASE ~ Send(h) /\ ~ WaitFails(h)
    <3>1. UNCHANGED queue
      BY <2>3 DEF HandlerStep, Lookup, LookupFails, Save, SaveFails, Mark,
                  WriteState, ReadNonce, ReadNonceFails, SendFails, Complete,
                  rollup_vars
    <3> QED
      BY <3>1 DEF Answered
  <2> QED
    BY <2>1, <2>2, <2>3
<1>6. ASSUME failures' = 0
      PROVE  /\ \A i \in TopUps :
                  Depositable(i)' /\ record'[i] = "completed" => HasAnswer(i)'
             /\ \A g \in Handlers :
                  Depositable(g[1])' /\ handler'[g].at = "completing"
                    => HasAnswer(g[1])'
  <2>1. /\ \A i : HasAnswer(i)' <=> HasAnswer(i)
        /\ \A i : Depositable(i)' <=> Depositable(i)
    BY <1>3 DEF HasAnswer, Depositable, InGWei
  <2>2. /\ failures = 0
        /\ handler'[h].at = "completing" => InGWei(h[1]) < 1
        /\ record'[h[1]] = "completed" =>
             record[h[1]] = "completed" \/ handler[h].at = "completing"
    BY <1>0, <1>6, ReliableStep
  <2>3. ~ (Depositable(h[1]) /\ InGWei(h[1]) < 1)
    <3>1. chain[h[1]].amount \in Int
      <4>1. chain \in Seq([l1token : L1Tokens, amount : Amounts])
        BY <1>0 DEF TypeOK
      <4>2. chain[h[1]] \in [l1token : L1Tokens, amount : Amounts]
        BY <1>2, <4>1, ElementOfSeq
      <4>3. \A e \in [l1token : L1Tokens, amount : Amounts] : e.amount \in Amounts
        OBVIOUS
      <4>4. Amounts \subseteq Int
        BY WatcherAssumption
      <4> QED
        BY <4>2, <4>3, <4>4
    <3>2. InGWei(h[1]) \in Int
      BY <3>1, WatcherAssumption DEF InGWei
    <3> QED
      BY <3>2 DEF Depositable
  <2> HIDE DEF HasAnswer, Depositable
  <2>4. ASSUME NEW i \in TopUps, Depositable(i), record'[i] = "completed"
        PROVE  HasAnswer(i)
    BY <1>1, <2>2, <2>4 DEF Answered
  <2>5. ASSUME NEW g \in Handlers, Depositable(g[1]), handler'[g].at = "completing"
        PROVE  HasAnswer(g[1])
    BY <1>1, <2>2, <2>3, <2>5 DEF Answered
  <2> QED
    BY <2>1, <2>4, <2>5
<1> QED
  BY <1>4, <1>5, <1>6 DEF Answered

LEMMA NextAnswered ==
  Alone /\ Answered /\ [Next]_vars => Answered'
<1> SUFFICES ASSUME Alone, Answered, [Next]_vars PROVE Answered'
  OBVIOUS
<1>0. /\ TypeOK /\ Schedule /\ Owners /\ TypeOK'
      /\ \A h \in Handlers : h[1] \in TopUps
  BY NextType DEF Alone, Handlers
<1>1. CASE \E h \in Handlers : HandlerStep(h)
  BY <1>1, HandlerStepAnswered
<1>2. CASE Execute
  <2>1. /\ UNCHANGED <<chain, record, failures>>
        /\ \A i \in TopUps : HasAnswer(i) \/ i = queue[1].event => HasAnswer(i)'
    BY <1>0, <1>2, ExecuteAnswers
  <2>2. \A g \in Handlers : handler'[g].at = "completing" =>
          handler[g].at = "completing" \/ g[1] = queue[1].event
    BY <1>0, <1>2, ExecuteAnswers, QueueTypes DEF Answered
  <2>3. \A k \in 1 .. Len(queue') :
          queue'[k].handler # NoHandler => queue'[k].handler[1] = queue'[k].event
    BY <1>0, <1>2, ExecuteAnswers DEF Answered
  <2>4. \A i : Depositable(i)' <=> Depositable(i)
    BY <2>1 DEF Depositable, InGWei
  <2> HIDE DEF HasAnswer, Depositable
  <2> QED
    BY <1>0, <2>1, <2>2, <2>3, <2>4 DEF Answered
<1>3. CASE ~ (\E h \in Handlers : HandlerStep(h)) /\ ~ Execute
  <2>1. /\ UNCHANGED <<record, credits, refused>>
        /\ \A h \in Handlers : handler'[h] = handler[h] \/ Rests(h)'
        /\ queue' = queue \/ Crash
        /\ failures' = 0 => failures = 0
    BY <1>0, <1>3, OtherStep
  <2>2. \A i : HasAnswer(i)' <=> HasAnswer(i)
    BY <2>1 DEF HasAnswer
  <2>3. \A i \in TopUps : record'[i] # "none" => i <= Len(chain')
    BY <1>0, <2>1, ChainKept DEF Answered, TopUps
  <2>4. \A k \in 1 .. Len(queue') :
          queue'[k].handler # NoHandler => queue'[k].handler[1] = queue'[k].event
    <3>1. CASE queue' = queue
      BY <3>1 DEF Answered
    <3>2. CASE Crash
      <4>1. /\ \A k \in 1 .. Len(queue) : Disowned(queue[k]).handler = NoHandler
            /\ queue \in Seq(Request)
        BY <1>0, QueueTypes, DisownedRequest
      <4> QED
        BY <3>2, <4>1 DEF Crash
    <3> QED
      BY <2>1, <3>1, <3>2
  <2> HIDE DEF HasAnswer, Depositable
  <2>5. ASSUME failures' = 0, NEW i \in TopUps, Depositable(i)',
               record'[i] = "completed"
        PROVE  HasAnswer(i)'
    <3>1. i <= Len(chain) /\ record[i] = "completed"
      BY <2>1, <2>5 DEF Answered
    <3>2. Depositable(i)
      BY <1>0, <2>5, <3>1, DepositableKept
    <3> QED
      BY <2>1, <2>2, <2>5, <3>1, <3>2 DEF Answered
  <2>6. ASSUME failures' = 0, NEW g \in Handlers, Depositable(g[1])',
               handler'[g].at = "completing"
        PROVE  HasAnswer(g[1])'
    <3>1. handler[g].at = "completing"
      BY <2>1, <2>6 DEF Rests
    <3>2. g[1] \in TopUps /\ g[1] <= Len(chain)
      BY <1>0, <3>1, BusyInChain DEF Busy
    <3>3. Depositable(g[1])
      BY <1>0, <2>6, <3>2, DepositableKept
    <3> QED
      BY <2>1, <2>2, <2>6, <3>1, <3>3 DEF Answered
  <2> QED
    BY <2>3, <2>4, <2>5, <2>6 DEF Answered
<1> QED
  BY <1>1, <1>2, <1>3

\* While the replay alone uses the admin's key, its handler of the event at its
\* position is the only one that can act, and a request on its way belongs to
\* no event that this handler saves or marks.
LEMMA SoleActor ==
  ASSUME Alone, Paced, OneRequest, NEW h \in Handlers,
         handler[h].at \notin {"idle", "done"}
  PROVE  /\ position \in TopUps /\ h = <<position, Replay>>
         /\ \A i \in TopUps :
              i # position => handler[<<i, Replay>>].at \in {"idle", "done"}
         /\ \A i \in TopUps : i < position => Past(i)
         /\ handler[h].at \in {"saving", "marking"} => queue = <<>>
<1>0. /\ TypeOK /\ Schedule /\ Records
      /\ \A i \in TopUps : i \in Int /\ <<i, Replay>> \in Handlers
      /\ position \in Int
  BY DEF Alone, TypeOK, TopUps, Handlers
<1>1. PICK p \in TopUps : h = <<p, Replay>>
  <2>1. PICK p \in TopUps, k \in {Replay, Live} : h = <<p, k>>
    BY DEF Handlers
  <2>2. ~ Busy(<<p, Live>>)
    BY DEF Paced
  <2>3. k # Live
    BY <2>1, <2>2 DEF Busy
  <2> QED
    BY <2>1, <2>3
<1>2. watcher \in {"replaying", "listening"}
  BY <1>0 DEF Schedule, Busy, TypeOK
<1>7. ASSUME NEW i \in TopUps, i # position
      PROVE  handler[<<i, Replay>>].at \in {"idle", "done"}
  <2>1. i <= position \/ handler[<<i, Replay>>].at = "idle"
    BY <1>0 DEF Schedule, Busy
  <2>2. i < position => handler[<<i, Replay>>].at = "done"
    BY <1>2 DEF Paced
  <2>3. i \in Int /\ position \in Int
    BY <1>0
  <2> QED
    BY <1>7, <2>1, <2>2, <2>3
<1>3. p = position
  BY <1>1, <1>7
<1>4. \A i \in TopUps :
        i # position => handler[<<i, Replay>>].at \in {"idle", "done"}
  BY <1>7
<1>5. ASSUME NEW i \in TopUps, i < position PROVE Past(i)
  BY <1>2, <1>5 DEF Paced
<1>6. ASSUME handler[h].at \in {"saving", "marking"}, queue # <<>> PROVE FALSE
  <2>1. /\ queue \in Seq(Request) /\ 1 \in 1 .. Len(queue)
        /\ queue[1].event \in TopUps
    <3>1. queue \in Seq(Request)
      BY <1>0, QueueTypes
    <3>2. 1 \in 1 .. Len(queue)
      BY <1>6, <3>1
    <3> QED
      BY <1>0, <3>1, <3>2, QueueTypes
  <2> DEFINE e == queue[1].event
  <2>2. record[e] = "in-progress"
    BY <2>1 DEF OneRequest
  <2>3. record[p] \in {"none", "pending"} /\ chain[p].l1token = FirstToken
    BY <1>0, <1>1, <1>6 DEF Records, Paced
  <2>4. ~ Past(p)
    BY <2>3 DEF Past
  <2>5. ~ (e < p)
    BY <1>3, <1>5, <2>1, <2>2 DEF Past, Paced
  <2>6. ~ (p < e)
    BY <2>1, <2>2, <2>4 DEF Paced
  <2> QED
    <3>1. e \in Int /\ p \in Int /\ e # p
      BY <1>0, <2>1, <2>2, <2>3
    <3> QED
      BY <2>5, <2>6, <3>1
<1> QED
  BY <1>1, <1>3, <1>4, <1>5, <1>6

LEMMA HandlerStepSole ==
  ASSUME Alone, Paced, OneRequest, NEW h \in Handlers, HandlerStep(h),
         failures' = 0
  PROVE  Paced' /\ OneRequest'
<1>0. /\ TypeOK /\ Records
      /\ handler \in [Handlers -> HandlerType]
      /\ record \in [TopUps -> States]
      /\ \A i \in TopUps : /\ i \in Int
                           /\ <<i, Replay>> \in Handlers /\ <<i, Live>> \in Handlers
                           /\ <<i, Live>> # <<position, Replay>>
  BY DEF Alone, TypeOK, TopUps, Handlers, HandlerType, Replay, Live
<1> DEFINE a == handler[h].at
           b == handler'[h].at
<1>1. \/ /\ a = "looking up" /\ UNCHANGED <<record, queue>>
         /\ \/ b = "done" /\ Past(h[1])
            \/ /\ b \in {"saving", "marking", "stuck"}
               /\ chain[h[1]].l1token = FirstToken
      \/ /\ a = "saving" /\ b = "marking"
         /\ record'[h[1]] = "pending" /\ UNCHANGED queue
      \/ /\ a = "marking" /\ b \in {"reading nonce", "completing"}
         /\ record'[h[1]] = "in-progress" /\ UNCHANGED queue
      \/ /\ a = "reading nonce" /\ b = "sending"
         /\ handler'[h].nonce = admin_nonce /\ UNCHANGED <<record, queue>>
      \/ /\ a = "sending" /\ b = "waiting" /\ UNCHANGED record
         /\ queue' = Append(queue, [event |-> h[1], handler |-> h,
                                    nonce |-> handler[h].nonce])
      \/ /\ a = "completing" /\ b = "done"
         /\ record'[h[1]] = "completed" /\ UNCHANGED queue
  BY <1>0, ReliableStep
<1>2. PICK p \in TopUps :
         /\ p = position /\ h = <<p, Replay>> /\ h[1] = p
         /\ \A i \in TopUps :
              i # p => handler[<<i, Replay>>].at \in {"idle", "done"}
         /\ \A i \in TopUps : i < p => Past(i)
         /\ a \in {"saving", "marking"} => queue = <<>>
  <2>1. a \notin {"idle", "done"}
    BY <1>1
  <2> QED
    BY <2>1, SoleActor
<1>3. /\ \A i \in TopUps : handler'[<<i, Live>>] = handler[<<i, Live>>]
      /\ \A i \in TopUps : i # p =>
           /\ handler'[<<i, Replay>>] = handler[<<i, Replay>>]
           /\ record'[i] = record[i]
  <2>1. /\ \A g \in Handlers : g # h => handler'[g] = handler[g]
        /\ \A i \in TopUps : i # h[1] => record'[i] = record[i]
    BY <1>0, HandlerStepLocal
  <2>2. \A i \in TopUps : i # p => <<i, Replay>> # h
    BY <1>2
  <2> QED
    BY <1>0, <1>2, <2>1, <2>2
<1>4. UNCHANGED <<chain, watcher, position, admin_nonce, refused>>
  BY HandlerStepElsewhere DEF Elsewhere
<1>5. /\ a = "marking" => record[p] = "pending"
      /\ a = "saving" => record[p] = "none"
      /\ a \in {"reading nonce", "sending", "waiting", "completing"} =>
           record[p] = "in-progress"
      /\ a \notin {"idle", "looking up", "done"} => chain[p].l1token = FirstToken
      /\ a \in {"reading nonce", "sending", "completing"} => queue = <<>>
      /\ a = "sending" => handler[h].nonce = admin_nonce
  BY <1>0, <1>2 DEF Records, Paced, OneRequest
<1>6. ASSUME NEW i \in TopUps, Past(i) PROVE Past(i)'
  BY <1>1, <1>2, <1>3, <1>4, <1>5, <1>6 DEF Past
<1> HIDE DEF a, b
<1>7. Paced'
  <2>1. \A i \in TopUps : ~ Busy(<<i, Live>>)'
    BY <1>3 DEF Paced, Busy
  <2>2. \A i \in TopUps :
          watcher' \in {"replaying", "listening"} /\ i < position' =>
            handler'[<<i, Replay>>].at = "done"
    <3>1. ASSUME NEW i \in TopUps, watcher \in {"replaying", "listening"}, i < p
          PROVE  handler'[<<i, Replay>>].at = "done"
      <4>1. handler[<<i, Replay>>].at = "done"
        BY <1>2, <3>1 DEF Paced
      <4>2. i # p
        <5>1. i \in Int
          BY <1>0
        <5> QED
          BY <3>1, <5>1
      <4> QED
        BY <1>3, <4>1, <4>2
    <3> QED
      BY <1>2, <1>4, <3>1
  <2>3. \A i \in TopUps : handler'[<<i, Replay>>].at = "done" => Past(i)'
    <3>1. ASSUME NEW i \in TopUps, i # p, handler'[<<i, Replay>>].at = "done"
          PROVE  Past(i)'
      BY <1>3, <1>6, <3>1 DEF Paced
    <3>2. ASSUME b = "done" PROVE Past(p)'
      BY <1>1, <1>2, <1>6, <3>2 DEF Past
    <3> QED
      BY <1>2, <3>1, <3>2 DEF b
  <2>4. ASSUME NEW i \in TopUps, record'[i] # "none"
        PROVE  /\ chain'[i].l1token = FirstToken
               /\ \A j \in TopUps : j < i => Past(j)'
    <3>1. CASE record[i] # "none"
      BY <1>4, <1>6, <3>1 DEF Paced
    <3>2. CASE record[i] = "none"
      <4>1. i = p /\ a \notin {"idle", "looking up", "done"}
        BY <1>1, <1>3, <2>4, <3>2
      <4> QED
        BY <1>2, <1>4, <1>5, <1>6, <4>1
    <3> QED
      BY <3>1, <3>2
  <2>5. ASSUME NEW i \in TopUps,
               handler'[<<i, Replay>>].at \notin {"idle", "looking up", "done"}
        PROVE  chain'[i].l1token = FirstToken
    <3>1. i = p
      BY <1>2, <1>3, <2>5
    <3> QED
      BY <1>1, <1>2, <1>4, <1>5, <2>5, <3>1 DEF b
  <2>6. ASSUME NEW i \in TopUps,
               handler'[<<i, Replay>>].at
                 \in {"reading nonce", "sending", "waiting", "completing"}
        PROVE  record'[i] = "in-progress"
    <3>1. i = p
      BY <1>2, <1>3, <2>6
    <3> QED
      BY <1>1, <1>2, <1>5, <2>6, <3>1 DEF b
  <2> HIDE DEF Busy, Past
  <2> QED
    BY <2>1, <2>2, <2>3, <2>4, <2>5, <2>6 DEF Paced
<1>8. OneRequest'
  <2>0. queue \in Seq(Request) /\ Len(queue) <= 1
    BY <1>0, QueueTypes DEF OneRequest
  <2>1. ASSUME NEW i \in TopUps,
               handler'[<<i, Replay>>].at
                 \in {"reading nonce", "sending", "completing"}
        PROVE  queue' = <<>>
    <3>1. i = p
      BY <1>2, <1>3, <2>1
    <3> QED
      BY <1>1, <1>2, <1>5, <2>1, <3>1 DEF b
  <2>2. ASSUME NEW i \in TopUps, handler'[<<i, Replay>>].at = "sending"
        PROVE  handler'[<<i, Replay>>].nonce = admin_nonce'
    <3>1. i = p
      BY <1>2, <1>3, <2>2
    <3> QED
      BY <1>1, <1>2, <1>4, <2>2, <3>1 DEF b
  <2>3. /\ Len(queue') <= 1
        /\ \A k \in 1 .. Len(queue') :
             queue'[k].nonce = admin_nonce' /\ record'[queue'[k].event] = "in-progress"
    <3>1. CASE a = "sending"
      <4> DEFINE r == [event |-> h[1], handler |-> h, nonce |-> handler[h].nonce]
      <4>1. /\ queue' = Append(queue, r) /\ queue = <<>> /\ UNCHANGED record
            /\ r.nonce = admin_nonce /\ r.event = p /\ record[p] = "in-progress"
        BY <1>1, <1>2, <1>5, <3>1
      <4> HIDE DEF r
      <4>2. Len(queue') = 1 /\ queue'[1] = r
        BY <4>1
      <4> QED
        BY <1>4, <4>1, <4>2
    <3>2. CASE a # "sending"
      <4>1. queue' = queue
        BY <1>1, <3>2
      <4>2. CASE a \in {"saving", "marking", "completing"}
        <5>1. queue' = <<>>
          BY <1>2, <1>5, <4>1, <4>2
        <5> QED
          BY <5>1
      <4>3. CASE a \notin {"saving", "marking", "completing"}
        <5>1. record' = record
          BY <1>1, <4>3
        <5> QED
          BY <1>4, <4>1, <5>1 DEF OneRequest
      <4> QED
        BY <4>2, <4>3
    <3> QED
      BY <3>1, <3>2
  <2>4. \A i \in TopUps : refused'[i] # "nonce"
    BY <1>4 DEF OneRequest
  <2> QED
    BY <2>1, <2>2, <2>3, <2>4 DEF OneRequest
<1> QED
  BY <1>7, <1>8

LEMMA ExecuteSole ==
  ASSUME Alone, Paced, OneRequest, Execute
  PROVE  Paced' /\ OneRequest'
<1>0. /\ TypeOK /\ Owners
      /\ \A i \in TopUps : <<i, Replay>> \in Handlers /\ <<i, Live>> \in Handlers
  BY DEF Alone, Handlers
<1>1. /\ UNCHANGED <<chain, record, watcher, position>>
      /\ Len(queue) \in Nat /\ 1 \in 1 .. Len(queue)
      /\ Len(queue') = Len(queue) - 1
  BY <1>0, ExecuteAnswers
<1>2. Len(queue') = 0 /\ Len(queue) # 0
  <2>1. Len(queue) <= 1
    BY DEF OneRequest
  <2> QED
    BY <1>1, <2>1
<1>3. queue' = <<>> /\ queue # <<>>
  <2>1. TypeOK'
    BY <1>0, ExecuteType
  <2>2. queue' \in Seq(Request)
    BY <2>1 DEF TypeOK
  <2> QED
    BY <1>2, <2>2
<1>4. \A i \in TopUps : refused'[i] # "nonce"
  <2>1. queue[1].nonce = admin_nonce
    BY <1>1 DEF OneRequest
  <2> QED
    BY <1>0, <2>1, ExecuteAnswers DEF OneRequest
<1>5. ASSUME NEW g \in Handlers
      PROVE  \/ handler'[g] = handler[g]
             \/ handler[g].at = "waiting" /\ handler'[g].at = "completing"
  BY <1>0, ExecuteAnswers
<1>6. \A i : Past(i)' <=> Past(i)
  BY <1>1 DEF Past
<1>7. Paced'
  <2>1. \A i \in TopUps : ~ Busy(<<i, Live>>)'
    BY <1>0, <1>5 DEF Paced, Busy
  <2>2. ASSUME NEW i \in TopUps, handler'[<<i, Replay>>].at = "done"
        PROVE  Past(i)'
    BY <1>0, <1>5, <1>6, <2>2 DEF Paced
  <2>3. ASSUME NEW i \in TopUps, watcher' \in {"replaying", "listening"},
               i < position'
        PROVE  handler'[<<i, Replay>>].at = "done"
    <3>1. handler[<<i, Replay>>].at = "done"
      BY <1>1, <2>3 DEF Paced
    <3> QED
      BY <1>0, <1>5, <3>1
  <2>4. ASSUME NEW i \in TopUps
        PROVE  /\ handler'[<<i, Replay>>].at \notin {"idle", "looking up", "done"}
                    => chain'[i].l1token = FirstToken
               /\ handler'[<<i, Replay>>].at
                      \in {"reading nonce", "sending", "waiting", "completing"}
                    => record'[i] = "in-progress"
    BY <1>0, <1>1, <1>5 DEF Paced
  <2> HIDE DEF Busy, Past
  <2> QED
    BY <1>1, <1>6, <2>1, <2>2, <2>3, <2>4 DEF Paced
<1>8. ASSUME NEW i \in TopUps PROVE handler'[<<i, Replay>>].at # "sending"
  <2>1. handler[<<i, Replay>>].at # "sending"
    BY <1>3 DEF OneRequest
  <2> QED
    BY <1>0, <1>5, <2>1
<1>9. OneRequest'
  <2>1. Len(queue') <= 1 /\ \A k \in 1 .. Len(queue') : FALSE
    BY <1>2
  <2> QED
    BY <1>3, <1>4, <1>8, <2>1 DEF OneRequest
<1> QED
  BY <1>7, <1>9

\* Where the replay and its handlers are after the other steps.
LEMMA OtherStepPaced ==
  ASSUME Alone, Paced, [Next]_vars, ~ \E h \in Handlers : HandlerStep(h),
         ~ Execute, alone'
  PROVE  /\ \A i \in TopUps : handler'[<<i, Live>>].at = "idle"
         /\ \A i \in TopUps :
              watcher' \in {"replaying", "listening"} /\ i < position' =>
                handler'[<<i, Replay>>].at = "done"
<1>0. /\ TypeOK /\ Schedule
      /\ handler \in [Handlers -> HandlerType]
      /\ position \in Int
      /\ \A i \in TopUps : i \in Int /\ i >= 1
      /\ \A i \in TopUps : <<i, Replay>> \in Handlers /\ <<i, Live>> \in Handlers
  BY DEF Alone, TypeOK, HandlerType, Handlers, TopUps
<1>1. /\ \A i \in TopUps : handler[<<i, Live>>].at = "idle"
      /\ \A i \in TopUps :
           watcher \in {"replaying", "listening"} /\ i < position =>
             handler[<<i, Replay>>].at = "done"
  BY DEF Paced, Busy
<1>2. ~ Deliver /\ \A lists : ~ OtherTransaction(lists)
  BY Zenon DEF Deliver, OtherTransaction
<1>3. CASE \/ \E l1token \in L1Tokens, amount \in Amounts : TopUp(l1token, amount)
           \/ UNCHANGED vars
  <2>1. UNCHANGED <<handler, watcher, position>>
    BY <1>3 DEF TopUp, vars, watcher_vars
  <2> QED
    BY <1>1, <2>1
<1>4. CASE Start \/ Crash
  <2>1. /\ handler' = handler \/ handler' = [h \in Handlers |-> Idle]
        /\ watcher' \in {"down", "starting"}
    BY <1>4 DEF Start, Crash
  <2>2. ASSUME handler' = [h \in Handlers |-> Idle], NEW i \in TopUps
        PROVE  handler'[<<i, Live>>].at = "idle"
    BY <1>0, <2>2 DEF Idle
  <2> QED
    BY <1>1, <2>1, <2>2
<1>5. CASE Query
  <2>1. UNCHANGED handler /\ position' = 0
    BY <1>5 DEF Query
  <2> QED
    BY <1>0, <1>1, <2>1
<1>6. CASE Subscribe
  <2>1. UNCHANGED <<handler, position>> /\ watcher = "replaying"
    BY <1>6 DEF Subscribe
  <2> QED
    BY <1>1, <2>1
<1>7. CASE ReplayNext
  <2>1. /\ position' = position + 1 /\ watcher = "replaying"
        /\ handler' = [handler EXCEPT ![<<position + 1, Replay>>].at = "looking up"]
        /\ position > 0 => handler[<<position, Replay>>].at = "done"
    BY <1>7 DEF ReplayNext, Begins, GoesTo, ReplayIsFree, IsDone
  <2>2. ASSUME NEW i \in TopUps PROVE handler'[<<i, Live>>].at = "idle"
    <3>1. <<i, Live>> # <<position + 1, Replay>>
      BY DEF Live, Replay
    <3> QED
      BY <1>0, <1>1, <2>1, <3>1
  <2>3. ASSUME NEW i \in TopUps, i < position'
        PROVE  handler'[<<i, Replay>>].at = "done"
    <3>0. i \in Int /\ i >= 1 /\ position \in Int /\ i < position + 1
      BY <1>0, <2>1, <2>3
    <3>1. i < position \/ (i = position /\ position > 0)
      BY <3>0
    <3>2. handler[<<i, Replay>>].at = "done"
      BY <1>1, <2>1, <3>1
    <3>3. <<i, Replay>> # <<position + 1, Replay>>
      BY <1>0, <3>1
    <3> QED
      BY <1>0, <2>1, <3>2, <3>3
  <2> QED
    BY <2>2, <2>3
<1> QED
  BY <1>2, <1>3, <1>4, <1>5, <1>6, <1>7 DEF Next

LEMMA OtherStepSole ==
  ASSUME Alone, Answered, Paced, OneRequest, [Next]_vars,
         ~ \E h \in Handlers : HandlerStep(h), ~ Execute, alone'
  PROVE  Paced' /\ OneRequest'
<1>0. /\ TypeOK /\ Schedule
      /\ \A i \in TopUps : i \in Int /\ Len(chain) \in Int
      /\ \A i \in TopUps : <<i, Replay>> \in Handlers /\ <<i, Live>> \in Handlers
  BY ChainKept DEF Alone, Handlers, TopUps
<1>1. /\ record' = record
      /\ UNCHANGED <<refused, admin_nonce>>
      /\ \A h \in Handlers : handler'[h] = handler[h] \/ Rests(h)'
      /\ queue' = queue \/ Crash
  BY <1>0, OtherStep
<1>2. \A i \in TopUps : i <= Len(chain) =>
        /\ Past(i)' <=> Past(i)
        /\ chain'[i] = chain[i]
  BY <1>0, <1>1, DepositableKept DEF Past
<1>3. \A i \in TopUps : Busy(<<i, Replay>>) => i <= Len(chain)
  <2>1. ASSUME NEW i \in TopUps, Busy(<<i, Replay>>) PROVE i <= Len(chain)
    <3>1. <<i, Replay>>[1] \in 1 .. Len(chain)
      BY <1>0, <2>1, BusyInChain
    <3> QED
      BY <1>0, <3>1
  <2> QED
    BY <2>1
<1>4. \A i \in TopUps :
        \/ handler'[<<i, Replay>>] = handler[<<i, Replay>>]
        \/ handler'[<<i, Replay>>].at \in {"idle", "looking up"}
  BY <1>0, <1>1 DEF Rests
<1>5. Paced'
  <2>1. \A i \in TopUps : ~ Busy(<<i, Live>>)'
    BY OtherStepPaced DEF Busy
  <2>2. \A i \in TopUps :
          watcher' \in {"replaying", "listening"} /\ i < position' =>
            handler'[<<i, Replay>>].at = "done"
    BY OtherStepPaced
  <2>3. ASSUME NEW i \in TopUps, handler'[<<i, Replay>>].at = "done"
        PROVE  Past(i)'
    BY <1>2, <1>3, <1>4, <2>3 DEF Paced, Busy
  <2>4. ASSUME NEW i \in TopUps, record'[i] # "none"
        PROVE  /\ chain'[i].l1token = FirstToken
               /\ \A j \in TopUps : j < i => Past(j)'
    <3>1. record[i] # "none" /\ i <= Len(chain)
      BY <1>1, <2>4 DEF Answered
    <3>2. \A j \in TopUps : j < i => j <= Len(chain)
      BY <1>0, <3>1
    <3> QED
      BY <1>2, <3>1, <3>2 DEF Paced
  <2>5. ASSUME NEW i \in TopUps,
               handler'[<<i, Replay>>].at \notin {"idle", "looking up", "done"}
        PROVE  /\ chain'[i].l1token = FirstToken
               /\ handler'[<<i, Replay>>].at
                      \in {"reading nonce", "sending", "waiting", "completing"}
                    => record'[i] = "in-progress"
    <3>1. handler'[<<i, Replay>>] = handler[<<i, Replay>>]
      BY <1>4, <2>5
    <3>2. i <= Len(chain)
      BY <1>3, <2>5, <3>1 DEF Busy
    <3> QED
      BY <1>1, <1>2, <2>5, <3>1, <3>2 DEF Paced
  <2> HIDE DEF Busy, Past
  <2> QED
    BY <2>1, <2>2, <2>3, <2>4, <2>5 DEF Paced
<1>6. /\ Len(queue') <= 1
      /\ \A k \in 1 .. Len(queue') :
           queue'[k].nonce = admin_nonce' /\ record'[queue'[k].event] = "in-progress"
      /\ queue = <<>> => queue' = <<>>
  <2>1. CASE queue' = queue
    BY <1>1, <2>1 DEF OneRequest
  <2>2. CASE Crash
    <3>1. /\ queue \in Seq(Request)
          /\ \A k \in 1 .. Len(queue) : queue[k] \in Request
      BY <1>0, QueueTypes
    <3>2. \A k \in 1 .. Len(queue) :
            /\ Disowned(queue[k]).nonce = queue[k].nonce
            /\ Disowned(queue[k]).event = queue[k].event
      BY <3>1 DEF Disowned, Request
    <3>3. queue' = [k \in 1 .. Len(queue) |-> Disowned(queue[k])]
      BY <2>2, <3>1 DEF Crash
    <3>4. /\ Len(queue') = Len(queue)
          /\ \A k \in 1 .. Len(queue) : queue'[k] = Disowned(queue[k])
      BY <3>1, <3>3
    <3>5. queue = <<>> => queue' = <<>>
      BY <3>1, <3>3
    <3>6. /\ Len(queue) <= 1
          /\ \A k \in 1 .. Len(queue) :
               /\ queue[k].nonce = admin_nonce
               /\ record[queue[k].event] = "in-progress"
      BY DEF OneRequest
    <3>7. ASSUME NEW k \in 1 .. Len(queue')
          PROVE  /\ queue'[k].nonce = queue[k].nonce
                 /\ queue'[k].event = queue[k].event
      BY <3>2, <3>4
    <3> QED
      BY <1>1, <3>4, <3>5, <3>6, <3>7
  <2> QED
    BY <1>1, <2>1, <2>2
<1>7. ASSUME NEW i \in TopUps
      PROVE  /\ handler'[<<i, Replay>>].at
                    \in {"reading nonce", "sending", "completing"}
                  => queue' = <<>>
             /\ handler'[<<i, Replay>>].at = "sending" =>
                  handler'[<<i, Replay>>].nonce = admin_nonce'
  BY <1>1, <1>4, <1>6 DEF OneRequest
<1> QED
  BY <1>1, <1>5, <1>6, <1>7 DEF OneRequest

\* They are an invariant, as long as no call has failed and nobody else has
\* used the key.
LEMMA NextSole == Alone /\ Answered /\ Sole /\ [Next]_vars => Sole'
<1> SUFFICES ASSUME Alone, Answered, Sole, [Next]_vars, alone', failures' = 0
             PROVE  Paced' /\ OneRequest'
  BY Zenon DEF Sole
<1>0. TypeOK /\ Owners
  BY DEF Alone
<1>1. CASE \E h \in Handlers : HandlerStep(h)
  <2>1. PICK h \in Handlers : HandlerStep(h)
    BY <1>1
  <2>2. alone' = alone
    BY <2>1, HandlerStepElsewhere, Zenon DEF Elsewhere
  <2>3. failures = 0
    BY <1>0, <2>1, ReliableStep
  <2> QED
    BY <2>1, <2>2, <2>3, HandlerStepSole, Zenon DEF Sole
<1>2. CASE Execute
  <2>1. alone' = alone /\ failures' = failures
    BY <1>0, <1>2, ExecuteAnswers, Zenon
  <2> QED
    BY <1>2, <2>1, ExecuteSole, Zenon DEF Sole
<1>3. CASE ~ (\E h \in Handlers : HandlerStep(h)) /\ ~ Execute
  <2>1. alone /\ failures = 0
    BY <1>0, <1>3, OtherStep, Zenon
  <2> QED
    BY <1>3, <2>1, OtherStepSole, Zenon DEF Sole
<1> QED
  BY <1>1, <1>2, <1>3

LEMMA InitAnswered == Init => Answered /\ Sole
<1> SUFFICES ASSUME Init PROVE Answered /\ Paced /\ OneRequest
  BY DEF Sole
<1>1. /\ \A i \in TopUps : record[i] = "none" /\ refused[i] = "no"
      /\ \A h \in Handlers : handler[h].at = "idle"
      /\ queue = <<>> /\ watcher = "down"
      /\ \A i \in TopUps : <<i, Replay>> \in Handlers /\ <<i, Live>> \in Handlers
  BY DEF Init, Idle, Handlers
<1>2. Len(queue) = 0
  BY <1>1
<1>3. Answered
  BY <1>1, <1>2 DEF Answered
<1>4. Paced
  BY <1>1 DEF Paced, Busy
<1>5. OneRequest
  <2>1. \A i \in TopUps : handler[<<i, Replay>>].at = "idle"
    BY <1>1
  <2> QED
    BY <1>1, <1>2, <2>1 DEF OneRequest
<1> QED
  BY <1>3, <1>4, <1>5

\* As long as no call to the chain, the database or the rollup has failed, a
\* completed top-up that was not credited has been refused by the rollup; and
\* as long as the replay alone uses the admin's key, only because its token is
\* not listed, through every crash that leaves a request behind.
THEOREM UncreditedWasRefusedCorrect == Spec => []UncreditedWasRefused
<1>1. Alone /\ Answered /\ Sole => UncreditedWasRefused
  <2> SUFFICES ASSUME Alone, Answered, Sole, failures = 0, NEW i \in TopUps,
                      Depositable(i), record[i] = "completed", credits[i] = 0
               PROVE  refused[i] \in IF alone THEN {"token"}
                                     ELSE {"token", "nonce"}
    BY DEF UncreditedWasRefused
  <2>1. refused[i] # "no"
    BY DEF Answered, HasAnswer
  <2>2. refused[i] \in {"no", "nonce", "token"}
    BY DEF Alone, TypeOK
  <2>3. CASE alone
    <3>1. refused[i] # "nonce"
      BY <2>3, Zenon DEF Sole, OneRequest
    <3> QED
      BY <2>1, <2>2, <2>3, <3>1
  <2>4. CASE ~ alone
    BY <2>1, <2>2, <2>4
  <2> QED
    BY <2>3, <2>4
<1> QED
  BY <1>1, InitAlone, NextAlone, InitAnswered, NextAnswered, NextSole, PTL
     DEF Spec
=============================================================================
