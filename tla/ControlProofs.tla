--------------------------- MODULE ControlProofs ----------------------------
(***************************************************************************)
(* The promises of the control path, for every set of commands, capacity   *)
(* of the dedup, deadlines and bounds.                                     *)
(***************************************************************************)
EXTENDS Control, TLAPS

\* Where the agent and the handlers are, beyond their types.
Shape ==
    /\ ControlTypeOK
    /\ attempts + Len(down) <= sends
    /\ agent = "exec" <=> wait # 0
    /\ agent \in {"exec", "send"} => cmd \in Ids
    /\ agent = "send" => result \in Results
    /\ \A h \in handlers : h.att <= attempts /\ (h.att = wait => h.id = cmd)

\* Whatever says "ok" rests on a write.
OkIsWritten ==
    /\ \A h \in handlers : h.st = "written" => writes[h.id] > 0
    /\ \A c \in DOMAIN entries : entries[c] = "ok" => writes[c] > 0
    /\ \A c \in Ids : cache[c] = "ok" => writes[c] > 0
    /\ agent = "send" /\ result = "ok" => writes[cmd] > 0
    /\ \A g \in got : g[3] = "ok" => writes[g[2]] > 0

\* What this gateway process answered, or is about to, is what it cached.
Paused(r) == r = "configuration_paused"

AnswersCached ==
    /\ agent = "exec" => cache[cmd] = None
    /\ agent = "send" => Paused(result) \/ result = cache[cmd]
    /\ \A g \in got : /\ g[1] <= restarts.gateway
                      /\ g[1] = restarts.gateway => Paused(g[3]) \/ g[3] = cache[g[2]]
    /\ OneAnswerPerLife

\* The connector's half of NoDoubleWrite: what the dedup has not forgotten it knows
\* from the reservation on, and one handler at a time is past the reservation.
Past(h, c) == h.id = c /\ h.st # "start"

OncePerConnector ==
    \A c \in Ids \ forgotten :
        /\ writes[c] <= 1
        /\ writes[c] > 0 => Known(c)
        /\ \A h \in handlers : Past(h, c) => Known(c) /\ (h.st = "writing" => writes[c] = 0)
        /\ \A h, k \in handlers : Past(h, c) /\ Past(k, c) => h = k

\* The gateway's half: in its first life a command is requested once, after which it
\* is cached or awaited.
Requested(c) == cache[c] # None \/ (agent = "exec" /\ cmd = c)

OncePerGateway ==
    restarts.gateway = 0 => \A c \in Ids :
        /\ writes[c] <= 1
        /\ writes[c] > 0 => Requested(c)
        /\ \A h \in handlers : h.id = c => Requested(c) /\ (h.st # "written" => writes[c] = 0)
        /\ \A h, k \in handlers : h.id = c /\ k.id = c => h = k

ControlInv == Shape /\ OkIsWritten /\ AnswersCached /\ OncePerConnector /\ OncePerGateway

-----------------------------------------------------------------------------
(* Results, handlers and the dedup's map.                                  *)

\* The three ways a command is refused before it is sent to a connector.
LEMMA RefusalNames == Refusals = {"no_connector", "not_writable", "bad_request"}
<1> DEFINE x1 == [found |-> FALSE, writable |-> FALSE, release |-> FALSE, asked |-> FALSE,
                  target |-> "missing"]
           x2 == [x1 EXCEPT !.found = TRUE]
           x3 == [found |-> TRUE, writable |-> TRUE, release |-> TRUE, asked |-> FALSE,
                  target |-> "missing"]
<1>1. \A x \in Resolutions : Route(x) \in {"no_connector", "not_writable", "bad_request", "request"}
  BY DEF Route, Resolutions
<1>2. x1 \in Resolutions /\ Route(x1) = "no_connector" BY DEF Route, Resolutions
<1>3. x2 \in Resolutions /\ Route(x2) = "not_writable" BY Zenon DEF Route, Resolutions
<1>4. x3 \in Resolutions /\ Route(x3) = "bad_request" BY DEF Route, Resolutions
<1> QED BY <1>1, <1>2, <1>3, <1>4 DEF Refusals

\* No result is the absent one or the sentinel of a write in flight.
LEMMA ResultNames ==
    /\ Results = {"no_connector", "not_writable", "bad_request", "ok", "device_error",
                  "in_flight", "not_connected", "no_responder", "timeout",
                  "configuration_paused"}
    /\ None \notin Results /\ InFlight \notin Results
BY RefusalNames DEF Results, None, InFlight

\* A handler that moves on is the same handler.
LEMMA HandlerMoves ==
    ASSUME NEW h \in Handler, NEW s \in {"start", "writing", "written"}
    PROVE  /\ [h EXCEPT !.st = s] \in Handler
           /\ [h EXCEPT !.st = s].id = h.id /\ [h EXCEPT !.st = s].att = h.att
           /\ [h EXCEPT !.st = s].st = s
BY DEF Handler

\* A handler that ages is the same handler.
LEMMA HandlerAges ==
    ASSUME NEW h \in Handler
    PROVE  /\ Older(h) \in Handler
           /\ Older(h).id = h.id /\ Older(h).att = h.att /\ Older(h).st = h.st
BY TimeoutsAssumption DEF Handler, Older

\* A reservation adds its command and loses the evicted one.
LEMMA Reserved ==
    ASSUME Shape, NEW c \in Ids, Reserve(c)
    PROVE  /\ c \notin DOMAIN entries
           /\ DOMAIN entries' = (DOMAIN entries \ Evictees) \cup {c}
           /\ entries'[c] = InFlight
           /\ \A k \in DOMAIN entries \ Evictees : entries'[k] = entries[k]
           /\ Evictees \subseteq Ids
           /\ keys' \in Seq(Ids)
<1> DEFINE kept == [k \in DOMAIN entries \ Evictees |-> entries[k]]
<1>1. /\ c \notin DOMAIN entries /\ entries' = Store(kept, c, InFlight)
      /\ keys' = Append(IF Evictees = {} THEN keys ELSE Tail(keys), c)
  BY DEF Reserve, Known
<1>2. /\ DOMAIN Store(kept, c, InFlight) = DOMAIN kept \cup {c}
      /\ Store(kept, c, InFlight)[c] = InFlight
      /\ \A k \in DOMAIN kept : k # c => Store(kept, c, InFlight)[k] = kept[k]
  BY DEF Store
<1>3. keys \in Seq(Ids) BY DEF Shape, ControlTypeOK
<1>4. Evictees # {} => keys # << >> /\ Evictees = {Head(keys)}
  BY <1>3, CapAssumption DEF Evictees
<1>5. Evictees \subseteq Ids BY <1>3, <1>4
<1>6. keys' \in Seq(Ids) BY <1>1, <1>3, <1>4
<1> QED BY <1>1, <1>2, <1>5, <1>6, Zenon

-----------------------------------------------------------------------------
(* The steps, by what they do.                                             *)

\* The next command is answered without a request.
AnswersNow(c, r) ==
    /\ agent = "recv" /\ agent' = "send" /\ cmd' = c /\ result' = r
    /\ \/ cache' = cache /\ (r = cache[c] \/ Paused(r))
       \/ cache[c] = None /\ Remember(c, r) /\ r # "ok"
    /\ down # << >> /\ down' = Tail(down)
    /\ UNCHANGED <<streamUp, sends, breaks, wait, waitAge, attempts, connectorVars, restarts,
                   got>>

\* A handler replies and ends; past the reservation its reply is stored.
Replies(h, r) ==
    /\ handlers' = handlers \ {h}
    /\ \/ h.att = wait /\ agent = "exec" /\ cmd = h.id /\ Returns(r)
       \/ UNCHANGED agentVars
    /\ \/ UNCHANGED entries
       \/ h.st # "start" /\ entries' = Store(entries, h.id, r)
    /\ r = "ok" => h.st = "written" \/ (Known(h.id) /\ entries[h.id] = "ok")
    /\ UNCHANGED <<keys, connUp, writes, forgotten, streamVars, restarts, got>>

\* Nothing the promises speak of changes.
Quiet ==
    /\ agent' = agent \/ {agent, agent'} \subseteq {"down", "recv"}
    /\ UNCHANGED <<cmd, result, cache, wait, handlers, entries, writes, forgotten, restarts,
                   got>>

\* Execute's early returns.
LEMMA ExecuteAnswers ==
    ASSUME Shape, NEW c \in Ids,
           ExecuteCached(c) \/ ExecutePaused(c) \/ ExecuteRefused(c) \/ ExecuteNoResponder(c)
    PROVE  \E r \in Results : AnswersNow(c, r)
<1>1. cache[c] \in Results \cup {None} BY DEF Shape, ControlTypeOK
<1>2. CASE ExecuteCached(c)
  <2>1. cache[c] \in Results /\ AnswersNow(c, cache[c])
    BY <1>1, <1>2 DEF ExecuteCached, Recv, Answer, AnswersNow
  <2> QED BY <2>1
<1>3. CASE ExecutePaused(c)
  <2>1. AnswersNow(c, "configuration_paused")
    BY <1>3 DEF ExecutePaused, Recv, Answer, AnswersNow, Paused
  <2> QED BY <2>1, ResultNames
<1>4. CASE ExecuteRefused(c)
  <2>1. PICK r \in Refusals : Answer(c, r) /\ Remember(c, r) BY <1>4 DEF ExecuteRefused
  <2>2. r \in Results /\ r # "ok" BY RefusalNames, ResultNames
  <2>3. AnswersNow(c, r) BY <1>4, <2>1, <2>2 DEF ExecuteRefused, Recv, Answer, AnswersNow
  <2> QED BY <2>2, <2>3
<1>5. CASE ExecuteNoResponder(c)
  <2>1. AnswersNow(c, "no_responder")
    BY <1>5 DEF ExecuteNoResponder, Recv, Answer, AnswersNow
  <2> QED BY <2>1, ResultNames
<1> QED BY <1>2, <1>3, <1>4, <1>5

\* A reply is taken only by the request that awaits it.
LEMMA ReplyReturns ==
    ASSUME Shape, NEW h \in handlers, NEW r, Reply(h, r)
    PROVE  /\ handlers' = handlers \ {h}
           /\ \/ h.att = wait /\ agent = "exec" /\ cmd = h.id /\ Returns(r)
              \/ UNCHANGED agentVars
<1>1. h.att \in 1..MaxSends BY DEF Shape, ControlTypeOK, Handler
<1> QED BY <1>1 DEF Reply, Shape

\* A handler replies, reserves or writes.
LEMMA HandlerSteps ==
    ASSUME Shape, NEW h \in handlers, Handle(h)
    PROVE  \/ \E r \in Results : Replies(h, r)
           \/ HandlerReserves(h) \/ DeviceWritten(h)
<1>1. CASE HandlerRefuses(h)
  <2>1. PICK r \in {"bad_request", "not_connected"} : Reply(h, r) BY <1>1 DEF HandlerRefuses
  <2>2. Replies(h, r)
    BY <1>1, <2>1, ReplyReturns DEF HandlerRefuses, Replies, Handle, dedupVars
  <2> QED BY <2>2, ResultNames
<1>2. CASE HandlerDuplicate(h)
  <2> DEFINE r == IF entries[h.id] = InFlight THEN "in_flight" ELSE entries[h.id]
  <2>1. Known(h.id) /\ Reply(h, r) BY <1>2 DEF HandlerDuplicate
  <2>2. r \in Results /\ (r = "ok" => entries[h.id] = "ok")
    BY <2>1, ResultNames DEF Known, Shape, ControlTypeOK
  <2>3. Replies(h, r)
    BY <1>2, <2>1, <2>2, ReplyReturns DEF HandlerDuplicate, Replies, Handle, dedupVars
  <2> QED BY <2>2, <2>3
<1>3. ASSUME NEW r \in Results, Finish(h, r), h.st # "start", r = "ok" => h.st = "written"
      PROVE  Replies(h, r)
  BY <1>3, ReplyReturns DEF Finish, Complete, Replies, Handle
<1>4. CASE HandlerNotWritable(h)
  BY <1>3, <1>4, ResultNames DEF HandlerNotWritable
<1>5. CASE HandlerDone(h) BY <1>3, <1>5, ResultNames DEF HandlerDone
<1>6. CASE HandlerFails(h) BY <1>3, <1>6, ResultNames DEF HandlerFails
<1> QED BY <1>1, <1>2, <1>4, <1>5, <1>6 DEF Handle

\* Every step is one of these.
LEMMA StepCases ==
    ASSUME Shape, [ControlNext]_controlVars
    PROVE  \/ Quiet
           \/ \E c \in Ids : \/ \E r \in Results : AnswersNow(c, r)
                             \/ ExecuteRequest(c)
           \/ Timeout \/ SendResult \/ SendFails
           \/ \E h \in handlers : \/ \E r \in Results : Replies(h, r)
                                  \/ Handle(h) /\ HandlerReserves(h)
                                  \/ Handle(h) /\ DeviceWritten(h)
           \/ Tick \/ GatewayRestart \/ ConnectorStops
<1>1. ASSUME NEW c \in Ids, BosSends(c) PROVE Quiet
  BY <1>1 DEF BosSends, Quiet, agentVars, connectorVars, dedupVars
<1>2. CASE StreamBreaks \/ Connect \/ RecvFails \/ ConnectorStarts
  BY <1>2 DEF StreamBreaks, Connect, RecvFails, ConnectorStarts, Quiet, agentVars,
              connectorVars, dedupVars
<1>3. CASE UNCHANGED controlVars
  BY <1>3 DEF controlVars, Quiet, agentVars, connectorVars, dedupVars
<1> QED BY <1>1, <1>2, <1>3, ExecuteAnswers, HandlerSteps DEF ControlNext

-----------------------------------------------------------------------------
(* Shape.                                                                  *)

\* The steps of the agent and of Building OS keep the shape.
LEMMA ShapeKeptByAgent ==
    ASSUME Shape,
           \/ \E c \in Ids : BosSends(c) \/ (\E r \in Results : AnswersNow(c, r))
                             \/ ExecuteRequest(c)
           \/ StreamBreaks \/ Connect \/ RecvFails \/ Timeout \/ SendResult \/ SendFails
           \/ GatewayRestart
    PROVE  Shape'
<1> USE ControlBoundsAssumption, TimeoutsAssumption
<1>1. /\ down \in Seq(Ids) /\ Len(down) \in Nat /\ attempts \in Nat /\ sends \in Nat
      /\ \A h \in handlers : h \in Handler /\ h.att \in 1..MaxSends
  BY DEF Shape, ControlTypeOK, Handler
<1>2. ASSUME NEW c \in Ids, BosSends(c) PROVE Shape'
  <2>1. down' \in Seq(Ids) /\ Len(down') = Len(down) + 1 BY <1>1, <1>2 DEF BosSends
  <2> QED BY <1>1, <1>2, <2>1, SMTT(20), Zenon
       DEF BosSends, agentVars, connectorVars, dedupVars, Shape, ControlTypeOK
<1>3. ASSUME NEW c \in Ids, NEW r \in Results, AnswersNow(c, r) PROVE Shape'
  <2>1. down' \in Seq(Ids) /\ Len(down') = Len(down) - 1 BY <1>1, <1>3 DEF AnswersNow
  <2>2. cache' \in [Ids -> Results \cup {None}]
    BY <1>3, Zenon DEF AnswersNow, Remember, Shape, ControlTypeOK
  <2>3. wait = 0 BY <1>3 DEF AnswersNow, Shape
  <2>4. \A h \in handlers : h.att # wait BY <1>1, <2>3
  <2> QED BY <1>1, <1>3, <2>1, <2>2, <2>4, SMTT(30)
       DEF AnswersNow, connectorVars, dedupVars, Shape, ControlTypeOK
<1>4. ASSUME NEW c \in Ids, ExecuteRequest(c) PROVE Shape'
  <2> DEFINE k == [att |-> attempts + 1, id |-> c, st |-> "start", age |-> 0]
  <2>1. /\ down # << >> /\ down' = Tail(down) /\ cmd' = c /\ agent' = "exec"
        /\ attempts' = attempts + 1 /\ wait' = attempts + 1 /\ waitAge' = 0
        /\ handlers' = handlers \cup {k}
        /\ UNCHANGED <<streamUp, sends, breaks, result, cache, entries, keys, connUp, writes,
                       forgotten, restarts, got>>
    BY <1>4 DEF ExecuteRequest, Recv, dedupVars
  <2>2. down' \in Seq(Ids) /\ Len(down') = Len(down) - 1 /\ Len(down) >= 1
    BY <1>1, <2>1
  <2>3. attempts + 1 <= MaxSends BY <1>1, <2>2 DEF Shape, ControlTypeOK
  <2>4. k \in Handler /\ k.att = attempts + 1 /\ k.id = c BY <1>1, <2>3 DEF Handler
  <2>5. ControlTypeOK'
    BY <1>1, <2>1, <2>2, <2>3, <2>4, SMTT(30) DEF Shape, ControlTypeOK
  <2>6. \A h \in handlers' : h.att <= attempts' /\ (h.att = wait' => h.id = cmd')
    BY <1>1, <2>1, <2>4 DEF Shape
  <2> QED BY <1>1, <2>1, <2>2, <2>5, <2>6 DEF Shape
<1>5. CASE StreamBreaks \/ Connect \/ RecvFails
  <2>1. streamUp \in BOOLEAN /\ breaks \in 0..MaxBreaks BY DEF Shape, ControlTypeOK
  <2>2. streamUp' \in BOOLEAN
    BY <1>5, <2>1, Zenon DEF StreamBreaks, Connect, RecvFails, streamVars
  <2>3. down' \in {down, << >>} /\ breaks' \in 0..MaxBreaks
    BY <1>5, <2>1 DEF StreamBreaks, Connect, RecvFails, streamVars
  <2>4. down' \in Seq(Ids) /\ Len(down') <= Len(down)
    <3>1. << >> \in Seq(Ids) /\ Len(<< >>) = 0 OBVIOUS
    <3>2. CASE down' = down BY <1>1, <3>2
    <3>3. CASE down' = << >> BY <1>1, <3>1, <3>3
    <3> QED BY <2>3, <3>2, <3>3
  <2>5. /\ agent' = agent \/ {agent, agent'} \subseteq {"down", "recv"}
        /\ UNCHANGED <<sends, cmd, result, cache, wait, waitAge, attempts, connectorVars,
                       restarts, got>>
    BY <1>5 DEF StreamBreaks, Connect, RecvFails, agentVars, streamVars
  <2> QED BY <1>1, <2>2, <2>3, <2>4, <2>5, SMTT(20), Zenon DEF connectorVars, dedupVars, Shape, ControlTypeOK
<1>6. CASE Timeout
  <2>1. /\ agent = "exec" /\ agent' = "send" /\ result' = "timeout" /\ wait' = 0 /\ waitAge' = 0
        /\ cache' = [cache EXCEPT ![cmd] = "timeout"]
        /\ UNCHANGED <<cmd, attempts, connectorVars, streamVars, restarts, got>>
    BY <1>6 DEF Timeout, Returns, Remember
  <2>2. "timeout" \in Results BY ResultNames
  <2>3. cache' \in [Ids -> Results \cup {None}] BY <2>1, <2>2 DEF Shape, ControlTypeOK
  <2> QED BY <1>1, <2>1, <2>2, <2>3
       DEF connectorVars, streamVars, dedupVars, Shape, ControlTypeOK
<1>7. CASE SendResult
  <2>1. got' \subseteq (0..MaxRestarts) \X Ids \X Results
    BY <1>7 DEF SendResult, Shape, ControlTypeOK
  <2>2. \A h \in handlers : h.att # wait BY <1>1, <1>7 DEF SendResult, Shape
  <2> QED BY <1>1, <1>7, <2>1, <2>2
       DEF SendResult, connectorVars, streamVars, dedupVars, Shape, ControlTypeOK
<1>8. CASE SendFails
  <2>1. \A h \in handlers : h.att # wait BY <1>1, <1>8 DEF SendFails, Shape
  <2> QED BY <1>1, <1>8, <2>1, Zenon
       DEF SendFails, connectorVars, streamVars, dedupVars, Shape, ControlTypeOK
<1>9. CASE GatewayRestart
  <2>1. /\ restarts \in [gateway : 0..MaxRestarts, connector : 0..MaxRestarts]
        /\ restarts.gateway < MaxRestarts
        /\ restarts' = [restarts EXCEPT !.gateway = restarts.gateway + 1]
    BY <1>9 DEF GatewayRestart, Shape, ControlTypeOK
  <2>2. restarts' \in [gateway : 0..MaxRestarts, connector : 0..MaxRestarts] BY <2>1
  <2>3. streamUp' \in BOOLEAN BY <1>9, Zenon DEF GatewayRestart
  <2>4. /\ agent' = "down" /\ cmd' = None /\ result' = None /\ wait' = 0 /\ waitAge' = 0
        /\ cache' = [c \in Ids |-> None] /\ down' = << >>
        /\ UNCHANGED <<attempts, sends, breaks, connectorVars, got>>
    BY <1>9 DEF GatewayRestart
  <2>5. cache' \in [Ids -> Results \cup {None}] /\ down' \in Seq(Ids) /\ Len(down') = 0
    BY <2>4
  <2>6. ControlTypeOK'
    BY <2>2, <2>3, <2>4, <2>5, ControlBoundsAssumption, TimeoutsAssumption, SMTT(20), Zenon
       DEF connectorVars, dedupVars, Shape, ControlTypeOK
  <2>7. \A h \in handlers : h.att <= attempts /\ h.att # 0 BY <1>1 DEF Shape
  <2>8. attempts' + Len(down') <= sends' BY <1>1, <2>4, <2>5 DEF Shape
  <2> QED BY <2>4, <2>6, <2>7, <2>8 DEF connectorVars, Shape
<1> QED BY <1>2, <1>3, <1>4, <1>5, <1>6, <1>7, <1>8, <1>9

\* The steps of the connector and of time keep the shape.
LEMMA ShapeKeptByConnector ==
    ASSUME Shape,
           \/ \E h \in handlers : \/ \E r \in Results : Replies(h, r)
                                  \/ Handle(h) /\ HandlerReserves(h)
                                  \/ Handle(h) /\ DeviceWritten(h)
           \/ Tick \/ ConnectorStops \/ ConnectorStarts
    PROVE  Shape'
<1> USE ControlBoundsAssumption, TimeoutsAssumption
<1>1. \A h \in handlers : h \in Handler /\ h.att \in 1..MaxSends /\ h.id \in Ids
  BY DEF Shape, ControlTypeOK, Handler
<1>2. ASSUME NEW h \in handlers, NEW r \in Results, Replies(h, r) PROVE Shape'
  <2>1. /\ DOMAIN entries' \subseteq Ids
        /\ \A c \in DOMAIN entries' : entries'[c] \in Results \cup {InFlight}
    <3>1. /\ DOMAIN entries \subseteq Ids
          /\ \A c \in DOMAIN entries : entries[c] \in Results \cup {InFlight}
      BY Zenon DEF Shape, ControlTypeOK
    <3>2. CASE entries' = Store(entries, h.id, r) BY <1>1, <3>1, <3>2, Zenon DEF Store
    <3> QED BY <1>2, <3>1, <3>2 DEF Replies
  <2>2. /\ handlers' \subseteq handlers
        /\ UNCHANGED <<keys, connUp, writes, forgotten, streamUp, down, sends, breaks, restarts,
                       got>>
    BY <1>2 DEF Replies, streamVars
  <2>3. CASE agent = "exec" /\ Returns(r)
    <3>1. /\ agent' = "send" /\ result' = r /\ wait' = 0 /\ waitAge' = 0
          /\ cache' = [cache EXCEPT ![cmd] = r] /\ UNCHANGED <<cmd, attempts>>
      BY <2>3 DEF Returns, Remember
    <3> QED BY <1>1, <2>1, <2>2, <2>3, <3>1 DEF Shape, ControlTypeOK
  <2>4. CASE UNCHANGED agentVars
    BY <1>1, <2>1, <2>2, <2>4, Zenon DEF agentVars, Shape, ControlTypeOK
  <2> QED BY <1>2, <2>3, <2>4, Zenon DEF Replies
<1>3. ASSUME NEW h \in handlers, Handle(h), HandlerReserves(h) PROVE Shape'
  <2> DEFINE k == [h EXCEPT !.st = "writing"]
  <2>1. k \in Handler /\ k.id = h.id /\ k.att = h.att BY <1>1, HandlerMoves, Zenon
  <2>2. /\ DOMAIN entries' \subseteq Ids /\ keys' \in Seq(Ids) /\ Evictees \subseteq Ids
        /\ \A c \in DOMAIN entries' : entries'[c] \in Results \cup {InFlight}
    <3>1. /\ DOMAIN entries \subseteq Ids
          /\ \A c \in DOMAIN entries : entries[c] \in Results \cup {InFlight}
      BY DEF Shape, ControlTypeOK
    <3>2. h.id \in Ids /\ Reserve(h.id) BY <1>1, <1>3 DEF HandlerReserves
    <3>3. /\ DOMAIN entries' = (DOMAIN entries \ Evictees) \cup {h.id}
          /\ entries'[h.id] = InFlight
          /\ \A c \in DOMAIN entries \ Evictees : entries'[c] = entries[c]
          /\ Evictees \subseteq Ids /\ keys' \in Seq(Ids)
      BY <3>2, Reserved, Zenon
    <3> QED BY <3>1, <3>2, <3>3, Zenon
  <2>3. /\ handlers' = (handlers \ {h}) \cup {k} /\ forgotten' = forgotten \cup Evictees
        /\ UNCHANGED <<agentVars, connUp, writes, streamVars, restarts, got>>
    BY <1>3 DEF Handle, HandlerReserves
  <2> QED BY <1>1, <2>1, <2>2, <2>3, Zenon DEF agentVars, streamVars, Shape, ControlTypeOK
<1>4. ASSUME NEW h \in handlers, Handle(h), DeviceWritten(h) PROVE Shape'
  <2> DEFINE k == [h EXCEPT !.st = "written"]
  <2>1. k \in Handler /\ k.id = h.id /\ k.att = h.att BY <1>1, HandlerMoves, Zenon
  <2>2. writes' \in [Ids -> Nat]
    <3>1. writes \in [Ids -> Nat] /\ writes' = [writes EXCEPT ![h.id] = writes[h.id] + 1]
      BY <1>4 DEF DeviceWritten, Shape, ControlTypeOK
    <3> QED BY <1>1, <3>1
  <2>3. /\ handlers' = (handlers \ {h}) \cup {k}
        /\ UNCHANGED <<agentVars, dedupVars, connUp, forgotten, streamVars, restarts, got>>
    BY <1>4 DEF Handle, DeviceWritten
  <2> QED BY <1>1, <2>1, <2>2, <2>3, Zenon DEF agentVars, streamVars, dedupVars, Shape, ControlTypeOK
<1>5. CASE Tick
  <2>1. handlers' \subseteq Handler
        /\ \A k \in handlers' : \E h \in handlers : k.att = h.att /\ k.id = h.id
    BY <1>1, <1>5, HandlerAges DEF Tick
  <2>2. waitAge' \in 0..DispatchTimeout
    BY <1>5 DEF Tick, DueNow, DueRequest, Shape, ControlTypeOK
  <2>3. UNCHANGED <<agent, cmd, result, cache, wait, attempts, entries, keys, connUp, writes,
                    forgotten, streamUp, down, sends, breaks, restarts, got>>
    BY <1>5 DEF Tick, dedupVars, streamVars
  <2> QED BY <2>1, <2>2, <2>3, Zenon DEF Shape, ControlTypeOK
<1>6. CASE ConnectorStops
  <2>1. /\ restarts \in [gateway : 0..MaxRestarts, connector : 0..MaxRestarts]
        /\ restarts.connector < MaxRestarts
        /\ restarts' = [restarts EXCEPT !.connector = restarts.connector + 1]
    BY <1>6 DEF ConnectorStops, Shape, ControlTypeOK
  <2>2. restarts' \in [gateway : 0..MaxRestarts, connector : 0..MaxRestarts] BY <2>1
  <2>3. connUp' \in BOOLEAN BY <1>6, Zenon DEF ConnectorStops
  <2>4. /\ entries' = << >> /\ keys' = << >> /\ handlers' = {}
        /\ forgotten' = forgotten \cup DOMAIN entries
        /\ UNCHANGED <<agentVars, writes, streamVars, got>>
    BY <1>6 DEF ConnectorStops
  <2>5. DOMAIN entries' = {} /\ keys' \in Seq(Ids) BY <2>4
  <2>6. forgotten' \subseteq Ids BY <2>4, Zenon DEF Shape, ControlTypeOK
  <2> QED BY <2>2, <2>3, <2>4, <2>5, <2>6 DEF agentVars, streamVars, Shape, ControlTypeOK
<1>7. CASE ConnectorStarts
  BY <1>7, Zenon DEF ConnectorStarts, agentVars, dedupVars, streamVars, Shape, ControlTypeOK
<1> QED BY <1>2, <1>3, <1>4, <1>5, <1>6, <1>7

\* The shape is inductive.
LEMMA ShapeKept ==
    ASSUME Shape, [ControlNext]_controlVars
    PROVE  Shape'
<1>1. CASE UNCHANGED controlVars
  BY <1>1 DEF controlVars, agentVars, connectorVars, streamVars, dedupVars, Shape,
              ControlTypeOK
<1>2. CASE ControlNext
  BY <1>2, ExecuteAnswers, HandlerSteps, ShapeKeptByAgent, ShapeKeptByConnector DEF ControlNext
<1> QED BY <1>1, <1>2

-----------------------------------------------------------------------------
(* OkIsWritten.                                                            *)

\* No step takes a write back.
LEMMA WritesGrow ==
    ASSUME Shape, NEW h \in handlers, DeviceWritten(h)
    PROVE  /\ h.id \in Ids /\ writes \in [Ids -> Nat]
           /\ writes' = [writes EXCEPT ![h.id] = writes[h.id] + 1]
           /\ writes'[h.id] = writes[h.id] + 1
           /\ \A c \in Ids : c # h.id => writes'[c] = writes[c]
           /\ \A c \in Ids : writes[c] \in Nat /\ writes'[c] \in Nat /\ writes[c] <= writes'[c]
<1>1. h.id \in Ids /\ writes \in [Ids -> Nat] BY Zenon DEF Shape, ControlTypeOK, Handler
<1>2. writes' = [writes EXCEPT ![h.id] = writes[h.id] + 1] BY DEF DeviceWritten
<1> QED BY <1>1, <1>2

\* Every "ok" comes from a handler that wrote, or from one that is cached.
LEMMA OkKept ==
    ASSUME Shape, OkIsWritten, [ControlNext]_controlVars
    PROVE  OkIsWritten'
<1>1. /\ \A h \in handlers : h \in Handler /\ h.id \in Ids
      /\ cache \in [Ids -> Results \cup {None}] /\ DOMAIN entries \subseteq Ids
      /\ \A g \in got : g[2] \in Ids
  BY DEF Shape, ControlTypeOK, Handler
<1>2. CASE Quiet BY <1>2 DEF Quiet, OkIsWritten
<1>3. ASSUME NEW c \in Ids, NEW r \in Results, AnswersNow(c, r) PROVE OkIsWritten'
  <2>1. /\ agent' = "send" /\ cmd' = c /\ result' = r
        /\ UNCHANGED <<handlers, entries, writes, got>>
    BY <1>3 DEF AnswersNow, connectorVars, dedupVars
  <2>2. r = "ok" => cache' = cache /\ cache[c] = "ok"
    BY <1>3, Zenon DEF AnswersNow, Paused
  <2>3. \A d \in Ids : cache'[d] = "ok" => cache[d] = "ok"
    BY <1>1, <1>3 DEF AnswersNow, Remember
  <2> QED BY <2>1, <2>2, <2>3 DEF OkIsWritten
<1>4. ASSUME NEW c \in Ids, ExecuteRequest(c) PROVE OkIsWritten'
  <2>1. /\ agent' = "exec" /\ UNCHANGED <<cache, entries, writes, got>>
        /\ \A h \in handlers' : h \in handlers \/ h.st = "start"
    BY <1>4 DEF ExecuteRequest, dedupVars
  <2> QED BY <2>1 DEF OkIsWritten
<1>5. CASE Timeout
  <2>1. /\ result' = "timeout" /\ cache' = [cache EXCEPT ![cmd] = "timeout"]
        /\ UNCHANGED <<handlers, entries, writes, got>>
    BY <1>5 DEF Timeout, Returns, Remember, connectorVars, dedupVars
  <2>2. \A d \in Ids : cache'[d] = "ok" => cache[d] = "ok" BY <1>1, <2>1
  <2> QED BY <2>1, <2>2 DEF OkIsWritten
<1>6. CASE SendResult
  <2>1. /\ agent = "send" /\ agent' = "recv" /\ got' = got \cup {<<restarts.gateway, cmd, result>>}
        /\ UNCHANGED <<cache, handlers, entries, writes>>
    BY <1>6 DEF SendResult, connectorVars, dedupVars
  <2> QED BY <2>1 DEF OkIsWritten
<1>7. CASE SendFails
  BY <1>7 DEF SendFails, connectorVars, dedupVars, OkIsWritten
<1>8. ASSUME NEW h \in handlers, NEW r \in Results, Replies(h, r) PROVE OkIsWritten'
  <2>1. handlers' \subseteq handlers /\ UNCHANGED <<writes, got>> BY <1>8 DEF Replies
  <2>2. r = "ok" => writes[h.id] > 0 BY <1>1, <1>8 DEF Replies, Known, OkIsWritten
  <2>3. \A c \in DOMAIN entries' : entries'[c] = "ok" => writes[c] > 0
    <3>1. CASE entries' = entries BY <3>1 DEF OkIsWritten
    <3>2. CASE entries' = Store(entries, h.id, r) BY <2>2, <3>2 DEF Store, OkIsWritten
    <3> QED BY <1>8, <3>1, <3>2 DEF Replies
  <2>4. CASE cmd = h.id /\ Returns(r)
    <3>1. /\ cmd' = h.id /\ result' = r /\ cache' = [cache EXCEPT ![h.id] = r]
      BY <2>4 DEF Returns, Remember
    <3>2. \A d \in Ids : cache'[d] = "ok" => writes[d] > 0
      BY <1>1, <2>2, <3>1 DEF OkIsWritten
    <3> QED BY <2>1, <2>2, <2>3, <3>1, <3>2 DEF OkIsWritten
  <2>5. CASE UNCHANGED agentVars BY <2>1, <2>3, <2>5 DEF agentVars, OkIsWritten
  <2> QED BY <1>8, <2>4, <2>5, Zenon DEF Replies
<1>9. ASSUME NEW h \in handlers, Handle(h), HandlerReserves(h) PROVE OkIsWritten'
  <2>1. /\ UNCHANGED <<agentVars, writes, got>> /\ Reserve(h.id)
        /\ handlers' = (handlers \ {h}) \cup {[h EXCEPT !.st = "writing"]}
    BY <1>9 DEF Handle, HandlerReserves
  <2>2. \A k \in handlers' : k \in handlers \/ k.st # "written" BY <1>1, <2>1, HandlerMoves, Zenon
  <2>3. \A c \in DOMAIN entries' : entries'[c] = "ok" => c \in DOMAIN entries /\ entries[c] = "ok"
    <3>1. /\ DOMAIN entries' = (DOMAIN entries \ Evictees) \cup {h.id}
          /\ entries'[h.id] = InFlight
          /\ \A k \in DOMAIN entries \ Evictees : entries'[k] = entries[k]
      BY <1>1, <2>1, Reserved, Zenon
    <3> QED BY <3>1 DEF InFlight
  <2> QED BY <2>1, <2>2, <2>3 DEF agentVars, OkIsWritten
<1>10. ASSUME NEW h \in handlers, Handle(h), DeviceWritten(h) PROVE OkIsWritten'
  <2>1. /\ UNCHANGED <<agentVars, entries, got>>
        /\ handlers' = (handlers \ {h}) \cup {[h EXCEPT !.st = "written"]}
    BY <1>10 DEF Handle, DeviceWritten, dedupVars
  <2>2. \A k \in handlers' : k \in handlers \/ k.id = h.id BY <1>1, <2>1, HandlerMoves, Zenon
  <2>3. writes'[h.id] > 0 /\ \A c \in Ids : writes[c] > 0 => writes'[c] > 0
    <3>1. /\ h.id \in Ids /\ writes'[h.id] = writes[h.id] + 1
          /\ \A c \in Ids : writes[c] \in Nat /\ writes'[c] \in Nat /\ writes[c] <= writes'[c]
      BY <1>10, WritesGrow
    <3> QED BY <3>1
  <2>4. agent = "send" => cmd \in Ids BY DEF Shape
  <2> QED BY <1>1, <2>1, <2>2, <2>3, <2>4 DEF agentVars, OkIsWritten
<1>11. CASE Tick
  <2>1. /\ \A k \in handlers' : \E h \in handlers : k.id = h.id /\ k.st = h.st
        /\ UNCHANGED <<agent, cmd, result, cache, entries, writes, got>>
    BY <1>1, <1>11, HandlerAges DEF Tick, dedupVars
  <2> QED BY <2>1 DEF OkIsWritten
<1>12. CASE GatewayRestart
  <2>1. /\ agent' = "down" /\ \A c \in Ids : cache'[c] # "ok"
        /\ UNCHANGED <<handlers, entries, writes, got>>
    BY <1>12 DEF GatewayRestart, connectorVars, dedupVars, None
  <2> QED BY <2>1 DEF OkIsWritten
<1>13. CASE ConnectorStops
  <2>1. /\ handlers' = {} /\ DOMAIN entries' = {} /\ UNCHANGED <<agentVars, writes, got>>
    BY <1>13 DEF ConnectorStops
  <2> QED BY <2>1 DEF agentVars, OkIsWritten
<1> QED
  BY <1>2, <1>3, <1>4, <1>5, <1>6, <1>7, <1>8, <1>9, <1>10, <1>11, <1>12, <1>13, StepCases

-----------------------------------------------------------------------------
(* AnswersCached.                                                          *)

\* A result is cached once, before it is sent, and then stays.
LEMMA AnswersKept ==
    ASSUME Shape, AnswersCached, [ControlNext]_controlVars
    PROVE  AnswersCached'
<1>1. /\ cache \in [Ids -> Results \cup {None}] /\ None \notin Results
      /\ \A g \in got : g[1] \in Nat /\ g[2] \in Ids /\ g[3] \in Results
      /\ restarts.gateway \in Nat
      /\ agent \in {"exec", "send"} => cmd \in Ids
  BY ResultNames, ControlBoundsAssumption, SMTT(20), Zenon DEF Shape, ControlTypeOK
<1>2. CASE Quiet BY <1>2 DEF Quiet, AnswersCached, OneAnswerPerLife
\* Caching a result for a command that has none disturbs no earlier answer.
<1>3. ASSUME NEW c \in Ids, cache[c] = None, NEW r, Remember(c, r), UNCHANGED <<restarts, got>>
      PROVE  /\ cache'[c] = r
             /\ \A g \in got' : /\ g[1] <= restarts'.gateway
                                /\ g[1] = restarts'.gateway => Paused(g[3]) \/ g[3] = cache'[g[2]]
             /\ OneAnswerPerLife'
  <2>1. cache' = [cache EXCEPT ![c] = r] BY <1>3 DEF Remember
  <2>2. \A d \in Ids : cache[d] \in Results => cache'[d] = cache[d] BY <1>1, <1>3, <2>1, Zenon
  <2>3. OneAnswerPerLife' BY <1>3 DEF AnswersCached, OneAnswerPerLife
  <2> QED BY <1>1, <1>3, <2>1, <2>2, <2>3 DEF AnswersCached
<1>4. ASSUME NEW c \in Ids, NEW r \in Results, AnswersNow(c, r) PROVE AnswersCached'
  <2>1. agent' = "send" /\ cmd' = c /\ result' = r /\ UNCHANGED <<restarts, got>>
    BY <1>4, Zenon DEF AnswersNow
  <2>2. CASE cache' = cache /\ (r = cache[c] \/ Paused(r))
    BY <2>1, <2>2, Zenon DEF AnswersCached, OneAnswerPerLife, Paused
  <2>3. CASE cache[c] = None /\ Remember(c, r) BY <1>3, <2>1, <2>3, Zenon DEF AnswersCached, Paused
  <2> QED BY <1>4, <2>2, <2>3 DEF AnswersNow
<1>5. ASSUME NEW c \in Ids, ExecuteRequest(c) PROVE AnswersCached'
  BY <1>5, Zenon DEF ExecuteRequest, Recv, AnswersCached, OneAnswerPerLife
<1>6. ASSUME NEW r \in Results, agent = "exec", Returns(r), UNCHANGED <<restarts, got>>
      PROVE  AnswersCached'
  <2>1. agent' = "send" /\ cmd' = cmd /\ result' = r /\ Remember(cmd, r)
    BY <1>6, Zenon DEF Returns
  <2>2. cmd \in Ids /\ cache[cmd] = None BY <1>1, <1>6 DEF AnswersCached
  <2> QED BY <1>3, <1>6, <2>1, <2>2 DEF AnswersCached, Paused
<1>7. CASE Timeout BY <1>6, <1>7, ResultNames DEF Timeout
<1>8. CASE SendResult
  <2>1. /\ agent = "send" /\ agent' = "recv" /\ got' = got \cup {<<restarts.gateway, cmd, result>>}
        /\ UNCHANGED <<cache, restarts>>
    BY <1>8 DEF SendResult
  <2>2. Paused(result) \/ result = cache[cmd] BY <2>1 DEF AnswersCached
  <2>3. \A g \in got' : /\ g[1] <= restarts.gateway
                        /\ g[1] = restarts.gateway => Paused(g[3]) \/ g[3] = cache[g[2]]
    BY <1>1, <2>1, <2>2 DEF AnswersCached
  <2>4. ASSUME NEW g \in got', NEW h \in got', g[1] = h[1], g[2] = h[2]
        PROVE  g[3] = h[3] \/ Paused(g[3]) \/ Paused(h[3])
    <3>1. CASE g \in got /\ h \in got
      BY <2>4, <3>1 DEF AnswersCached, OneAnswerPerLife, Paused
    <3>2. CASE g[1] = restarts.gateway BY <2>3, <2>4, <3>2, Zenon DEF Paused
    <3>3. \A k \in got' : k \in got \/ k[1] = restarts.gateway BY <2>1
    <3> QED BY <2>4, <3>1, <3>2, <3>3
  <2>5. OneAnswerPerLife' BY <2>4, Zenon DEF OneAnswerPerLife, Paused
  <2> QED BY <2>1, <2>3, <2>5 DEF AnswersCached
<1>9. CASE SendFails BY <1>9, Zenon DEF SendFails, AnswersCached, OneAnswerPerLife
<1>10. ASSUME NEW h \in handlers, NEW r \in Results, Replies(h, r) PROVE AnswersCached'
  <2>1. CASE agent = "exec" /\ Returns(r) BY <1>6, <1>10, <2>1, Zenon DEF Replies
  <2>2. CASE UNCHANGED agentVars
    BY <1>10, <2>2 DEF Replies, agentVars, AnswersCached, OneAnswerPerLife
  <2> QED BY <1>10, <2>1, <2>2, Zenon DEF Replies
<1>11. ASSUME NEW h \in handlers, Handle(h), HandlerReserves(h) \/ DeviceWritten(h)
       PROVE  AnswersCached'
  BY <1>11, Zenon DEF Handle, HandlerReserves, DeviceWritten, agentVars, AnswersCached,
               OneAnswerPerLife
<1>12. CASE Tick BY <1>12 DEF Tick, AnswersCached, OneAnswerPerLife
<1>13. CASE GatewayRestart
  <2>1. /\ restarts \in [gateway : 0..MaxRestarts, connector : 0..MaxRestarts]
        /\ restarts' = [restarts EXCEPT !.gateway = restarts.gateway + 1]
        /\ agent' = "down" /\ got' = got
    BY <1>13 DEF GatewayRestart, Shape, ControlTypeOK
  <2>2. restarts'.gateway = restarts.gateway + 1 BY <2>1, Zenon
  <2>3. \A g \in got : g[1] < restarts'.gateway BY <1>1, <2>2 DEF AnswersCached
  <2>4. \A g \in got' : g[1] <= restarts'.gateway /\ g[1] # restarts'.gateway
    BY <1>1, <2>1, <2>2, <2>3
  <2> QED BY <2>1, <2>4 DEF AnswersCached, OneAnswerPerLife
<1>14. CASE ConnectorStops
  <2>1. /\ restarts \in [gateway : 0..MaxRestarts, connector : 0..MaxRestarts]
        /\ restarts' = [restarts EXCEPT !.connector = restarts.connector + 1]
        /\ UNCHANGED <<agentVars, got>>
    BY <1>14 DEF ConnectorStops, Shape, ControlTypeOK
  <2>2. restarts'.gateway = restarts.gateway BY <2>1
  <2> QED BY <2>1, <2>2 DEF agentVars, AnswersCached, OneAnswerPerLife
<1> QED
  BY <1>2, <1>4, <1>5, <1>7, <1>8, <1>9, <1>10, <1>11, <1>12, <1>13, <1>14, StepCases, Zenon

-----------------------------------------------------------------------------
(* The two halves of NoDoubleWrite.                                        *)

\* The dedup admits one write of a command it has not forgotten.
LEMMA ConnectorKept ==
    ASSUME Shape, OncePerConnector, [ControlNext]_controlVars
    PROVE  OncePerConnector'
<1>1. /\ \A h \in handlers : h \in Handler /\ h.id \in Ids
      /\ writes \in [Ids -> Nat] /\ \A c \in Ids : writes[c] \in Nat
  BY DEF Shape, ControlTypeOK, Handler
\* Handlers may end, and start, and the dedup may learn more.
<1>2. ASSUME UNCHANGED <<writes, forgotten>>, DOMAIN entries \subseteq DOMAIN entries',
             \A h \in handlers' : h \in handlers \/ h.st = "start"
      PROVE  OncePerConnector'
  BY <1>2 DEF OncePerConnector, Known, Past
<1>3. CASE Quiet BY <1>2, <1>3 DEF Quiet
<1>4. ASSUME NEW c \in Ids, NEW r \in Results, AnswersNow(c, r) PROVE OncePerConnector'
  BY <1>2, <1>4 DEF AnswersNow, connectorVars, dedupVars
<1>5. ASSUME NEW c \in Ids, ExecuteRequest(c) PROVE OncePerConnector'
  BY <1>2, <1>5 DEF ExecuteRequest, dedupVars
<1>6. CASE Timeout \/ SendResult \/ SendFails \/ GatewayRestart
  BY <1>2, <1>6, Zenon DEF Timeout, SendResult, SendFails, GatewayRestart, connectorVars, dedupVars
<1>7. ASSUME NEW h \in handlers, NEW r \in Results, Replies(h, r) PROVE OncePerConnector'
  <2>1. DOMAIN entries \subseteq DOMAIN entries' BY <1>7, Zenon DEF Replies, Store
  <2> QED BY <1>2, <1>7, <2>1, SMTT(20), Zenon DEF Replies
<1>8. ASSUME NEW h \in handlers, Handle(h), HandlerReserves(h) PROVE OncePerConnector'
  <2> DEFINE k == [h EXCEPT !.st = "writing"]
  <2>1. /\ Reserve(h.id) /\ handlers' = (handlers \ {h}) \cup {k} /\ writes' = writes
        /\ forgotten' = forgotten \cup Evictees /\ h.st = "start"
    BY <1>8 DEF HandlerReserves
  <2>2. k.id = h.id /\ k.st = "writing" BY <1>1, HandlerMoves
  <2>3. /\ h.id \notin DOMAIN entries
        /\ DOMAIN entries' = (DOMAIN entries \ Evictees) \cup {h.id}
    BY <1>1, <2>1, Reserved, Zenon
  <2> SUFFICES ASSUME NEW c \in Ids \ forgotten'
               PROVE  /\ writes'[c] <= 1
                      /\ writes'[c] > 0 => Known(c)'
                      /\ \A a \in handlers' :
                           Past(a, c) => Known(c)' /\ (a.st = "writing" => writes'[c] = 0)
                      /\ \A a, b \in handlers' : Past(a, c) /\ Past(b, c) => a = b
    BY DEF OncePerConnector
  <2>4. /\ c \in Ids /\ c \notin forgotten /\ c \notin Evictees
        /\ writes[c] <= 1 /\ (writes[c] > 0 => c \in DOMAIN entries)
        /\ \A a \in handlers :
             Past(a, c) => c \in DOMAIN entries /\ (a.st = "writing" => writes[c] = 0)
        /\ \A a, b \in handlers : Past(a, c) /\ Past(b, c) => a = b
    BY <2>1 DEF OncePerConnector, Known
  <2>5. CASE c = h.id
    <3>1. writes[c] = 0 /\ \A a \in handlers : ~Past(a, c) BY <1>1, <2>3, <2>4, <2>5
    <3> QED BY <2>1, <2>2, <2>3, <2>5, <3>1 DEF Known
  <2>6. CASE c # h.id
    <3>1. ~Past(k, c) BY <2>2, <2>6, Zenon DEF Past
    <3> QED BY <2>1, <2>3, <2>4, <3>1 DEF Known
  <2> QED BY <2>5, <2>6
<1>9. ASSUME NEW h \in handlers, Handle(h), DeviceWritten(h) PROVE OncePerConnector'
  <2> DEFINE k == [h EXCEPT !.st = "written"]
  <2>1. /\ handlers' = (handlers \ {h}) \cup {k} /\ UNCHANGED <<entries, forgotten>>
        /\ h.st = "writing"
    BY <1>9 DEF DeviceWritten, dedupVars
  <2>2. k.id = h.id /\ k.st = "written" BY <1>1, HandlerMoves
  <2>3. /\ writes'[h.id] = writes[h.id] + 1
        /\ \A c \in Ids : c # h.id => writes'[c] = writes[c]
    BY <1>9, WritesGrow
  <2> SUFFICES ASSUME NEW c \in Ids \ forgotten
               PROVE  /\ writes'[c] <= 1
                      /\ writes'[c] > 0 => Known(c)'
                      /\ \A a \in handlers' :
                           Past(a, c) => Known(c)' /\ (a.st = "writing" => writes'[c] = 0)
                      /\ \A a, b \in handlers' : Past(a, c) /\ Past(b, c) => a = b
    BY <2>1 DEF OncePerConnector
  <2>4. /\ writes[c] <= 1 /\ (writes[c] > 0 => Known(c))
        /\ \A a \in handlers : Past(a, c) => Known(c) /\ (a.st = "writing" => writes[c] = 0)
        /\ \A a, b \in handlers : Past(a, c) /\ Past(b, c) => a = b
    BY DEF OncePerConnector
  <2>5. Known(c)' <=> Known(c) BY <2>1, Zenon DEF Known
  <2>6. CASE c = h.id
    <3>1. Past(h, c) BY <2>1, <2>6 DEF Past
    <3>2. Known(c) /\ writes[c] = 0 BY <2>1, <2>4, <3>1
    <3>3. \A a \in handlers' : Past(a, c) => a = k BY <2>1, <2>4, <3>1, Zenon
    <3>4. writes'[c] = 1 BY <2>3, <2>6, <3>2
    <3>5. \A a \in handlers' : Past(a, c) => a.st = "written" BY <2>2, <3>3, Zenon
    <3>6. \A a, b \in handlers' : Past(a, c) /\ Past(b, c) => a = b BY <3>3, Zenon
    <3> QED BY <2>5, <3>2, <3>4, <3>5, <3>6
  <2>7. CASE c # h.id
    <3>1. ~Past(k, c) BY <2>2, <2>7 DEF Past
    <3> QED BY <2>1, <2>3, <2>4, <2>5, <2>7, <3>1
  <2> QED BY <2>6, <2>7
<1>10. CASE Tick
  <2>1. /\ handlers' = {Older(h) : h \in handlers}
        /\ UNCHANGED <<entries, writes, forgotten>>
    BY <1>10 DEF Tick, dedupVars
  <2>2. \A k \in handlers' : \E h \in handlers : k = Older(h) /\ k.id = h.id /\ k.st = h.st
    BY <1>1, <2>1, HandlerAges
  <2> QED BY <2>1, <2>2 DEF OncePerConnector, Known, Past
<1>11. CASE ConnectorStops
  <2>1. handlers' = {} /\ forgotten' = forgotten \cup DOMAIN entries /\ writes' = writes
    BY <1>11, Zenon DEF ConnectorStops
  <2>2. \A c \in Ids \ forgotten' : writes[c] <= 1 /\ ~(writes[c] > 0)
    BY <2>1 DEF OncePerConnector, Known
  <2> QED BY <2>1, <2>2 DEF OncePerConnector
<1> QED
  BY <1>3, <1>4, <1>5, <1>6, <1>7, <1>8, <1>9, <1>10, <1>11, StepCases

\* The Dispatcher requests a command once in the gateway's first life.
LEMMA GatewayKept ==
    ASSUME Shape, OncePerGateway, [ControlNext]_controlVars
    PROVE  OncePerGateway'
<1>1. /\ \A h \in handlers : h \in Handler /\ h.id \in Ids
      /\ writes \in [Ids -> Nat] /\ \A c \in Ids : writes[c] \in Nat
      /\ cache \in [Ids -> Results \cup {None}] /\ None \notin Results
      /\ restarts \in [gateway : 0..MaxRestarts, connector : 0..MaxRestarts]
  BY ResultNames, Zenon DEF Shape, ControlTypeOK, Handler
\* Handlers may end, and what was requested stays so.
<1>2. ASSUME UNCHANGED writes, restarts'.gateway = restarts.gateway, handlers' \subseteq handlers,
             \A c \in Ids : Requested(c) => Requested(c)'
      PROVE  OncePerGateway'
  BY <1>2 DEF OncePerGateway
<1>3. CASE Quiet
  <2>1. \A c : Requested(c) => Requested(c)' BY <1>3 DEF Quiet, Requested
  <2> QED BY <1>2, <1>3, <2>1 DEF Quiet
<1>4. ASSUME NEW c \in Ids, NEW r \in Results, AnswersNow(c, r) PROVE OncePerGateway'
  <2>1. agent = "recv" /\ UNCHANGED <<writes, restarts, handlers>>
    BY <1>4, Zenon DEF AnswersNow, connectorVars
  <2>2. \A d \in Ids : cache[d] # None => cache'[d] # None
    BY <1>1, <1>4 DEF AnswersNow, Remember
  <2>3. \A d \in Ids : Requested(d) => Requested(d)' BY <2>1, <2>2, Zenon DEF Requested
  <2> QED BY <1>2, <2>1, <2>3
<1>5. ASSUME NEW c \in Ids, ExecuteRequest(c) PROVE OncePerGateway'
  <2> DEFINE k == [att |-> attempts + 1, id |-> c, st |-> "start", age |-> 0]
  <2>1. /\ agent = "recv" /\ cache[c] = None /\ agent' = "exec" /\ cmd' = c
        /\ handlers' = handlers \cup {k} /\ UNCHANGED <<cache, writes, restarts>>
    BY <1>5, Zenon DEF ExecuteRequest, Recv
  <2>2. ~Requested(c) /\ Requested(c)' /\ \A d \in Ids : Requested(d) => Requested(d)'
    BY <2>1 DEF Requested
  <2>3. k.id = c OBVIOUS
  <2>4. ASSUME restarts.gateway = 0
        PROVE  /\ writes[c] = 0 /\ \A h \in handlers : h.id # c
               /\ \A d \in Ids :
                    /\ writes[d] <= 1 /\ (writes[d] > 0 => Requested(d))
                    /\ \A h \in handlers :
                         h.id = d => Requested(d) /\ (h.st # "written" => writes[d] = 0)
                    /\ \A h, b \in handlers : h.id = d /\ b.id = d => h = b
    BY <1>1, <2>2, <2>4 DEF OncePerGateway
  <2> QED BY <2>1, <2>2, <2>3, <2>4, Zenon DEF OncePerGateway
<1>6. ASSUME NEW r \in Results, agent = "exec", Returns(r), UNCHANGED writes,
             restarts'.gateway = restarts.gateway, handlers' \subseteq handlers
      PROVE  OncePerGateway'
  <2>1. cmd \in Ids /\ cache' = [cache EXCEPT ![cmd] = r] BY <1>6 DEF Returns, Remember, Shape
  <2>2. cache'[cmd] # None /\ \A d \in Ids : cache[d] # None => cache'[d] # None
    BY <1>1, <2>1
  <2>3. \A d \in Ids : Requested(d) => Requested(d)' BY <2>2 DEF Requested
  <2> QED BY <1>2, <1>6, <2>3, Zenon
<1>7. CASE Timeout BY <1>6, <1>7, ResultNames DEF Timeout, connectorVars
<1>8. CASE SendResult \/ SendFails
  <2>1. agent = "send" /\ UNCHANGED <<cache, writes, restarts, handlers>>
    BY <1>8 DEF SendResult, SendFails, connectorVars
  <2>2. \A d \in Ids : Requested(d) => Requested(d)' BY <2>1, Zenon DEF Requested
  <2> QED BY <1>2, <2>1, <2>2, Zenon
<1>9. ASSUME NEW h \in handlers, NEW r \in Results, Replies(h, r) PROVE OncePerGateway'
  <2>1. handlers' \subseteq handlers /\ UNCHANGED <<writes, restarts>> BY <1>9 DEF Replies
  <2>2. CASE agent = "exec" /\ Returns(r) BY <1>6, <2>1, <2>2
  <2>3. CASE UNCHANGED agentVars
    <3>1. \A d \in Ids : Requested(d) => Requested(d)' BY <2>3, Zenon DEF agentVars, Requested
    <3> QED BY <1>2, <2>1, <3>1
  <2> QED BY <1>9, <2>2, <2>3 DEF Replies
\* A handler that moves on is still the only one of its command.
<1>10. ASSUME NEW h \in handlers, Handle(h), HandlerReserves(h) PROVE OncePerGateway'
  <2> DEFINE k == [h EXCEPT !.st = "writing"]
  <2>1. /\ handlers' = (handlers \ {h}) \cup {k} /\ h.st = "start"
        /\ UNCHANGED <<agent, cmd, cache, writes, restarts>>
    BY <1>10 DEF Handle, HandlerReserves, agentVars
  <2>2. k.id = h.id /\ k.st = "writing" BY <1>1, HandlerMoves
  <2>3. \A d \in Ids : Requested(d)' <=> Requested(d) BY <2>1 DEF Requested
  <2> SUFFICES ASSUME restarts.gateway = 0, NEW d \in Ids
               PROVE  /\ writes'[d] <= 1 /\ (writes'[d] > 0 => Requested(d)')
                      /\ \A a \in handlers' :
                           a.id = d => Requested(d)' /\ (a.st # "written" => writes'[d] = 0)
                      /\ \A a, b \in handlers' : a.id = d /\ b.id = d => a = b
    BY <2>1, Zenon DEF OncePerGateway
  <2>4. /\ writes[d] <= 1 /\ (writes[d] > 0 => Requested(d))
        /\ \A a \in handlers : a.id = d => Requested(d) /\ (a.st # "written" => writes[d] = 0)
        /\ \A a, b \in handlers : a.id = d /\ b.id = d => a = b
    BY DEF OncePerGateway
  <2>5. CASE d = h.id
    <3>1. Requested(d) /\ writes[d] = 0 BY <2>1, <2>4, <2>5
    <3>2. \A a \in handlers' : a.id = d => a = k BY <2>1, <2>4, <2>5
    <3> QED BY <2>1, <2>3, <3>1, <3>2
  <2>6. CASE d # h.id BY <2>1, <2>2, <2>3, <2>4, <2>6, Zenon
  <2> QED BY <2>5, <2>6
<1>11. ASSUME NEW h \in handlers, Handle(h), DeviceWritten(h) PROVE OncePerGateway'
  <2> DEFINE k == [h EXCEPT !.st = "written"]
  <2>1. /\ handlers' = (handlers \ {h}) \cup {k} /\ h.st = "writing"
        /\ UNCHANGED <<agent, cmd, cache, restarts>>
    BY <1>11 DEF Handle, DeviceWritten, agentVars
  <2>2. k.id = h.id /\ k.st = "written" BY <1>1, HandlerMoves
  <2>3. /\ writes'[h.id] = writes[h.id] + 1
        /\ \A c \in Ids : c # h.id => writes'[c] = writes[c]
    BY <1>11, WritesGrow
  <2>4. \A d \in Ids : Requested(d)' <=> Requested(d) BY <2>1 DEF Requested
  <2> SUFFICES ASSUME restarts.gateway = 0, NEW d \in Ids
               PROVE  /\ writes'[d] <= 1 /\ (writes'[d] > 0 => Requested(d)')
                      /\ \A a \in handlers' :
                           a.id = d => Requested(d)' /\ (a.st # "written" => writes'[d] = 0)
                      /\ \A a, b \in handlers' : a.id = d /\ b.id = d => a = b
    BY <2>1, Zenon DEF OncePerGateway
  <2>5. /\ writes[d] <= 1 /\ (writes[d] > 0 => Requested(d))
        /\ \A a \in handlers : a.id = d => Requested(d) /\ (a.st # "written" => writes[d] = 0)
        /\ \A a, b \in handlers : a.id = d /\ b.id = d => a = b
    BY DEF OncePerGateway
  <2>6. CASE d = h.id
    <3>1. Requested(d) /\ writes[d] = 0 BY <2>1, <2>5, <2>6
    <3>2. \A a \in handlers' : a.id = d => a = k BY <2>1, <2>5, <2>6, Zenon
    <3>3. writes'[d] = 1 BY <2>3, <2>6, <3>1
    <3>4. \A a \in handlers' : a.id = d => a.st = "written" BY <2>2, <3>2, Zenon
    <3>5. \A a, b \in handlers' : a.id = d /\ b.id = d => a = b BY <3>2, Zenon
    <3> QED BY <2>4, <3>1, <3>3, <3>4, <3>5
  <2>7. CASE d # h.id BY <2>1, <2>2, <2>3, <2>4, <2>5, <2>7, Zenon
  <2> QED BY <2>6, <2>7
<1>12. CASE Tick
  <2>1. /\ handlers' = {Older(h) : h \in handlers}
        /\ UNCHANGED <<agent, cmd, cache, writes, restarts>>
    BY <1>12, Zenon DEF Tick
  <2>2. \A k \in handlers' : \E h \in handlers : k = Older(h) /\ k.id = h.id /\ k.st = h.st
    BY <1>1, <2>1, HandlerAges
  <2>3. \A d \in Ids : Requested(d)' <=> Requested(d) BY <2>1, Zenon DEF Requested
  <2> QED BY <2>1, <2>2, <2>3 DEF OncePerGateway
<1>13. CASE GatewayRestart
  <2>1. restarts' = [restarts EXCEPT !.gateway = restarts.gateway + 1] BY <1>13 DEF GatewayRestart
  <2>2. restarts'.gateway # 0 BY <1>1, <2>1, ControlBoundsAssumption
  <2> QED BY <2>2 DEF OncePerGateway
<1>14. CASE ConnectorStops
  <2>1. /\ restarts' = [restarts EXCEPT !.connector = restarts.connector + 1]
        /\ handlers' = {} /\ UNCHANGED <<agentVars, writes>>
    BY <1>14 DEF ConnectorStops
  <2>2. restarts'.gateway = restarts.gateway BY <1>1, <2>1
  <2>3. \A d \in Ids : Requested(d) => Requested(d)' BY <2>1 DEF agentVars, Requested
  <2> QED BY <1>2, <2>1, <2>2, <2>3
<1> QED
  BY <1>3, <1>4, <1>5, <1>7, <1>8, <1>9, <1>10, <1>11, <1>12, <1>13, <1>14, StepCases, Zenon

-----------------------------------------------------------------------------
(* The theorems.                                                           *)

\* Nothing is requested, written or answered at the start.
LEMMA ControlInvInitially ==
    ASSUME ControlInit
    PROVE  ControlInv
<1> USE ControlBoundsAssumption, TimeoutsAssumption
<1>1. streamUp \in BOOLEAN /\ connUp \in BOOLEAN BY Zenon DEF ControlInit
<1>2. /\ down = << >> /\ keys = << >> /\ entries = << >> /\ handlers = {} /\ got = {}
      /\ sends = 0 /\ breaks = 0 /\ attempts = 0 /\ wait = 0 /\ waitAge = 0
      /\ agent = "down" /\ cmd = None /\ result = None /\ forgotten = {}
      /\ cache = [c \in Ids |-> None] /\ writes = [c \in Ids |-> 0]
      /\ restarts = [gateway |-> 0, connector |-> 0]
  BY DEF ControlInit, DedupInit
<1>3. << >> \in Seq(Ids) /\ Len(<< >>) = 0 /\ DOMAIN << >> = {} OBVIOUS
<1>4. ControlTypeOK BY <1>1, <1>2, <1>3 DEF ControlTypeOK
<1>5. Shape BY <1>2, <1>3, <1>4 DEF Shape
<1>6. OkIsWritten BY <1>2, <1>3, Zenon DEF OkIsWritten, None
<1>7. AnswersCached BY <1>2, Zenon DEF AnswersCached, OneAnswerPerLife
<1>8. OncePerConnector /\ OncePerGateway BY <1>2 DEF OncePerConnector, OncePerGateway
<1> QED BY <1>5, <1>6, <1>7, <1>8 DEF ControlInv

\* The parts are inductive, each on top of the shape.
LEMMA ControlInvInductive ==
    ASSUME ControlInv, [ControlNext]_controlVars
    PROVE  ControlInv'
BY ShapeKept, OkKept, AnswersKept, ConnectorKept, GatewayKept DEF ControlInv

\* Both halves fail before a command is written twice.
LEMMA HalvesSuffice ==
    ASSUME ControlInv
    PROVE  NoDoubleWrite
<1>1. restarts.gateway \in Nat /\ \A c \in Ids : writes[c] \in Nat
  BY DEF ControlInv, Shape, ControlTypeOK
<1>2. \A c \in Ids : c \in forgotten \/ writes[c] <= 1 BY DEF ControlInv, OncePerConnector
<1>3. \A c \in Ids : restarts.gateway # 0 \/ writes[c] <= 1 BY DEF ControlInv, OncePerGateway
<1> QED BY <1>1, <1>2, <1>3 DEF NoDoubleWrite

\* A command is written twice only after both the Dispatcher's cache and the connector's
\* CommandDedup lost it, for every capacity, every number of commands, breaks and
\* restarts, and every relation of the two deadlines.
THEOREM NeverWrittenTwice == ControlSpec => []NoDoubleWrite
<1>1. ControlInit => ControlInv BY ControlInvInitially
<1>2. ControlInv /\ [ControlNext]_controlVars => ControlInv' BY ControlInvInductive
<1>3. ControlInv => NoDoubleWrite BY HalvesSuffice, Zenon
<1> QED BY <1>1, <1>2, <1>3, PTL DEF ControlSpec

\* What Execute reports as success, first hand or from either cache, was written.
THEOREM SuccessIsTrue == ControlSpec => []SuccessMeansWritten
<1>1. ControlInit => ControlInv BY ControlInvInitially
<1>2. ControlInv /\ [ControlNext]_controlVars => ControlInv' BY ControlInvInductive
<1>3. ControlInv => SuccessMeansWritten
  BY DEF ControlInv, Shape, OkIsWritten, SuccessMeansWritten
<1> QED BY <1>1, <1>2, <1>3, PTL DEF ControlSpec

\* Duplicates within the lifetime of a Dispatcher get the cached result.
THEOREM DuplicatesAgree == ControlSpec => []OneAnswerPerLife
<1>1. ControlInit => ControlInv BY ControlInvInitially
<1>2. ControlInv /\ [ControlNext]_controlVars => ControlInv' BY ControlInvInductive
<1>3. ControlInv => OneAnswerPerLife BY DEF ControlInv, AnswersCached
<1> QED BY <1>1, <1>2, <1>3, PTL DEF ControlSpec
=============================================================================
