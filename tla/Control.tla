------------------------------ MODULE Control -------------------------------
(***************************************************************************)
(* The control path: Building OS pushes commands down the Egress stream,   *)
(* the Agent (internal/egress) executes them one at a time through the     *)
(* Dispatcher (internal/dispatch), a connector's handleWrite goroutines    *)
(* (connector/mqtt/connector.go, connector/sdk/dedup.go) write the device. *)
(*                                                                         *)
(* A command is its control_id.  Time is the age of the pending request    *)
(* and of each write, in units small against both deadlines; a NATS        *)
(* message and a goroutine's start take none of it.                        *)
(***************************************************************************)
EXTENDS CommandDedup

CONSTANTS
    DispatchTimeout,  \* the Dispatcher's request deadline (5 s)
    WriteTimeout,     \* handleWrite's publish deadline (8 s)
    MaxSends,         \* bound: commands Building OS sends
    MaxBreaks,        \* bound: breaks of the Egress stream
    MaxRestarts       \* bound: restarts of the gateway, and of the connector

ASSUME TimeoutsAssumption ==
    DispatchTimeout \in Nat \ {0} /\ WriteTimeout \in Nat \ {0}
ASSUME ControlBoundsAssumption ==
    MaxSends \in Nat /\ MaxBreaks \in Nat /\ MaxRestarts \in Nat

VARIABLES
    streamUp,  \* the Egress stream is up
    down,      \* commands on the stream, not yet received
    sends,     \* bound: commands sent so far
    breaks,    \* bound: breaks so far
    agent,     \* where runStream is
    cmd,       \* the command it executes, None between commands
    result,    \* the result it is about to send
    cache,     \* Dispatcher.dedup
    wait,      \* the request it awaits, 0 for none
    waitAge,   \* since when
    attempts,  \* requests made so far
    connUp,    \* the connector is subscribed
    handlers,  \* its running handleWrite goroutines
    restarts,  \* bound: restarts so far
    got,       \* history: results Building OS received, by gateway process
    writes,    \* history: writes of each command to the device
    forgotten  \* history: commands the connector's dedup lost

agentVars == <<agent, cmd, result, cache, wait, waitAge, attempts>>
connectorVars == <<dedupVars, connUp, handlers, writes, forgotten>>
streamVars == <<streamUp, down, sends, breaks>>
controlVars == <<agentVars, connectorVars, streamVars, restarts, got>>

\* What ResolveControl yields for a command, as far as execute tells it apart:
\* the point, and for a release point its value check and its target, by the
\* first check the target fails.
Resolutions ==
    [found : BOOLEAN, writable : BOOLEAN, release : BOOLEAN, asked : BOOLEAN,
     target : {"missing", "readonly", "foreign", "routable"}]

Route(x) ==
    CASE ~x.found -> "no_connector"
      [] x.found /\ ~x.writable -> "not_writable"
      [] x.found /\ x.writable /\ ~x.release -> "request"
      [] OTHER -> IF x.asked /\ x.target = "routable" THEN "request"
                  ELSE IF x.asked /\ x.target = "readonly" THEN "not_writable"
                  ELSE "bad_request"

Refusals == {Route(x) : x \in Resolutions} \ {"request"}

Results == Refusals \cup
    {"ok", "device_error", "in_flight", "not_connected", "no_responder", "timeout",
     "configuration_paused"}

None == "none"

Handler == [att : 1..MaxSends, id : Ids, st : {"start", "writing", "written"},
            age : 0..WriteTimeout]

ControlTypeOK ==
    /\ streamUp \in BOOLEAN /\ down \in Seq(Ids)
    /\ sends \in 0..MaxSends /\ breaks \in 0..MaxBreaks
    /\ agent \in {"down", "recv", "exec", "send"}
    /\ cmd \in Ids \cup {None} /\ result \in Results \cup {None}
    /\ cache \in [Ids -> Results \cup {None}]
    /\ wait \in 0..attempts /\ attempts \in 0..MaxSends
    /\ waitAge \in 0..DispatchTimeout
    /\ connUp \in BOOLEAN
    /\ handlers \subseteq Handler
    /\ DOMAIN entries \subseteq Ids /\ keys \in Seq(Ids)
    /\ \A id \in DOMAIN entries : entries[id] \in Results \cup {InFlight}
    /\ restarts \in [gateway : 0..MaxRestarts, connector : 0..MaxRestarts]
    /\ got \subseteq (0..MaxRestarts) \X Ids \X Results
    /\ writes \in [Ids -> Nat]
    /\ forgotten \subseteq Ids

ControlInit ==
    /\ DedupInit
    /\ streamUp = FALSE /\ down = << >> /\ sends = 0 /\ breaks = 0
    /\ agent = "down" /\ cmd = None /\ result = None
    /\ cache = [c \in Ids |-> None]
    /\ wait = 0 /\ waitAge = 0 /\ attempts = 0
    /\ connUp = TRUE /\ handlers = {}
    /\ restarts = [gateway |-> 0, connector |-> 0]
    /\ got = {} /\ writes = [c \in Ids |-> 0] /\ forgotten = {}

-----------------------------------------------------------------------------
(* Building OS and the stream.                                             *)

\* Building OS sends a command, possibly one it sent before.
BosSends(c) ==
    /\ streamUp
    /\ sends < MaxSends
    /\ sends' = sends + 1
    /\ down' = Append(down, c)
    /\ UNCHANGED <<streamUp, breaks, agentVars, connectorVars, restarts, got>>

StreamBreaks ==
    /\ streamUp
    /\ breaks < MaxBreaks
    /\ breaks' = breaks + 1
    /\ streamUp' = FALSE
    /\ down' = << >>
    /\ UNCHANGED <<sends, agentVars, connectorVars, restarts, got>>

\* Run reconnects and sends Hello.
Connect ==
    /\ agent = "down"
    /\ agent' = "recv"
    /\ streamUp' = TRUE
    /\ down' = << >>
    /\ UNCHANGED <<sends, breaks, cmd, result, cache, wait, waitAge, attempts,
                   connectorVars, restarts, got>>

RecvFails ==
    /\ agent = "recv"
    /\ ~streamUp
    /\ agent' = "down"
    /\ UNCHANGED <<cmd, result, cache, wait, waitAge, attempts, connectorVars,
                   streamVars, restarts, got>>

-----------------------------------------------------------------------------
(* Dispatcher.Execute.                                                     *)

\* Execute caches what execute returned; a paused command is not cached.
RememberSuccess(c, r) ==  \* faulty: failures may be retried
    cache' = IF r = "ok" THEN [cache EXCEPT ![c] = r] ELSE cache
Remember(c, r) == cache' = [cache EXCEPT ![c] = r]

\* The next command is received and answered without a request.
Answer(c, r) ==
    /\ agent' = "send"
    /\ result' = r
    /\ UNCHANGED <<wait, waitAge, attempts, connectorVars, restarts, got>>

Recv(c) ==
    /\ agent = "recv"
    /\ streamUp
    /\ down # << >>
    /\ c = Head(down)
    /\ down' = Tail(down)
    /\ cmd' = c
    /\ UNCHANGED <<streamUp, sends, breaks>>

ExecuteCached(c) ==
    /\ Recv(c)
    /\ cache[c] # None
    /\ Answer(c, cache[c])
    /\ UNCHANGED cache

\* The admission gate is closed by a clock reconfiguration.
ExecutePaused(c) ==
    /\ Recv(c)
    /\ cache[c] = None
    /\ Answer(c, "configuration_paused")
    /\ UNCHANGED cache

ExecuteRefused(c) ==
    /\ Recv(c)
    /\ cache[c] = None
    /\ \E r \in Refusals : Answer(c, r) /\ Remember(c, r)

ExecuteNoResponder(c) ==
    /\ Recv(c)
    /\ cache[c] = None
    /\ ~connUp
    /\ Answer(c, "no_responder")
    /\ Remember(c, "no_responder")

\* The request reaches the connector, which starts a handler for it.
ExecuteRequest(c) ==
    /\ Recv(c)
    /\ cache[c] = None
    /\ connUp
    /\ agent' = "exec"
    /\ attempts' = attempts + 1
    /\ wait' = attempts + 1
    /\ waitAge' = 0
    /\ handlers' = handlers \cup
         {[att |-> attempts + 1, id |-> c, st |-> "start", age |-> 0]}
    /\ UNCHANGED <<result, cache, dedupVars, connUp, writes, forgotten, restarts, got>>

\* The request returns: execute's result is cached and sent.
Returns(r) ==
    /\ agent' = "send"
    /\ result' = r
    /\ Remember(cmd, r)
    /\ wait' = 0
    /\ waitAge' = 0
    /\ UNCHANGED <<cmd, attempts>>

Timeout ==
    /\ agent = "exec"
    /\ waitAge = DispatchTimeout
    /\ Returns("timeout")
    /\ UNCHANGED <<connectorVars, streamVars, restarts, got>>

SendResult ==
    /\ agent = "send"
    /\ streamUp
    /\ got' = got \cup {<<restarts.gateway, cmd, result>>}
    /\ agent' = "recv"
    /\ cmd' = None /\ result' = None
    /\ UNCHANGED <<cache, wait, waitAge, attempts, connectorVars, streamVars, restarts>>

\* The result is lost: send returns the error, or the transport took the frame
\* before the break showed and the next Recv fails.
SendFails ==
    /\ agent = "send"
    /\ ~streamUp
    /\ agent' \in {"down", "recv"}
    /\ cmd' = None /\ result' = None
    /\ UNCHANGED <<cache, wait, waitAge, attempts, connectorVars, streamVars, restarts,
                   got>>

-----------------------------------------------------------------------------
(* The connector's handleWrite.                                            *)

\* The reply reaches the Dispatcher if it still waits for this request.
Reply(h, r) ==
    /\ handlers' = handlers \ {h}
    /\ IF h.att = wait THEN Returns(r) ELSE UNCHANGED agentVars

HandlerRefuses(h) ==
    /\ h.st = "start"
    /\ \E r \in {"bad_request", "not_connected"} : Reply(h, r)
    /\ UNCHANGED <<dedupVars, connUp, writes, forgotten>>

HandlerDuplicate(h) ==
    /\ h.st = "start"
    /\ Known(h.id)
    /\ Reply(h, IF entries[h.id] = InFlight THEN "in_flight" ELSE entries[h.id])
    /\ UNCHANGED <<dedupVars, connUp, writes, forgotten>>

HandlerReserves(h) ==
    /\ h.st = "start"
    /\ Reserve(h.id)
    /\ handlers' = (handlers \ {h}) \cup {[h EXCEPT !.st = "writing"]}
    /\ forgotten' = forgotten \cup Evictees
    /\ UNCHANGED <<agentVars, connUp, writes>>

Finish(h, r) ==
    /\ Complete(h.id, r)
    /\ Reply(h, r)
    /\ UNCHANGED <<connUp, writes, forgotten>>

HandlerNotWritable(h) == h.st = "writing" /\ Finish(h, "not_writable")

DeviceWritten(h) ==
    /\ h.st = "writing"
    /\ writes' = [writes EXCEPT ![h.id] = @ + 1]
    /\ handlers' = (handlers \ {h}) \cup {[h EXCEPT !.st = "written"]}
    /\ UNCHANGED <<agentVars, dedupVars, connUp, forgotten>>

HandlerDone(h) == h.st = "written" /\ Finish(h, "ok")

\* Publish fails, or its deadline passes, before or after the device was written.
HandlerFailsOk(h) == h.st \in {"writing", "written"} /\ Finish(h, "ok")  \* faulty
HandlerFails(h) == h.st \in {"writing", "written"} /\ Finish(h, "device_error")

Handle(h) ==
    /\ \/ HandlerRefuses(h) \/ HandlerDuplicate(h) \/ HandlerReserves(h)
       \/ HandlerNotWritable(h) \/ DeviceWritten(h) \/ HandlerDone(h)
       \/ HandlerFails(h)
    /\ UNCHANGED <<streamVars, restarts, got>>

-----------------------------------------------------------------------------
(* Time and restarts.                                                      *)

\* A deadline that is reached acts before time goes on.
DueRequest == wait # 0 /\ waitAge = DispatchTimeout
DueHandler == \E h \in handlers : h.st = "start" \/ h.age = WriteTimeout
DueNow == DueRequest \/ DueHandler

Older(h) == [h EXCEPT !.age = IF @ < WriteTimeout THEN @ + 1 ELSE @]

Tick ==
    /\ wait # 0 \/ handlers # {}
    /\ ~DueNow
    /\ waitAge' = IF wait # 0 THEN waitAge + 1 ELSE 0
    /\ handlers' = {Older(h) : h \in handlers}
    /\ UNCHANGED <<agent, cmd, result, cache, wait, attempts, dedupVars, connUp,
                   writes, forgotten, streamVars, restarts, got>>

\* The gateway process ends and starts again; its connectors keep running.
GatewayRestart ==
    /\ restarts.gateway < MaxRestarts
    /\ restarts' = [restarts EXCEPT !.gateway = @ + 1]
    /\ agent' = "down"
    /\ cmd' = None /\ result' = None
    /\ streamUp' = FALSE
    /\ down' = << >>
    /\ cache' = [c \in Ids |-> None]
    /\ wait' = 0
    /\ waitAge' = 0
    /\ UNCHANGED <<attempts, sends, breaks, connectorVars, got>>

ConnectorStops ==
    /\ connUp
    /\ restarts.connector < MaxRestarts
    /\ restarts' = [restarts EXCEPT !.connector = @ + 1]
    /\ connUp' = FALSE
    /\ handlers' = {}
    /\ entries' = << >>
    /\ keys' = << >>
    /\ forgotten' = forgotten \cup DOMAIN entries
    /\ UNCHANGED <<agentVars, writes, streamVars, got>>

ConnectorStarts ==
    /\ ~connUp
    /\ connUp' = TRUE
    /\ UNCHANGED <<agentVars, dedupVars, handlers, writes, forgotten, streamVars,
                   restarts, got>>

ControlNext ==
    \/ \E c \in Ids :
         \/ BosSends(c) \/ ExecuteCached(c) \/ ExecutePaused(c) \/ ExecuteRefused(c)
         \/ ExecuteNoResponder(c) \/ ExecuteRequest(c)
    \/ StreamBreaks \/ Connect \/ RecvFails \/ Timeout \/ SendResult \/ SendFails
    \/ \E h \in handlers : Handle(h)
    \/ Tick \/ GatewayRestart \/ ConnectorStops \/ ConnectorStarts

ControlSpec == ControlInit /\ [][ControlNext]_controlVars

-----------------------------------------------------------------------------
(* Properties.                                                             *)

\* A command reaches the device a second time only if the Dispatcher's cache was
\* lost with the gateway and the connector's dedup forgot it as well: neither a
\* timeout, nor a resent command, nor one restart alone, repeats a write.
NoDoubleWrite ==
    \A c \in Ids : writes[c] > 1 => restarts.gateway > 0 /\ c \in forgotten

\* Success reported to Building OS, first hand or from either cache, means the
\* device was written.
SuccessMeansWritten ==
    /\ ControlTypeOK
    /\ \A g \in got : g[3] = "ok" => writes[g[2]] > 0

\* "Duplicate control_ids within the lifetime of this dispatcher return the
\* cached result": a command has one answer per gateway process, apart from the
\* refusals while a reconfiguration pauses commands.
OneAnswerPerLife ==
    \A g, h \in got :
        g[1] = h[1] /\ g[2] = h[2] =>
            g[3] = h[3] \/ "configuration_paused" \in {g[3], h[3]}
=============================================================================
