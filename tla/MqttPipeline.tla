---------------------------- MODULE MqttPipeline ----------------------------
(***************************************************************************)
(* From the broker to JetStream inside an MQTT connector                   *)
(* (connector/mqtt/connector.go): the receive callback, the hand-off       *)
(* queue, the publisher, the shutdown flush and the freshness floor, while *)
(* applies of Subscriptions swap the topic index at any time.              *)
(*                                                                         *)
(* Messages are numbered as the callback receives them.  The client        *)
(* library runs one callback at a time, and may report that the connection *)
(* has ended while the last one still runs.                                *)
(***************************************************************************)
EXTENDS TopicIndex

CONSTANTS
    Indexes,    \* the points of the indexes that applies swap in
    Ignored,    \* MQTT_IGNORE_TOPICS
    QueueSize,  \* publishQueueSize (256)
    MaxTracked, \* maxWildcardTracked (65536)
    None,       \* no topic
    MaxMsgs,    \* bound: messages received
    MaxFaults,  \* bound: failed publishes and flushes that time out
    MaxSwaps    \* bound: applies

ASSUME PipelineAssumption ==
    /\ {QueueSize, MaxTracked} \subseteq Nat \ {0}
    /\ {MaxMsgs, MaxFaults, MaxSwaps} \subseteq Nat

VARIABLES
    received,  \* how many messages the callback received
    hand,      \* the message the callback holds and how it means to pass it on
    queue,     \* the hand-off queue
    pub,       \* the publisher, then Run's last sweep: where it is, and with which message
    stopping,  \* pubCtx is cancelled
    ended,     \* the connection manager is done
    sent,      \* messages JetStream has (messages by number, from here on)
    acked,     \* messages acknowledged to the broker
    dropped,   \* messages acknowledged because they are not telemetry of a point
    lost,      \* messages given up by a flush that timed out
    late,      \* history: the message a callback held when the manager was done
    recent,    \* wildLast: topics accepted by a wildcard within the interval
    lkv,       \* topics with a last-known value
    floor,     \* the topic the freshness floor is about to publish
    faults, swaps   \* bounds

outcome == <<sent, acked, lost, lkv>>
pipeVars == <<points, received, hand, queue, pub, stopping, ended, outcome, dropped, late,
              recent, floor, faults, swaps>>

Frames == [n : 1..MaxMsgs, topic : Topics, number : BOOLEAN]
NoMsg == [n |-> 0, topic |-> None, number |-> FALSE]
Free == [msg |-> NoMsg, by |-> "queue"]

PipelineTypeOK ==
    /\ points \in Indexes
    /\ received \in 0..MaxMsgs
    /\ hand \in [msg : Frames, by : {"queue", "direct"}] \cup {Free}
    /\ queue \in Seq(Frames) /\ Len(queue) <= QueueSize
    /\ pub \in [at : {"select", "publish", "flush", "done", "sweep", "end"}, msg : Frames \cup {NoMsg}]
    /\ pub.at \in {"select", "done", "end"} => pub.msg = NoMsg
    /\ {stopping, ended} \subseteq BOOLEAN
    /\ UNION {sent, acked, dropped, lost, late} \subseteq 1..received
    /\ recent \subseteq Topics /\ Cardinality(recent) <= MaxTracked
    /\ lkv \subseteq Topics /\ floor \in Topics \cup {None}
    /\ faults \in 0..MaxFaults /\ swaps \in 0..MaxSwaps

PipelineInit ==
    /\ points \in Indexes
    /\ received = 0 /\ hand = Free /\ queue = <<>>
    /\ pub = [at |-> "select", msg |-> NoMsg]
    /\ stopping = FALSE /\ ended = FALSE
    /\ sent = {} /\ acked = {} /\ dropped = {} /\ lost = {} /\ late = {}
    /\ recent = {} /\ lkv = {} /\ floor = None
    /\ faults = 0 /\ swaps = 0

Fault == faults < MaxFaults /\ faults' = faults + 1

-----------------------------------------------------------------------------
(* The receive callback.                                                   *)

CallbackKeeps == UNCHANGED <<points, pub, stopping, ended, late, floor, faults, swaps>>

Receives ==
    /\ hand = Free /\ ~ended
    /\ received < MaxMsgs
    /\ received' = received + 1

\* Acknowledged at once, so that the broker does not send it for ever.
Drops ==
    /\ dropped' = dropped \cup {received + 1}
    /\ acked' = acked \cup {received + 1}
    /\ UNCHANGED <<hand, queue, sent, lost, lkv>>

Unrouted(topic) ==
    /\ topic \in Ignored \/ Resolve(points, topic) = {}
    /\ Receives
    /\ Drops
    /\ UNCHANGED recent
    /\ CallbackKeeps

Routed(topic) == topic \notin Ignored /\ Resolve(points, topic) # {}

\* Only topics without a point of their own are limited.
Throttled(topic) == topic \notin DOMAIN points /\ topic \in recent

Throttle(topic) ==
    /\ Routed(topic) /\ Throttled(topic)
    /\ Receives
    /\ Drops
    /\ UNCHANGED recent
    /\ CallbackKeeps

\* A table that is full of topics still within their interval starts over.
Accepts(topic) ==
    recent' = IF topic \in DOMAIN points THEN recent
              ELSE (IF Cardinality(recent) >= MaxTracked THEN {} ELSE recent) \cup {topic}

\* Too large, a status report or not parseable.
Unusable(topic) ==
    /\ Routed(topic) /\ ~Throttled(topic)
    /\ Receives
    /\ Accepts(topic)
    /\ Drops
    /\ CallbackKeeps

\* Telemetry: once the publisher is stopping nothing more is meant for the queue.
Take(topic, number) ==
    /\ Routed(topic) /\ ~Throttled(topic)
    /\ Receives
    /\ Accepts(topic)
    /\ hand' = [msg |-> [n |-> received + 1, topic |-> topic, number |-> number],
                by |-> IF stopping THEN "direct" ELSE "queue"]
    /\ UNCHANGED <<queue, outcome, dropped>>
    /\ CallbackKeeps

HandKeeps == UNCHANGED <<points, received, pub, stopping, ended, dropped, late, recent, floor, swaps>>

\* Faulty: acknowledges what is only queued.
EnqueueAcks ==
    /\ hand # Free /\ hand.by = "queue"
    /\ Len(queue) < QueueSize
    /\ queue' = Append(queue, hand.msg)
    /\ acked' = acked \cup {hand.msg.n}
    /\ hand' = Free
    /\ UNCHANGED <<sent, lost, lkv, faults>>
    /\ HandKeeps
\* The send may win although the publisher has stopped since the check.
Enqueue ==
    /\ hand # Free /\ hand.by = "queue"
    /\ Len(queue) < QueueSize
    /\ queue' = Append(queue, hand.msg)
    /\ hand' = Free
    /\ UNCHANGED <<outcome, faults>>
    /\ HandKeeps

EnqueueStopped ==
    /\ hand # Free /\ hand.by = "queue"
    /\ stopping
    /\ hand' = [hand EXCEPT !.by = "direct"]
    /\ UNCHANGED <<queue, outcome, faults>>
    /\ HandKeeps

\* publishPending, when JetStream has the message: record the value, then acknowledge.
Lands(msg) ==
    /\ sent' = sent \cup {msg.n}
    /\ acked' = acked \cup {msg.n}
    /\ lkv' = IF msg.number THEN lkv \cup {msg.topic} ELSE lkv
    /\ UNCHANGED lost

\* The end of the process closes the connection to NATS under a callback that is left.
Direct ==
    /\ hand.by = "direct"
    /\ pub.at # "end"
    /\ Lands(hand.msg)
    /\ hand' = Free
    /\ UNCHANGED <<queue, faults>>
    /\ HandKeeps

GivesUp(numbers) == lost' = lost \cup numbers /\ UNCHANGED <<sent, acked, lkv>>

DirectTimesOut ==
    /\ hand.by = "direct"
    /\ IF pub.at = "end" THEN UNCHANGED faults ELSE Fault
    /\ GivesUp({hand.msg.n})
    /\ hand' = Free
    /\ UNCHANGED queue
    /\ HandKeeps

-----------------------------------------------------------------------------
(* runPublisher, and Run's sweep once the publisher is done.               *)

PublisherKeeps ==
    UNCHANGED <<points, received, hand, stopping, ended, dropped, late, recent, floor, swaps>>

\* select may pick the queue although pubCtx is cancelled: the message goes to the flush.
PublisherTakes ==
    /\ pub.at = "select"
    /\ queue # <<>>
    /\ pub' = [at |-> IF stopping THEN "flush" ELSE "publish", msg |-> Head(queue)]
    /\ queue' = Tail(queue)
    /\ UNCHANGED <<outcome, faults>>
    /\ PublisherKeeps

PublisherStops ==
    /\ pub.at = "select"
    /\ stopping
    /\ pub' = [pub EXCEPT !.at = "flush"]
    /\ UNCHANGED <<queue, outcome, faults>>
    /\ PublisherKeeps

PublishLands ==
    /\ pub.at = "publish"
    /\ Lands(pub.msg)
    /\ pub' = [at |-> "select", msg |-> NoMsg]
    /\ UNCHANGED <<queue, faults>>
    /\ PublisherKeeps

\* Faulty: lets the next message pass one that does not land.
PublishFailsYields ==
    /\ pub.at = "publish"
    /\ Fault
    /\ queue # <<>>
    /\ queue' = Append(Tail(queue), pub.msg)
    /\ pub' = [pub EXCEPT !.msg = Head(queue)]
    /\ UNCHANGED outcome
    /\ PublisherKeeps
\* The same message is tried again, after a pause.
PublishFails ==
    /\ pub.at = "publish"
    /\ Fault
    /\ UNCHANGED <<queue, outcome, pub>>
    /\ PublisherKeeps

\* The message may have reached JetStream; it is carried into the flush all the same.
PublishCancelled ==
    /\ pub.at = "publish"
    /\ stopping
    /\ pub' = [pub EXCEPT !.at = "flush"]
    /\ sent' \in {sent, sent \cup {pub.msg.n}}
    /\ UNCHANGED <<queue, acked, lost, lkv, faults>>
    /\ PublisherKeeps

\* drainQueue, by the publisher and by the sweep.
Flushing == pub.at \in {"flush", "sweep"}
Flushed == [at |-> IF pub.at = "flush" THEN "done" ELSE "end", msg |-> NoMsg]

FlushTakes ==
    /\ Flushing /\ pub.msg = NoMsg
    /\ queue # <<>>
    /\ pub' = [pub EXCEPT !.msg = Head(queue)]
    /\ queue' = Tail(queue)
    /\ UNCHANGED <<outcome, faults>>
    /\ PublisherKeeps

FlushLands ==
    /\ Flushing /\ pub.msg # NoMsg
    /\ Lands(pub.msg)
    /\ pub' = [pub EXCEPT !.msg = NoMsg]
    /\ UNCHANGED <<queue, faults>>
    /\ PublisherKeeps

\* "Remaining frames dropped": the publisher leaves the rest of the queue to the sweep,
\* the sweep leaves it to nobody.
Remaining == IF pub.at = "sweep" THEN {queue[i].n : i \in DOMAIN queue} ELSE {}

\* One deadline for the whole flush.
FlushTimesOut ==
    /\ Flushing /\ pub.msg # NoMsg
    /\ Fault
    /\ GivesUp({pub.msg.n} \cup Remaining)
    /\ pub' = Flushed
    /\ UNCHANGED queue
    /\ PublisherKeeps

FlushEnds ==
    /\ Flushing /\ pub.msg = NoMsg
    /\ queue = <<>>
    /\ pub' = Flushed
    /\ UNCHANGED <<queue, outcome, faults>>
    /\ PublisherKeeps

\* Faulty: Run returns as soon as the publisher is done.
SweepSkipped ==
    /\ ended /\ pub.at = "done"
    /\ pub' = [pub EXCEPT !.at = "end"]
    /\ UNCHANGED <<queue, outcome, faults>>
    /\ PublisherKeeps
\* A callback can have been mid-enqueue when the publisher drained.
Sweep ==
    /\ ended /\ pub.at = "done"
    /\ pub' = [pub EXCEPT !.at = "sweep"]
    /\ UNCHANGED <<queue, outcome, faults>>
    /\ PublisherKeeps

-----------------------------------------------------------------------------
(* The context, the index, the limiter and the freshness floor.            *)

RunKeeps == UNCHANGED <<received, hand, queue, pub, sent, acked, lost, dropped, faults>>

Stop ==
    /\ ~stopping
    /\ stopping' = TRUE
    /\ UNCHANGED <<points, ended, late, recent, lkv, floor, swaps>>
    /\ RunKeeps

\* By the context, or by a Disconnect after a failed subscribe: Run stops the publisher.
ManagerDone ==
    /\ ~ended
    /\ ended' = TRUE /\ stopping' = TRUE
    /\ late' = {hand.msg.n} \ {0}
    /\ UNCHANGED <<points, recent, lkv, floor, swaps>>
    /\ RunKeeps

IndexSwaps ==
    /\ swaps < MaxSwaps
    /\ swaps' = swaps + 1
    /\ points' \in Indexes \ {points}
    /\ UNCHANGED <<stopping, ended, late, recent, lkv, floor>>
    /\ RunKeeps

\* The interval of a limited topic has passed.
IntervalPasses ==
    /\ \E t \in recent : recent' = recent \ {t}
    /\ UNCHANGED <<points, stopping, ended, late, lkv, floor, swaps>>
    /\ RunKeeps

\* Faulty: skips a topic that is gone and keeps its value.
FloorTickSkips(topic) ==
    /\ topic \in lkv /\ floor = None /\ ~stopping
    /\ floor' = IF Resolve(points, topic) = {} THEN None ELSE topic
    /\ UNCHANGED <<lkv, points, stopping, ended, late, recent, swaps>>
    /\ RunKeeps
\* A value that is due: forgotten when its topic is no longer routed, else published
\* again with the metadata of the moment.
FloorTick(topic) ==
    /\ topic \in lkv /\ floor = None /\ ~stopping
    /\ IF Resolve(points, topic) = {}
       THEN lkv' = lkv \ {topic} /\ UNCHANGED floor
       ELSE floor' = topic /\ UNCHANGED lkv
    /\ UNCHANGED <<points, stopping, ended, late, recent, swaps>>
    /\ RunKeeps

FloorPublishes ==
    /\ floor # None
    /\ floor' = None
    /\ UNCHANGED <<points, stopping, ended, late, recent, lkv, swaps>>
    /\ RunKeeps

CallbackNext ==
    \/ \E t \in Topics : Unrouted(t) \/ Throttle(t) \/ Unusable(t)
    \/ \E t \in Topics, number \in BOOLEAN : Take(t, number)
    \/ Enqueue \/ EnqueueStopped \/ Direct \/ DirectTimesOut

PublisherNext ==
    \/ PublisherTakes \/ PublisherStops \/ PublishLands \/ PublishFails \/ PublishCancelled
    \/ FlushTakes \/ FlushLands \/ FlushTimesOut \/ FlushEnds \/ Sweep

PipelineNext ==
    \/ CallbackNext
    \/ PublisherNext
    \/ Stop \/ ManagerDone \/ IndexSwaps \/ IntervalPasses
    \/ \E t \in Topics : FloorTick(t)
    \/ FloorPublishes

PipelineSpec == PipelineInit /\ [][PipelineNext]_pipeVars

\* The goroutines run; failed publishes are bounded, so JetStream answers in the end; a
\* connector that stops sees its connection manager end.
PipelineFairness ==
    /\ WF_pipeVars(Enqueue \/ EnqueueStopped)
    /\ WF_pipeVars(Direct \/ DirectTimesOut)
    /\ WF_pipeVars(PublisherTakes \/ PublisherStops \/ PublishLands \/ PublishCancelled)
    /\ WF_pipeVars(FlushTakes \/ FlushLands \/ FlushEnds \/ Sweep)
    /\ WF_pipeVars(stopping /\ ManagerDone)
    /\ \A t \in Topics : SF_pipeVars(FloorTick(t))
    /\ WF_pipeVars(FloorPublishes)

PipelineFairSpec == PipelineSpec /\ PipelineFairness

-----------------------------------------------------------------------------
(* Properties.                                                             *)

\* "PUBACK is sent only after the event lands in JetStream": the broker may forget a
\* message only when JetStream has it or no point wants it, on every path out of the
\* callback, the flush and the sweep included.
AckAfterPublish == PipelineTypeOK /\ acked \subseteq sent \cup dropped

\* "Never skipped, so ordering holds": until a stop, messages reach JetStream in the
\* order of their arrival, whatever fails in between.
InOrder ==
    ~stopping => \A m \in sent : \A n \in 1..(m - 1) : n \in sent \cup dropped

\* "Without this flush a graceful restart would silently lose" frames: a message the
\* connector took reaches JetStream in the end, through a full queue, failed publishes,
\* a stop and a swap of the index, but for those a flush ran out of time for and the
\* one whose callback outlived the connection.
FramesLand ==
    \A m \in 1..MaxMsgs : (m <= received) ~> (m \in sent \cup dropped \cup lost \cup late)

\* A topic that an apply removed for good is not kept alive by the freshness floor.
FloorForgets ==
    \A t \in Topics : []<>(t \notin lkv \/ Resolve(points, t) # {} \/ stopping)
=============================================================================
