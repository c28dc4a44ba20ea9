--------------------------- MODULE PipelineProofs ---------------------------
(***************************************************************************)
(* The publish pipeline of the MQTT connector, for every queue size,       *)
(* number of messages and set of indexes: order, acknowledgement, and the  *)
(* whereabouts of every message when Run returns.  Until a stop, the       *)
(* queue, the publisher and the callback hold their messages in the order  *)
(* of arrival, and hold every message that has not landed.                 *)
(***************************************************************************)
EXTENDS MqttPipeline, FiniteSetTheorems, TLAPS

-----------------------------------------------------------------------------
(* InOrder.                                                                *)

PipeShape ==
    /\ received \in Nat
    /\ queue \in Seq(Frames)
    /\ hand = Free \/ hand \in [msg : Frames, by : {"queue", "direct"}]
    /\ pub \in [at : {"select", "publish", "flush", "done", "sweep", "end"},
                msg : Frames \cup {NoMsg}]
    /\ sent \subseteq Nat

Publishing == pub.at = "publish"

\* The message is in the queue, with the publisher or in the callback's hand.
Holds(n) ==
    \/ \E i \in DOMAIN queue : queue[i].n = n
    \/ Publishing /\ pub.msg.n = n
    \/ hand # Free /\ hand.msg.n = n

\* Nothing that has not landed is forgotten.
AllHeld == \A n \in 1..received : n \in sent \cup dropped \/ Holds(n)

\* What is held arrived after all that has landed.
HeldIsNewer == \A n \in Nat : Holds(n) => n <= received /\ \A m \in sent : m < n

\* The publisher's message, the queue and the hand are in the order of arrival.
Ascending ==
    /\ \A i, j \in DOMAIN queue : i < j => queue[i].n < queue[j].n
    /\ Publishing => \A i \in DOMAIN queue : pub.msg.n < queue[i].n
    /\ hand # Free => \A i \in DOMAIN queue : queue[i].n < hand.msg.n
    /\ Publishing /\ hand # Free => pub.msg.n < hand.msg.n

\* Until a stop, the publisher is at work and the callback uses the queue.
Running ==
    /\ pub.at \in {"select", "publish"}
    /\ Publishing => pub.msg \in Frames
    /\ hand.by = "queue"
    /\ \A m \in sent : m <= received

Order == Running /\ AllHeld /\ HeldIsNewer /\ Ascending

PipeInv == PipeShape /\ (~stopping => Order)

\* A message has a number, and no message is the absent one.
LEMMA FrameNumbers ==
    /\ \A f \in Frames : f.n \in Nat /\ f # NoMsg
    /\ NoMsg.n = 0 /\ Free.msg = NoMsg /\ Free.by = "queue"
BY PipelineAssumption DEF Frames, NoMsg, Free

\* Taking the first message of a queue leaves the others in their places less one.
LEMMA HeadTail ==
    ASSUME NEW q \in Seq(Frames), q # <<>>
    PROVE  /\ Head(q) = q[1] /\ Head(q) \in Frames /\ 1 \in DOMAIN q
           /\ Tail(q) \in Seq(Frames)
           /\ \A i \in DOMAIN Tail(q) : i + 1 \in DOMAIN q /\ Tail(q)[i] = q[i + 1] /\ 1 < i + 1
           /\ \A i \in DOMAIN q : i = 1 \/ (i - 1 \in DOMAIN Tail(q) /\ Tail(q)[i - 1] = q[i])
OBVIOUS

\* Appending leaves every message in its place and adds one behind them.
LEMMA Appended ==
    ASSUME NEW q \in Seq(Frames), NEW f \in Frames
    PROVE  /\ Append(q, f) \in Seq(Frames)
           /\ \A i \in DOMAIN q : i \in DOMAIN Append(q, f) /\ Append(q, f)[i] = q[i]
                                  /\ i < Len(q) + 1
           /\ Len(q) + 1 \in DOMAIN Append(q, f) /\ Append(q, f)[Len(q) + 1] = f
           /\ \A i \in DOMAIN Append(q, f) : i \in DOMAIN q \/ i = Len(q) + 1
OBVIOUS

\* A message the callback drops: nothing held changes.
LEMMA DropsKeep ==
    ASSUME PipeInv, Receives, Drops, UNCHANGED <<pub, stopping>>
    PROVE  PipeInv'
<1>1. PipeShape' BY DEF PipeInv, PipeShape, Receives, Drops
<1>2. ASSUME ~stopping PROVE Order'
  <2>1. Order BY <1>2 DEF PipeInv
  <2>2. received \in Nat /\ received' = received + 1 /\ sent' = sent /\ sent \subseteq Nat
    BY DEF PipeInv, PipeShape, Receives, Drops
  <2>3. \A n : Holds(n)' <=> Holds(n) BY DEF Holds, Publishing, Drops
  <2>4. Running' /\ Ascending'
    BY <2>1, <2>2 DEF Order, Running, Ascending, Publishing, Drops
  <2>5. AllHeld' BY <2>1, <2>2, <2>3 DEF Order, AllHeld, Drops
  <2>6. HeldIsNewer' BY <2>1, <2>2, <2>3 DEF Order, HeldIsNewer
  <2> QED BY <2>4, <2>5, <2>6 DEF Order
<1> QED BY <1>1, <1>2 DEF PipeInv

\* A message the callback takes: it is the newest of all.
LEMMA TakeKeeps ==
    ASSUME PipeInv, NEW t \in Topics, NEW b \in BOOLEAN, Take(t, b)
    PROVE  PipeInv'
<1> DEFINE f == [n |-> received + 1, topic |-> t, number |-> b]
<1>1. /\ received \in Nat /\ received < MaxMsgs /\ received' = received + 1 /\ hand = Free
      /\ UNCHANGED <<queue, pub, stopping, sent, dropped>>
      /\ hand' = [msg |-> f, by |-> IF stopping THEN "direct" ELSE "queue"]
  BY DEF PipeInv, PipeShape, Take, Receives, CallbackKeeps, outcome
<1>2. f \in Frames /\ f.n = received + 1 BY <1>1, PipelineAssumption DEF Frames
<1>3. hand'.msg = f /\ hand' # Free /\ hand' \in [msg : Frames, by : {"queue", "direct"}]
  BY <1>1, <1>2, FrameNumbers
<1>4. PipeShape' BY <1>1, <1>3 DEF PipeInv, PipeShape
<1>5. ASSUME ~stopping PROVE Order'
  <2>1. Order BY <1>5 DEF PipeInv
  <2>2. \A n : Holds(n)' <=> Holds(n) \/ n = received + 1
    BY <1>1, <1>2, <1>3 DEF Holds, Publishing
  <2>3. Running' BY <1>1, <1>5, <2>1 DEF Order, Running, Publishing, PipeInv, PipeShape
  <2>4. AllHeld' BY <1>1, <2>1, <2>2 DEF Order, AllHeld
  <2>5. \A m \in sent : m \in Nat /\ m <= received
    BY <2>1 DEF Order, Running, PipeInv, PipeShape
  <2>6. HeldIsNewer' BY <1>1, <2>1, <2>2, <2>5 DEF Order, HeldIsNewer
  <2>7. \A i \in DOMAIN queue : queue[i].n \in Nat /\ queue[i].n <= received
    BY <2>1, FrameNumbers DEF Order, HeldIsNewer, Holds, PipeInv, PipeShape
  <2>8. Publishing => pub.msg.n \in Nat /\ pub.msg.n <= received
    BY <2>1, FrameNumbers DEF Order, Running, HeldIsNewer, Holds
  <2>9. Ascending'
    BY <1>1, <1>2, <1>3, <2>1, <2>7, <2>8 DEF Order, Ascending, Publishing
  <2> QED BY <2>3, <2>4, <2>6, <2>9 DEF Order
<1> QED BY <1>1, <1>4, <1>5 DEF PipeInv

\* From the hand to the back of the queue.
LEMMA EnqueueKeeps ==
    ASSUME PipeInv, Enqueue
    PROVE  PipeInv'
<1>1. /\ hand # Free /\ hand \in [msg : Frames, by : {"queue", "direct"}]
      /\ queue \in Seq(Frames) /\ hand.msg \in Frames
      /\ queue' = Append(queue, hand.msg) /\ hand' = Free
      /\ UNCHANGED <<received, pub, stopping, sent, dropped>>
  BY DEF PipeInv, PipeShape, Enqueue, HandKeeps, outcome
<1>2. PipeShape' BY <1>1, Appended DEF PipeInv, PipeShape
<1>3. ASSUME ~stopping PROVE Order'
  <2>1. Order BY <1>3 DEF PipeInv
  <2>2. \A n : Holds(n)' <=> Holds(n) BY <1>1, Appended DEF Holds, Publishing
  <2>3. Running' BY <1>1, <2>1, FrameNumbers DEF Order, Running, Publishing
  <2>4. AllHeld' /\ HeldIsNewer' BY <1>1, <2>1, <2>2 DEF Order, AllHeld, HeldIsNewer
  <2>5. \A i \in DOMAIN queue : queue[i].n < hand.msg.n
    BY <1>1, <2>1 DEF Order, Ascending
  <2>6. \A i, j \in DOMAIN queue' : i < j => queue'[i].n < queue'[j].n
    <3> SUFFICES ASSUME NEW i \in DOMAIN queue', NEW j \in DOMAIN queue', i < j
                 PROVE  queue'[i].n < queue'[j].n
      OBVIOUS
    <3>1. i \in DOMAIN queue BY <1>1
    <3>2. CASE j \in DOMAIN queue
      BY <1>1, <2>1, <3>1, <3>2, Appended DEF Order, Ascending
    <3>3. CASE j = Len(queue) + 1 BY <1>1, <2>5, <3>1, <3>3, Appended
    <3> QED BY <1>1, <3>2, <3>3, Appended
  <2>7. Publishing => \A i \in DOMAIN queue' : pub.msg.n < queue'[i].n
    BY <1>1, <2>1, Appended DEF Order, Ascending
  <2>8. Ascending' BY <1>1, <2>6, <2>7 DEF Ascending, Publishing
  <2> QED BY <2>3, <2>4, <2>8 DEF Order
<1> QED BY <1>1, <1>2, <1>3 DEF PipeInv

\* From the front of the queue to the publisher.
LEMMA PublisherTakesKeeps ==
    ASSUME PipeInv, PublisherTakes
    PROVE  PipeInv'
<1>1. /\ queue \in Seq(Frames) /\ queue # <<>> /\ ~Publishing
      /\ queue' = Tail(queue)
      /\ pub' = [at |-> IF stopping THEN "flush" ELSE "publish", msg |-> Head(queue)]
      /\ UNCHANGED <<received, hand, stopping, sent, dropped>>
  BY DEF PipeInv, PipeShape, PublisherTakes, PublisherKeeps, Publishing, outcome
<1>2. PipeShape' BY <1>1, HeadTail DEF PipeInv, PipeShape
<1>3. ASSUME ~stopping PROVE Order'
  <2>1. Order BY <1>3 DEF PipeInv
  <2>2. Publishing' /\ pub'.msg = queue[1] /\ pub'.at = "publish" /\ queue[1] \in Frames
    BY <1>1, <1>3, HeadTail DEF Publishing
  <2>3. \A n : Holds(n)' <=> Holds(n)
    <3> TAKE n
    <3>1. (\E i \in DOMAIN queue : queue[i].n = n)
            <=> (queue[1].n = n \/ \E i \in DOMAIN queue' : queue'[i].n = n)
      <4>1. ASSUME NEW i \in DOMAIN queue, queue[i].n = n
            PROVE  queue[1].n = n \/ \E j \in DOMAIN queue' : queue'[j].n = n
        <5>1. i = 1 \/ (i - 1 \in DOMAIN queue' /\ queue'[i - 1] = queue[i])
          BY <1>1, HeadTail
        <5> QED BY <4>1, <5>1
      <4>2. ASSUME NEW i \in DOMAIN queue', queue'[i].n = n
            PROVE  \E j \in DOMAIN queue : queue[j].n = n
        <5>1. i + 1 \in DOMAIN queue /\ queue'[i] = queue[i + 1] BY <1>1, HeadTail
        <5> QED BY <4>2, <5>1
      <4>3. 1 \in DOMAIN queue BY <1>1, HeadTail
      <4> QED BY <4>1, <4>2, <4>3
    <3> QED BY <1>1, <2>2, <3>1 DEF Holds
  <2>4. Running' BY <1>1, <2>1, <2>2 DEF Order, Running
  <2>5. AllHeld' /\ HeldIsNewer' BY <1>1, <2>1, <2>3 DEF Order, AllHeld, HeldIsNewer
  <2>6. \A i, j \in DOMAIN queue' : i < j => queue'[i].n < queue'[j].n
    BY <1>1, <2>1, HeadTail DEF Order, Ascending
  <2>7. /\ \A i \in DOMAIN queue' : queue[1].n < queue'[i].n
        /\ hand # Free => /\ \A i \in DOMAIN queue' : queue'[i].n < hand.msg.n
                          /\ queue[1].n < hand.msg.n
    BY <1>1, <2>1, HeadTail DEF Order, Ascending
  <2>8. Ascending' BY <1>1, <2>2, <2>6, <2>7 DEF Ascending
  <2> QED BY <2>4, <2>5, <2>8 DEF Order
<1> QED BY <1>1, <1>2, <1>3 DEF PipeInv

\* What lands is the oldest of what is held.
LEMMA PublishLandsKeeps ==
    ASSUME PipeInv, PublishLands
    PROVE  PipeInv'
<1>1. /\ Publishing /\ sent' = sent \cup {pub.msg.n}
      /\ pub' = [at |-> "select", msg |-> NoMsg] /\ ~Publishing'
      /\ UNCHANGED <<received, hand, queue, stopping, dropped>>
  BY DEF PublishLands, Lands, PublisherKeeps, Publishing
<1>2. pub.msg.n \in Nat BY FrameNumbers DEF PipeInv, PipeShape
<1>3. PipeShape' BY <1>1, <1>2, Zenon DEF PipeInv, PipeShape
<1>4. ASSUME ~stopping PROVE Order'
  <2>1. Order BY <1>4 DEF PipeInv
  <2>2. pub.msg.n <= received BY <1>1, <1>2, <2>1 DEF Order, HeldIsNewer, Holds
  <2>3. \A n : Holds(n) <=> Holds(n)' \/ n = pub.msg.n BY <1>1 DEF Holds
  <2>4. \A n : Holds(n)' => pub.msg.n < n
    BY <1>1, <2>1 DEF Order, Ascending, Holds
  <2>5. Running' BY <1>1, <2>1, <2>2 DEF Order, Running
  <2>6. AllHeld' BY <1>1, <2>1, <2>3 DEF Order, AllHeld
  <2>7. HeldIsNewer' BY <1>1, <2>1, <2>3, <2>4 DEF Order, HeldIsNewer
  <2>8. Ascending' BY <1>1, <2>1 DEF Order, Ascending
  <2> QED BY <2>5, <2>6, <2>7, <2>8 DEF Order
<1> QED BY <1>1, <1>3, <1>4 DEF PipeInv

\* A step that changes neither what is held nor what has landed.
LEMMA OthersKeep ==
    ASSUME PipeInv, UNCHANGED <<received, hand, queue, pub, sent, dropped>>,
           stopping' = stopping \/ stopping'
    PROVE  PipeInv'
<1>1. PipeShape' BY DEF PipeInv, PipeShape
<1>2. Order => Order'
  BY DEF Order, Running, AllHeld, HeldIsNewer, Ascending, Holds, Publishing
<1> QED BY <1>1, <1>2 DEF PipeInv

\* A step of a connector that stops: only the shape is left to keep.
LEMMA StoppingKeeps ==
    ASSUME PipeInv, stopping, stopping' = stopping, PipeShape'
    PROVE  PipeInv'
BY DEF PipeInv

\* Before a stop, the callback publishes nothing itself and no flush or sweep runs.
LEMMA FlushMeansStop ==
    ASSUME PipeInv, ~stopping
    PROVE  hand.by # "direct" /\ pub.at \notin {"flush", "done", "sweep", "end"}
BY DEF PipeInv, Order, Running

\* Every step of the pipeline keeps the order.
LEMMA PipeInvInductive ==
    ASSUME PipeInv, [PipelineNext]_pipeVars
    PROVE  PipeInv'
<1>1. ASSUME NEW t \in Topics, Unrouted(t) \/ Throttle(t) \/ Unusable(t) PROVE PipeInv'
  BY <1>1, DropsKeep DEF Unrouted, Throttle, Unusable, CallbackKeeps
<1>2. ASSUME NEW t \in Topics, NEW b \in BOOLEAN, Take(t, b) PROVE PipeInv'
  BY <1>2, TakeKeeps
<1>3. CASE Enqueue BY <1>3, EnqueueKeeps
<1>4. CASE EnqueueStopped
  <2>1. PipeShape'
    BY <1>4 DEF PipeInv, PipeShape, EnqueueStopped, HandKeeps, outcome
  <2> QED BY <1>4, <2>1, StoppingKeeps DEF EnqueueStopped, HandKeeps
<1>5. CASE Direct \/ DirectTimesOut
  <2>1. hand.by = "direct" /\ hand' = Free /\ UNCHANGED <<received, pub, queue, stopping>>
    BY <1>5 DEF Direct, DirectTimesOut, HandKeeps
  <2>2. hand.msg.n \in Nat BY <2>1, FrameNumbers DEF PipeInv, PipeShape
  <2>3. sent' \subseteq Nat
    BY <1>5, <2>2, Zenon DEF PipeInv, PipeShape, Direct, DirectTimesOut, Lands, GivesUp
  <2>4. PipeShape' BY <2>1, <2>3 DEF PipeInv, PipeShape
  <2> QED BY <2>1, <2>4, FlushMeansStop, StoppingKeeps DEF PipeInv
<1>6. CASE PublisherTakes BY <1>6, PublisherTakesKeeps
<1>7. CASE PublishLands BY <1>7, PublishLandsKeeps
<1>8. CASE PublishFails BY <1>8, OthersKeep DEF PublishFails, PublisherKeeps, outcome
<1>9. CASE PublisherStops \/ PublishCancelled
  <2>1. /\ stopping /\ pub' = [pub EXCEPT !.at = "flush"]
        /\ UNCHANGED <<received, hand, queue, stopping>>
    BY <1>9 DEF PublisherStops, PublishCancelled, PublisherKeeps
  <2>2. pub.msg.n \in Nat BY FrameNumbers DEF PipeInv, PipeShape
  <2>3. sent' \subseteq Nat
    BY <1>9, <2>2 DEF PipeInv, PipeShape, PublisherStops, PublishCancelled, outcome
  <2>4. PipeShape' BY <2>1, <2>3 DEF PipeInv, PipeShape
  <2> QED BY <2>1, <2>4, StoppingKeeps
<1>10. CASE FlushTakes \/ FlushLands \/ FlushTimesOut \/ FlushEnds \/ Sweep
  <2>1. /\ pub.at \in {"flush", "sweep", "done"}
        /\ UNCHANGED <<received, hand, stopping>>
    BY <1>10 DEF FlushTakes, FlushLands, FlushTimesOut, FlushEnds, Sweep, Flushing,
                 PublisherKeeps
  <2>2. pub.msg.n \in Nat BY FrameNumbers DEF PipeInv, PipeShape
  <2>3. sent' \subseteq Nat
    BY <1>10, <2>2 DEF PipeInv, PipeShape, FlushTakes, FlushLands, FlushTimesOut, FlushEnds,
                       Sweep, Lands, GivesUp, outcome
  <2>4. queue' \in Seq(Frames)
    BY <1>10, HeadTail, Zenon DEF PipeInv, PipeShape, FlushTakes, FlushLands, FlushTimesOut,
                           FlushEnds, Sweep
  <2>5. pub' \in [at : {"select", "publish", "flush", "done", "sweep", "end"},
                  msg : Frames \cup {NoMsg}]
    BY <1>10, HeadTail DEF PipeInv, PipeShape, FlushTakes, FlushLands, FlushTimesOut,
                           FlushEnds, Sweep, Flushed
  <2>6. PipeShape' BY <2>1, <2>3, <2>4, <2>5, Zenon DEF PipeInv, PipeShape
  <2> QED BY <2>1, <2>6, FlushMeansStop, StoppingKeeps DEF PipeInv
<1>11. CASE Stop \/ ManagerDone \/ IndexSwaps \/ IntervalPasses \/ FloorPublishes
  BY <1>11, OthersKeep
     DEF Stop, ManagerDone, IndexSwaps, IntervalPasses, FloorPublishes, RunKeeps
<1>12. ASSUME NEW t \in Topics, FloorTick(t) PROVE PipeInv'
  BY <1>12, OthersKeep DEF FloorTick, RunKeeps
<1>13. CASE UNCHANGED pipeVars BY <1>13, OthersKeep DEF pipeVars, outcome
<1> QED
  BY <1>1, <1>2, <1>3, <1>4, <1>5, <1>6, <1>7, <1>8, <1>9, <1>10, <1>11, <1>12, <1>13, Zenon
     DEF PipelineNext, CallbackNext, PublisherNext

\* An empty pipeline is in order.
LEMMA PipeInvInitially ==
    ASSUME PipelineInit
    PROVE  PipeInv
<1>1. PipeShape BY DEF PipelineInit, PipeShape
<1>2. \A n \in Nat : ~Holds(n)
  BY DEF PipelineInit, Holds, Publishing
<1>3. Order
  BY <1>2, FrameNumbers
     DEF PipelineInit, Order, Running, AllHeld, HeldIsNewer, Ascending, Publishing
<1> QED BY <1>1, <1>3 DEF PipeInv

\* What landed has nothing older still held: every older message landed or was dropped.
LEMMA OrderSuffices ==
    ASSUME PipeInv
    PROVE  InOrder
<1> SUFFICES ASSUME ~stopping, NEW m \in sent, NEW n \in 1..(m - 1)
             PROVE  n \in sent \cup dropped
  BY DEF InOrder
<1>1. Order /\ m \in Nat /\ m <= received /\ received \in Nat
  BY DEF PipeInv, PipeShape, Order, Running
<1>2. n \in 1..received /\ n \in Nat /\ n < m BY <1>1
<1>3. ~Holds(n) BY <1>1, <1>2 DEF Order, HeldIsNewer
<1> QED BY <1>1, <1>2, <1>3 DEF Order, AllHeld

\* Until a stop, messages reach JetStream in the order of their arrival
\* (receivePublish, enqueue, runPublisher), for every queue size and set of topics.
THEOREM PublishesInOrder == PipelineSpec => []InOrder
<1>1. PipelineInit => PipeInv BY PipeInvInitially
<1>2. PipeInv /\ [PipelineNext]_pipeVars => PipeInv' BY PipeInvInductive
<1>3. PipeInv => InOrder BY OrderSuffices
<1> QED BY <1>1, <1>2, <1>3, PTL DEF PipelineSpec

-----------------------------------------------------------------------------
(* AckAfterPublish, types included.                                        *)

\* Where messages are, each with a number already given out.
Carriers ==
    /\ received \in 0..MaxMsgs
    /\ hand \in [msg : Frames, by : {"queue", "direct"}] \cup {Free}
    /\ queue \in Seq(Frames) /\ Len(queue) <= QueueSize
    /\ pub \in [at : {"select", "publish", "flush", "done", "sweep", "end"}, msg : Frames \cup {NoMsg}]
    /\ pub.at \in {"select", "done", "end"} => pub.msg = NoMsg
    /\ pub.at = "publish" => pub.msg # NoMsg
    /\ hand.msg.n <= received /\ pub.msg.n <= received
    /\ \A i \in DOMAIN queue : queue[i].n <= received

\* What became of them.
Outcomes ==
    /\ sent \subseteq 1..received /\ acked \subseteq 1..received /\ dropped \subseteq 1..received
    /\ lost \subseteq 1..received /\ late \subseteq 1..received
    /\ acked \subseteq sent \cup dropped
    /\ lkv \subseteq Topics

Limiter == recent \subseteq Topics /\ IsFiniteSet(recent) /\ Cardinality(recent) <= MaxTracked

Surroundings ==
    /\ points \in Indexes
    /\ {stopping, ended} \subseteq BOOLEAN
    /\ floor \in Topics \cup {None}
    /\ faults \in 0..MaxFaults /\ swaps \in 0..MaxSwaps

AckInv == Carriers /\ Outcomes /\ Limiter /\ Surroundings

\* A message that is passed on and is not the absent one.
LEMMA PassedOn ==
    ASSUME Carriers
    PROVE  /\ hand.by = "direct" => hand.msg \in Frames /\ hand.msg.n \in 1..received
           /\ hand # Free => hand.msg \in Frames
           /\ pub.msg # NoMsg => pub.msg \in Frames /\ pub.msg.n \in 1..received
           /\ hand.msg.n \in 0..received
<1>1. \A f \in Frames : f.n \in 1..MaxMsgs BY DEF Frames
<1> QED BY <1>1, FrameNumbers, PipelineAssumption DEF Carriers

\* Taking the front of the queue keeps the rest numbered.
LEMMA TakenFromQueue ==
    ASSUME Carriers, queue # <<>>, queue' = Tail(queue), received' = received
    PROVE  /\ queue' \in Seq(Frames) /\ Len(queue') <= QueueSize
           /\ \A i \in DOMAIN queue' : queue'[i].n <= received
           /\ Head(queue) \in Frames /\ Head(queue) # NoMsg /\ Head(queue).n <= received
<1>1. queue \in Seq(Frames) BY DEF Carriers
<1>2. Len(queue') <= QueueSize BY <1>1, PipelineAssumption, SMTT(20), Zenon DEF Carriers
<1> QED BY <1>1, <1>2, HeadTail, FrameNumbers DEF Carriers

\* The messages stay numbered and in their places.
LEMMA CarriersKept ==
    ASSUME Carriers, [PipelineNext]_pipeVars
    PROVE  Carriers'
<1>1. ASSUME NEW t \in Topics, Unrouted(t) \/ Throttle(t) \/ Unusable(t) PROVE Carriers'
  <2>1. /\ received < MaxMsgs /\ received' = received + 1 /\ UNCHANGED <<hand, queue, pub>>
    BY <1>1, SMTT(20), Zenon DEF Unrouted, Throttle, Unusable, Receives, Drops, CallbackKeeps
  <2>2. received \in Nat /\ hand.msg.n \in Nat /\ pub.msg.n \in Nat
        /\ \A i \in DOMAIN queue : queue[i].n \in Nat
    BY FrameNumbers, SMTT(20), Zenon DEF Carriers
  <2>3. received' \in 0..MaxMsgs BY <2>1, <2>2, PipelineAssumption
  <2>4. /\ hand.msg.n <= received' /\ pub.msg.n <= received'
        /\ \A i \in DOMAIN queue : queue[i].n <= received'
    BY <2>1, <2>2, SMTT(20), Zenon DEF Carriers
  <2> QED BY <2>1, <2>3, <2>4 DEF Carriers
<1>2. ASSUME NEW t \in Topics, NEW b \in BOOLEAN, Take(t, b) PROVE Carriers'
  <2> DEFINE f == [n |-> received + 1, topic |-> t, number |-> b]
  <2>1. /\ received < MaxMsgs /\ received' = received + 1 /\ UNCHANGED <<queue, pub>>
        /\ hand' = [msg |-> f, by |-> IF stopping THEN "direct" ELSE "queue"]
    BY <1>2 DEF Take, Receives, CallbackKeeps
  <2>2. received \in Nat /\ pub.msg.n \in Nat /\ \A i \in DOMAIN queue : queue[i].n \in Nat
    BY FrameNumbers, SMTT(20), Zenon DEF Carriers
  <2>3. received' \in 0..MaxMsgs /\ received + 1 \in 1..MaxMsgs
    <3>1. MaxMsgs \in Nat BY PipelineAssumption
    <3> QED BY <2>1, <2>2, <3>1
  <2>4. f \in Frames /\ f.n = received + 1 BY <2>3 DEF Frames
  <2>5. hand' \in [msg : Frames, by : {"queue", "direct"}] /\ hand'.msg.n = received + 1
    <3> HIDE DEF f
    <3>1. hand'.msg = f BY <2>1, Zenon
    <3> QED BY <2>1, <2>4, <3>1
  <2>6. /\ hand'.msg.n <= received' /\ pub.msg.n <= received'
        /\ \A i \in DOMAIN queue : queue[i].n <= received'
    BY <2>1, <2>2, <2>5, SMTT(20), Zenon DEF Carriers
  <2> QED BY <2>1, <2>3, <2>5, <2>6, Zenon DEF Carriers
<1>3. CASE Enqueue
  <2>1. /\ hand.msg \in Frames /\ Len(queue) < QueueSize /\ hand' = Free
        /\ queue' = Append(queue, hand.msg) /\ UNCHANGED <<received, pub>>
    BY <1>3, PassedOn, Zenon DEF Enqueue, HandKeeps
  <2>2. queue' \in Seq(Frames) /\ Len(queue') <= QueueSize
    BY <2>1, PipelineAssumption DEF Carriers
  <2>3. \A i \in DOMAIN queue' : queue'[i].n <= received
    BY <2>1, Appended DEF Carriers
  <2>4. hand'.msg.n <= received BY <2>1, FrameNumbers DEF Carriers
  <2> QED BY <2>1, <2>2, <2>3, <2>4, Zenon DEF Carriers
<1>4. CASE EnqueueStopped
  <2>1. hand' \in [msg : Frames, by : {"queue", "direct"}] /\ hand'.msg = hand.msg
    BY <1>4 DEF EnqueueStopped, Carriers
  <2> QED BY <1>4, <2>1 DEF EnqueueStopped, HandKeeps, Carriers
<1>5. CASE Direct \/ DirectTimesOut
  <2>1. hand' = Free /\ UNCHANGED <<received, queue, pub>>
    BY <1>5, Zenon DEF Direct, DirectTimesOut, HandKeeps
  <2> QED BY <2>1, FrameNumbers DEF Carriers
<1>6. CASE PublisherTakes
  <2>1. /\ queue # <<>> /\ queue' = Tail(queue) /\ UNCHANGED <<received, hand>>
        /\ pub' = [at |-> IF stopping THEN "flush" ELSE "publish", msg |-> Head(queue)]
    BY <1>6, Zenon DEF PublisherTakes, PublisherKeeps
  <2> QED BY <2>1, TakenFromQueue, Zenon DEF Carriers
<1>7. CASE PublishLands
  <2>1. /\ pub' = [at |-> "select", msg |-> NoMsg] /\ UNCHANGED <<received, hand, queue>>
    BY <1>7 DEF PublishLands, PublisherKeeps
  <2> QED BY <2>1, FrameNumbers DEF Carriers
<1>8. CASE PublisherStops \/ PublishCancelled \/ Sweep
  <2>1. /\ pub' \in {[pub EXCEPT !.at = "flush"], [pub EXCEPT !.at = "sweep"]}
        /\ UNCHANGED <<received, hand, queue>>
    BY <1>8 DEF PublisherStops, PublishCancelled, Sweep, PublisherKeeps
  <2> QED BY <2>1 DEF Carriers
<1>9. CASE FlushTakes
  <2>1. /\ queue # <<>> /\ queue' = Tail(queue) /\ UNCHANGED <<received, hand>>
        /\ pub' = [pub EXCEPT !.msg = Head(queue)] /\ pub.at \in {"flush", "sweep"}
    BY <1>9 DEF FlushTakes, Flushing, PublisherKeeps
  <2> QED BY <2>1, TakenFromQueue DEF Carriers
<1>10. CASE FlushLands \/ FlushTimesOut \/ FlushEnds
  <2>1. /\ pub' \in {[pub EXCEPT !.msg = NoMsg], Flushed} /\ pub.at \in {"flush", "sweep"}
        /\ UNCHANGED <<received, hand, queue>>
    BY <1>10 DEF FlushLands, FlushTimesOut, FlushEnds, Flushing, PublisherKeeps
  <2> QED BY <2>1, FrameNumbers DEF Carriers, Flushed
<1>11. ASSUME UNCHANGED <<received, hand, queue, pub>> PROVE Carriers'
  BY <1>11 DEF Carriers
<1> QED
  BY <1>1, <1>2, <1>3, <1>4, <1>5, <1>6, <1>7, <1>8, <1>9, <1>10, <1>11,
     ZenonT(30)
     DEF PipelineNext, CallbackNext, PublisherNext, PublishFails, PublisherKeeps, Stop,
         ManagerDone, IndexSwaps, IntervalPasses, FloorTick, FloorPublishes, RunKeeps, pipeVars

\* publishPending acknowledges exactly what it lands.
LEMMA LandsKeeps ==
    ASSUME Outcomes, NEW msg \in Frames, msg.n \in 1..received, Lands(msg),
           UNCHANGED <<received, dropped, late>>
    PROVE  Outcomes'
<1>1. msg.topic \in Topics BY DEF Frames
<1> QED BY <1>1, Zenon DEF Outcomes, Lands

\* A message given up is one that was received, and is not acknowledged.
LEMMA GivesUpKeeps ==
    ASSUME Outcomes, NEW numbers, numbers \subseteq 1..received, GivesUp(numbers),
           UNCHANGED <<received, dropped, late>>
    PROVE  Outcomes'
BY Zenon DEF Outcomes, GivesUp

\* On every path an acknowledgement follows the publish or the drop.
LEMMA OutcomesKept ==
    ASSUME Carriers, Outcomes, [PipelineNext]_pipeVars
    PROVE  Outcomes'
<1>1. received \in Nat BY DEF Carriers
<1>2. ASSUME NEW t \in Topics, Unrouted(t) \/ Throttle(t) \/ Unusable(t) PROVE Outcomes'
  <2>1. /\ received' = received + 1 /\ Drops /\ late' = late
    BY <1>2, Zenon DEF Unrouted, Throttle, Unusable, Receives, CallbackKeeps
  <2> QED BY <1>1, <2>1 DEF Outcomes, Drops
<1>3. ASSUME NEW t \in Topics, NEW b \in BOOLEAN, Take(t, b) PROVE Outcomes'
  BY <1>1, <1>3, SMTT(20), Zenon DEF Take, Receives, CallbackKeeps, outcome, Outcomes
<1>4. CASE Direct BY <1>4, PassedOn, LandsKeeps, Zenon DEF Direct, HandKeeps
<1>5. CASE DirectTimesOut
  <2>1. {hand.msg.n} \subseteq 1..received BY <1>5, PassedOn, Zenon DEF DirectTimesOut
  <2> QED BY <1>5, <2>1, GivesUpKeeps, Zenon DEF DirectTimesOut, HandKeeps
<1>6. CASE PublishLands
  BY <1>6, PassedOn, LandsKeeps DEF PublishLands, PublisherKeeps, Carriers
<1>7. CASE PublishCancelled
  <2>1. pub.msg.n \in 1..received BY <1>7, PassedOn DEF PublishCancelled, Carriers
  <2> QED BY <1>7, <2>1 DEF PublishCancelled, PublisherKeeps, Outcomes
<1>8. CASE FlushLands BY <1>8, PassedOn, LandsKeeps, Zenon DEF FlushLands, PublisherKeeps
<1>9. CASE FlushTimesOut
  <2>1. pub.msg.n \in 1..received BY <1>9, PassedOn DEF FlushTimesOut
  <2>2. \A i \in DOMAIN queue : queue[i].n \in 1..received
    <3>1. \A f \in Frames : f.n \in 1..MaxMsgs BY DEF Frames
    <3> QED BY <1>1, <3>1 DEF Carriers
  <2>3. {pub.msg.n} \cup Remaining \subseteq 1..received BY <2>1, <2>2 DEF Remaining
  <2> QED BY <1>9, <2>3, GivesUpKeeps DEF FlushTimesOut, PublisherKeeps
<1>10. CASE ManagerDone
  <2>1. late' \subseteq 1..received BY <1>1, <1>10, PassedOn DEF ManagerDone
  <2> QED BY <1>10, <2>1 DEF ManagerDone, RunKeeps, Outcomes
<1>11. ASSUME NEW t \in Topics, FloorTick(t) PROVE Outcomes'
  BY <1>11 DEF FloorTick, RunKeeps, Outcomes
<1>12. ASSUME UNCHANGED <<received, dropped, late, sent, acked, lost, lkv>> PROVE Outcomes'
  BY <1>12 DEF Outcomes
<1>13. CASE \/ Enqueue \/ EnqueueStopped \/ PublisherTakes \/ PublisherStops \/ PublishFails
            \/ FlushTakes \/ FlushEnds \/ Sweep
  BY <1>12, <1>13, Zenon
     DEF Enqueue, EnqueueStopped, HandKeeps, PublisherTakes, PublisherStops, PublishFails,
         FlushTakes, FlushEnds, Sweep, PublisherKeeps, outcome
<1>14. CASE Stop \/ IndexSwaps \/ IntervalPasses \/ FloorPublishes
  BY <1>12, <1>14 DEF Stop, IndexSwaps, IntervalPasses, FloorPublishes, RunKeeps
<1>15. CASE UNCHANGED pipeVars BY <1>12, <1>15, Zenon DEF pipeVars, outcome
<1> QED
  BY <1>2, <1>3, <1>4, <1>5, <1>6, <1>7, <1>8, <1>9, <1>10, <1>11, <1>13, <1>14, <1>15,
     ZenonT(30)
     DEF PipelineNext, CallbackNext, PublisherNext

\* The limiter's table never outgrows its bound.
LEMMA LimiterKept ==
    ASSUME Limiter, [PipelineNext]_pipeVars
    PROVE  Limiter'
<1>1. ASSUME NEW t \in Topics, Accepts(t) PROVE Limiter'
  <2>1. MaxTracked \in Nat \ {0} BY PipelineAssumption
  <2>2. CASE t \in DOMAIN points BY <1>1, <2>2 DEF Accepts, Limiter
  <2>3. CASE t \notin DOMAIN points /\ Cardinality(recent) >= MaxTracked
    <3>1. recent' = {t} BY <1>1, <2>3 DEF Accepts
    <3>2. IsFiniteSet({t}) /\ Cardinality({t}) = 1 BY FS_Singleton
    <3> QED BY <2>1, <3>1, <3>2 DEF Limiter
  <2>4. CASE t \notin DOMAIN points /\ ~(Cardinality(recent) >= MaxTracked)
    <3>1. recent' = recent \cup {t} BY <1>1, <2>4 DEF Accepts
    <3>2. Cardinality(recent) \in Nat BY FS_CardinalityType DEF Limiter
    <3>3. /\ IsFiniteSet(recent \cup {t})
          /\ Cardinality(recent \cup {t})
               = IF t \in recent THEN Cardinality(recent) ELSE Cardinality(recent) + 1
      BY FS_AddElement DEF Limiter
    <3> QED BY <2>1, <2>4, <3>1, <3>2, <3>3, SMTT(20), Zenon DEF Limiter
  <2> QED BY <2>2, <2>3, <2>4
<1>2. CASE IntervalPasses
  <2>1. recent' \subseteq recent BY <1>2 DEF IntervalPasses
  <2>2. /\ IsFiniteSet(recent') /\ Cardinality(recent') <= Cardinality(recent)
        /\ Cardinality(recent) \in Nat /\ Cardinality(recent') \in Nat
    BY <2>1, FS_Subset, FS_CardinalityType DEF Limiter
  <2> QED BY <2>1, <2>2, PipelineAssumption DEF Limiter
<1>3. ASSUME UNCHANGED recent PROVE Limiter' BY <1>3 DEF Limiter
<1>4. CASE CallbackNext
  BY <1>1, <1>3, <1>4
     DEF CallbackNext, Unrouted, Throttle, Unusable, Take, Enqueue, EnqueueStopped, Direct,
         DirectTimesOut, HandKeeps
<1>5. CASE PublisherNext
  BY <1>3, <1>5
     DEF PublisherNext, PublisherTakes, PublisherStops, PublishLands, PublishFails,
         PublishCancelled, FlushTakes, FlushLands, FlushTimesOut, FlushEnds, Sweep,
         PublisherKeeps
<1> QED
  BY <1>2, <1>3, <1>4, <1>5
     DEF PipelineNext, Stop, ManagerDone, IndexSwaps, FloorTick, FloorPublishes, pipeVars

\* The index, the context, the floor and the counters keep their types.
LEMMA SurroundingsKept ==
    ASSUME Surroundings, Outcomes, [PipelineNext]_pipeVars
    PROVE  Surroundings'
<1>1. ASSUME UNCHANGED <<points, stopping, ended, floor, swaps>>, UNCHANGED faults \/ Fault
      PROVE  Surroundings'
  BY <1>1, PipelineAssumption DEF Surroundings, Fault
<1>2. CASE CallbackNext
  BY <1>1, <1>2
     DEF CallbackNext, Unrouted, Throttle, Unusable, Take, CallbackKeeps, Enqueue,
         EnqueueStopped, Direct, DirectTimesOut, HandKeeps
<1>3. CASE PublisherNext
  BY <1>1, <1>3, SMTT(20), Zenon
     DEF PublisherNext, PublisherTakes, PublisherStops, PublishLands, PublishFails,
         PublishCancelled, FlushTakes, FlushLands, FlushTimesOut, FlushEnds, Sweep,
         PublisherKeeps
<1>4. CASE Stop \/ ManagerDone \/ IntervalPasses \/ FloorPublishes
  BY <1>4, Zenon DEF Stop, ManagerDone, IntervalPasses, FloorPublishes, RunKeeps, Surroundings
<1>5. CASE IndexSwaps
  BY <1>5, PipelineAssumption DEF IndexSwaps, RunKeeps, Surroundings
<1>6. ASSUME NEW t \in Topics, FloorTick(t) PROVE Surroundings'
  BY <1>6 DEF FloorTick, RunKeeps, Surroundings
<1>7. CASE UNCHANGED pipeVars BY <1>1, <1>7 DEF pipeVars
<1> QED BY <1>2, <1>3, <1>4, <1>5, <1>6, <1>7, Zenon DEF PipelineNext

\* An empty pipeline has acknowledged nothing.
LEMMA AckInvInitially ==
    ASSUME PipelineInit
    PROVE  AckInv
<1>1. Carriers BY PipelineAssumption, FrameNumbers DEF PipelineInit, Carriers
<1>2. Outcomes BY DEF PipelineInit, Outcomes
<1>3. Limiter BY FS_EmptySet, PipelineAssumption DEF PipelineInit, Limiter
<1>4. Surroundings
  <2>1. faults \in 0..MaxFaults /\ swaps \in 0..MaxSwaps
    BY PipelineAssumption DEF PipelineInit
  <2>2. {stopping, ended} \subseteq BOOLEAN BY Zenon DEF PipelineInit
  <2> QED BY <2>1, <2>2 DEF PipelineInit, Surroundings
<1> QED BY <1>1, <1>2, <1>3, <1>4, Zenon DEF AckInv

\* The parts make up the type invariant and the promise about acknowledgements.
LEMMA AckInvSuffices ==
    ASSUME AckInv
    PROVE  AckAfterPublish
BY DEF AckInv, Carriers, Outcomes, Limiter, Surroundings, AckAfterPublish, PipelineTypeOK

\* "PUBACK is sent only after the event lands in JetStream" (publishPending, drainQueue,
\* receivePublish), for every queue size, limiter bound and set of indexes.
THEOREM AcknowledgesWhatLanded == PipelineSpec => []AckAfterPublish
<1>1. PipelineInit => AckInv BY AckInvInitially
<1>2. AckInv /\ [PipelineNext]_pipeVars => AckInv'
  BY CarriersKept, OutcomesKept, LimiterKept, SurroundingsKept DEF AckInv
<1>3. AckInv => AckAfterPublish BY AckInvSuffices
<1> QED BY <1>1, <1>2, <1>3, PTL DEF PipelineSpec

-----------------------------------------------------------------------------
(* No message is forgotten at the end of Run.                              *)

\* The message is in the queue, with the publisher or the sweep, or in the callback's hand.
Kept(n) ==
    \/ \E i \in DOMAIN queue : queue[i].n = n
    \/ pub.msg.n = n
    \/ hand.msg.n = n

\* Every message received has an outcome or is still somewhere.
Accounted == \A n \in 1..received : n \in sent \cup dropped \cup lost \/ Kept(n)

\* After the connection there is at most the callback's last message, and what Run leaves
\* behind in the queue is that message or was given up.
LeftBehind ==
    /\ ended => hand.msg.n \in late \cup {0}
    /\ pub.at \in {"sweep", "end"} => ended
    /\ pub.at = "end" => \A i \in DOMAIN queue : queue[i].n \in lost \cup late

EndInv == Carriers /\ Accounted /\ LeftBehind

\* When Run has returned, every message it received has an outcome.
RunAccounts ==
    pub.at = "end" => \A n \in 1..received : n \in sent \cup dropped \cup lost \cup late

\* A step that receives nothing: what it lets go of has an outcome.
LEMMA AccountedMoves ==
    ASSUME Carriers, Accounted, received' = received,
           sent \subseteq sent', dropped' = dropped, lost \subseteq lost',
           \A n : Kept(n) => n = 0 \/ Kept(n)' \/ n \in sent' \/ n \in lost'
    PROVE  Accounted'
<1> SUFFICES ASSUME NEW n \in 1..received PROVE n \in sent' \cup dropped' \cup lost' \/ Kept(n)'
  BY DEF Accounted
<1>1. n # 0 BY DEF Carriers
<1>2. n \in sent \cup dropped \cup lost \/ Kept(n) BY DEF Accounted
<1> QED BY <1>1, <1>2, Zenon

\* Taking the front of the queue: the message goes to the publisher or the sweep.
LEMMA TakenIsKept ==
    ASSUME Carriers, queue # <<>>, queue' = Tail(queue), pub'.msg = Head(queue), hand' = hand,
           pub.msg = NoMsg, NEW n, Kept(n), n # 0
    PROVE  Kept(n)'
<1>1. queue \in Seq(Frames) BY DEF Carriers
<1>2. pub.msg.n # n BY FrameNumbers
<1>3. CASE hand.msg.n = n BY <1>3 DEF Kept
<1>4. ASSUME NEW i \in DOMAIN queue, queue[i].n = n PROVE Kept(n)'
  <2>1. CASE i = 1
    <3>1. pub'.msg = queue[i] BY <1>1, <2>1, HeadTail
    <3> QED BY <1>4, <3>1 DEF Kept
  <2>2. CASE i - 1 \in DOMAIN queue' /\ queue'[i - 1] = queue[i] BY <1>4, <2>2 DEF Kept
  <2> QED BY <1>1, <2>1, <2>2, HeadTail
<1> QED BY <1>2, <1>3, <1>4 DEF Kept

\* Every step of the pipeline accounts for what it lets go of.
LEMMA AccountedKept ==
    ASSUME Carriers, Accounted, [PipelineNext]_pipeVars
    PROVE  Accounted'
<1>1. received \in Nat BY DEF Carriers
<1>2. ASSUME NEW t \in Topics, Unrouted(t) \/ Throttle(t) \/ Unusable(t) PROVE Accounted'
  <2>1. /\ received' = received + 1 /\ dropped' = dropped \cup {received + 1}
        /\ UNCHANGED <<hand, queue, pub, sent, lost>>
    BY <1>2 DEF Unrouted, Throttle, Unusable, Receives, Drops, CallbackKeeps
  <2>2. \A n : Kept(n)' <=> Kept(n) BY <2>1 DEF Kept
  <2> QED BY <1>1, <2>1, <2>2 DEF Accounted
<1>3. ASSUME NEW t \in Topics, NEW b \in BOOLEAN, Take(t, b) PROVE Accounted'
  <2>1. /\ received' = received + 1 /\ hand = Free /\ hand'.msg.n = received + 1
        /\ UNCHANGED <<queue, pub, sent, lost, dropped>>
    BY <1>3 DEF Take, Receives, CallbackKeeps, outcome
  <2>2. \A n : Kept(n) => n = 0 \/ Kept(n)' BY <2>1, FrameNumbers, Zenon DEF Kept
  <2>3. \A n : n = received + 1 => Kept(n)' BY <2>1 DEF Kept
  <2> QED BY <1>1, <2>1, <2>2, <2>3 DEF Accounted
<1>4. CASE Enqueue
  <2>1. /\ queue \in Seq(Frames) /\ hand.msg \in Frames
        /\ queue' = Append(queue, hand.msg)
        /\ UNCHANGED <<received, pub, sent, lost, dropped>>
    BY <1>4, PassedOn, Zenon DEF Enqueue, HandKeeps, outcome, Carriers
  <2>2. \A n : Kept(n) => Kept(n)' BY <2>1, Appended DEF Kept
  <2> QED BY <2>1, <2>2, AccountedMoves, Zenon
<1>5. CASE EnqueueStopped
  <2>1. hand'.msg = hand.msg /\ UNCHANGED <<received, queue, pub, sent, lost, dropped>>
    BY <1>5 DEF EnqueueStopped, HandKeeps, outcome, Carriers
  <2>2. \A n : Kept(n) => Kept(n)' BY <2>1 DEF Kept
  <2> QED BY <2>1, <2>2, AccountedMoves
<1>6. CASE Direct \/ DirectTimesOut
  <2>1. /\ sent \subseteq sent' /\ lost \subseteq lost' /\ hand.msg.n \in sent' \cup lost'
        /\ UNCHANGED <<received, queue, pub, dropped>>
    BY <1>6, Zenon DEF Direct, DirectTimesOut, Lands, GivesUp, HandKeeps
  <2>2. \A n : Kept(n) => Kept(n)' \/ n \in sent' \/ n \in lost' BY <2>1 DEF Kept
  <2> QED BY <2>1, <2>2, AccountedMoves, Zenon
<1>7. CASE PublisherTakes \/ FlushTakes
  <2>1. /\ queue # <<>> /\ queue' = Tail(queue) /\ pub'.msg = Head(queue) /\ pub.msg = NoMsg
        /\ UNCHANGED <<received, hand, sent, lost, dropped>>
    BY <1>7 DEF PublisherTakes, FlushTakes, PublisherKeeps, outcome, Carriers
  <2>2. \A n : Kept(n) => n = 0 \/ Kept(n)' BY <2>1, TakenIsKept
  <2> QED BY <2>1, <2>2, AccountedMoves
<1>8. CASE PublishLands \/ FlushLands \/ FlushTimesOut
  <2>1. /\ sent \subseteq sent' /\ lost \subseteq lost' /\ pub.msg.n \in sent' \cup lost'
        /\ UNCHANGED <<received, queue, hand, dropped>>
    BY <1>8 DEF PublishLands, FlushLands, FlushTimesOut, Lands, GivesUp, PublisherKeeps
  <2>2. \A n : Kept(n) => Kept(n)' \/ n \in sent' \/ n \in lost' BY <2>1 DEF Kept
  <2> QED BY <2>1, <2>2, AccountedMoves
<1>9. CASE PublisherStops \/ PublishFails \/ PublishCancelled \/ FlushEnds \/ Sweep
  <2>1. /\ sent \subseteq sent' /\ pub'.msg = pub.msg
        /\ UNCHANGED <<received, queue, hand, lost, dropped>>
    BY <1>9 DEF PublisherStops, PublishFails, PublishCancelled, FlushEnds, Sweep, Flushed,
                PublisherKeeps, outcome, Carriers
  <2>2. \A n : Kept(n) => Kept(n)' BY <2>1 DEF Kept
  <2> QED BY <2>1, <2>2, AccountedMoves
<1>10. ASSUME UNCHANGED <<received, hand, queue, pub, sent, lost, dropped>> PROVE Accounted'
  <2>1. \A n : Kept(n) => Kept(n)' BY <1>10, Zenon DEF Kept
  <2> QED BY <1>10, <2>1, AccountedMoves
<1>11. CASE Stop \/ ManagerDone \/ IndexSwaps \/ IntervalPasses \/ FloorPublishes
  BY <1>10, <1>11, Zenon
     DEF Stop, ManagerDone, IndexSwaps, IntervalPasses, FloorPublishes, RunKeeps
<1>12. ASSUME NEW t \in Topics, FloorTick(t) PROVE Accounted'
  BY <1>10, <1>12, Zenon DEF FloorTick, RunKeeps
<1>13. CASE UNCHANGED pipeVars BY <1>10, <1>13 DEF pipeVars, outcome
<1> QED
  BY <1>2, <1>3, <1>4, <1>5, <1>6, <1>7, <1>8, <1>9, <1>11, <1>12, <1>13, Zenon
     DEF PipelineNext, CallbackNext, PublisherNext

\* Only the callback's last message can join the queue after the sweep.
LEMMA LeftBehindKept ==
    ASSUME Carriers, LeftBehind, [PipelineNext]_pipeVars
    PROVE  LeftBehind'
<1>1. ASSUME NEW t \in Topics, Unrouted(t) \/ Throttle(t) \/ Unusable(t) PROVE LeftBehind'
  BY <1>1, SMTT(20), Zenon DEF Unrouted, Throttle, Unusable, Receives, Drops, CallbackKeeps, LeftBehind
<1>2. ASSUME NEW t \in Topics, NEW b \in BOOLEAN, Take(t, b) PROVE LeftBehind'
  BY <1>2, Zenon DEF Take, Receives, CallbackKeeps, outcome, LeftBehind
<1>3. CASE Enqueue
  <2>1. /\ queue \in Seq(Frames) /\ hand.msg \in Frames /\ hand.msg.n # 0
        /\ queue' = Append(queue, hand.msg) /\ hand' = Free
        /\ UNCHANGED <<pub, lost, late, ended>>
    <3>1. /\ hand # Free /\ queue' = Append(queue, hand.msg) /\ hand' = Free
          /\ UNCHANGED <<pub, lost, late, ended>>
      BY <1>3, Zenon DEF Enqueue, HandKeeps, outcome
    <3>2. queue \in Seq(Frames) BY Zenon DEF Carriers
    <3>3. hand.msg \in Frames BY <3>1, PassedOn, Zenon
    <3>4. hand.msg.n # 0 BY <3>3 DEF Frames
    <3> QED BY <3>1, <3>2, <3>3, <3>4, Zenon
  <2>2. pub.at = "end" => \A i \in DOMAIN queue' : queue'[i].n \in lost \cup late
    BY <2>1, Appended, SMTT(20), Zenon DEF LeftBehind
  <2>3. hand'.msg.n = 0 BY <2>1, FrameNumbers
  <2> QED BY <2>1, <2>2, <2>3, Zenon DEF LeftBehind
<1>4. CASE EnqueueStopped
  <2>1. hand'.msg = hand.msg /\ UNCHANGED <<queue, pub, lost, late, ended>>
    BY <1>4 DEF EnqueueStopped, HandKeeps, outcome, Carriers
  <2> QED BY <2>1 DEF LeftBehind
<1>5. CASE Direct \/ DirectTimesOut
  <2>1. /\ hand'.msg.n = 0 /\ lost \subseteq lost' /\ UNCHANGED <<queue, pub, late, ended>>
    BY <1>5, FrameNumbers, Zenon DEF Direct, DirectTimesOut, Lands, GivesUp, HandKeeps
  <2> QED BY <2>1, Zenon DEF LeftBehind
<1>6. CASE \/ PublisherTakes \/ PublisherStops \/ PublishLands \/ PublishFails
           \/ PublishCancelled
  <2>1. /\ pub'.at \notin {"sweep", "end"} /\ UNCHANGED <<hand, late, ended>>
    BY <1>6 DEF PublisherTakes, PublisherStops, PublishLands, PublishFails, PublishCancelled,
                PublisherKeeps, Carriers
  <2> QED BY <2>1 DEF LeftBehind
<1>7. CASE FlushTakes \/ FlushLands
  <2>1. /\ pub'.at = pub.at /\ pub.at # "end" /\ UNCHANGED <<hand, late, ended>>
    BY <1>7 DEF FlushTakes, FlushLands, Flushing, PublisherKeeps, Carriers
  <2> QED BY <2>1 DEF LeftBehind
<1>8. CASE FlushTimesOut
  <2>1. /\ pub.at \in {"flush", "sweep"} /\ pub'.at = IF pub.at = "flush" THEN "done" ELSE "end"
        /\ lost' = lost \cup {pub.msg.n} \cup Remaining /\ UNCHANGED <<hand, queue, late, ended>>
    BY <1>8, Zenon DEF FlushTimesOut, Flushing, Flushed, GivesUp, PublisherKeeps
  <2>2. CASE pub.at = "flush" BY <2>1, <2>2, Zenon DEF LeftBehind
  <2>3. CASE pub.at = "sweep" BY <2>1, <2>3, Zenon DEF LeftBehind, Remaining
  <2> QED BY <2>1, <2>2, <2>3, Zenon
<1>9. CASE FlushEnds
  <2>1. /\ pub.at \in {"flush", "sweep"} /\ pub'.at = IF pub.at = "flush" THEN "done" ELSE "end"
        /\ queue' = <<>> /\ UNCHANGED <<hand, late, ended>>
    BY <1>9 DEF FlushEnds, Flushing, Flushed, PublisherKeeps
  <2> QED BY <2>1 DEF LeftBehind
<1>10. CASE Sweep
  <2>1. ended /\ pub'.at = "sweep" /\ UNCHANGED <<hand, late, ended>>
    BY <1>10, Zenon DEF Sweep, PublisherKeeps, Carriers
  <2> QED BY <2>1 DEF LeftBehind
<1>11. CASE ManagerDone
  <2>1. hand.msg.n \in late' \cup {0} BY <1>11, Zenon DEF ManagerDone
  <2>2. /\ ~ended /\ ended' /\ pub.at \notin {"sweep", "end"} /\ UNCHANGED <<hand, pub>>
    BY <1>11, Zenon DEF ManagerDone, RunKeeps, LeftBehind
  <2> QED BY <2>1, <2>2, Zenon DEF LeftBehind
<1>12. ASSUME UNCHANGED <<hand, queue, pub, lost, late, ended>> PROVE LeftBehind'
  BY <1>12, Zenon DEF LeftBehind
<1>13. CASE Stop \/ IndexSwaps \/ IntervalPasses \/ FloorPublishes
  BY <1>12, <1>13 DEF Stop, IndexSwaps, IntervalPasses, FloorPublishes, RunKeeps
<1>14. ASSUME NEW t \in Topics, FloorTick(t) PROVE LeftBehind'
  BY <1>12, <1>14 DEF FloorTick, RunKeeps
<1>15. CASE UNCHANGED pipeVars BY <1>12, <1>15 DEF pipeVars, outcome
<1> QED
  BY <1>1, <1>2, <1>3, <1>4, <1>5, <1>6, <1>7, <1>8, <1>9, <1>10, <1>11, <1>13, <1>14, <1>15,
     ZenonT(30)
     DEF PipelineNext, CallbackNext, PublisherNext

\* "Without this flush a graceful restart would silently lose" frames: when Run has
\* returned, by a stop or by the end of the connection, every message its callback
\* received has landed, was dropped on purpose, was given up by a flush or a direct
\* publish that ran out of time, or is the one whose callback outlived the connection
\* (drainQueue, publishDirect and the sweep in Run), for every queue size and however
\* many publishes fail.
THEOREM EndOfRunAccountsForAll == PipelineSpec => []RunAccounts
<1>1. PipelineInit => EndInv
  <2>1. PipelineInit => Carriers BY AckInvInitially DEF AckInv
  <2>2. PipelineInit => Accounted BY DEF PipelineInit, Accounted
  <2>3. PipelineInit => LeftBehind BY DEF PipelineInit, LeftBehind
  <2> QED BY <2>1, <2>2, <2>3 DEF EndInv
<1>2. EndInv /\ [PipelineNext]_pipeVars => EndInv'
  BY CarriersKept, AccountedKept, LeftBehindKept DEF EndInv
<1>3. EndInv => RunAccounts
  <2> SUFFICES ASSUME EndInv, pub.at = "end", NEW n \in 1..received
               PROVE  n \in sent \cup dropped \cup lost \cup late
    BY DEF RunAccounts
  <2>1. Carriers /\ Accounted /\ LeftBehind BY DEF EndInv
  <2>2. pub.msg.n = 0 /\ n # 0 BY <2>1, FrameNumbers DEF Carriers
  <2>3. Kept(n) => n \in lost \cup late BY <2>1, <2>2 DEF Kept, LeftBehind
  <2> QED BY <2>1, <2>3 DEF Accounted
<1> QED BY <1>1, <1>2, <1>3, PTL DEF PipelineSpec
=============================================================================
