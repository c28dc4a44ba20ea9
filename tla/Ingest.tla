------------------------------- MODULE Ingest -------------------------------
(***************************************************************************)
(* From the JetStream EVENTS stream to the durable buffer: the durable     *)
(* pull consumer, the Normalizer's consume loop, the fan-out goroutine and *)
(* the Pump (internal/normalizer, cmd/gateway/main.go,                     *)
(* internal/storeforward/pump.go).                                         *)
(*                                                                         *)
(* A message is its stream sequence.  The buffer is only the number of     *)
(* rows each message was written to; Buffer and Forwarder model the rest.  *)
(***************************************************************************)
EXTENDS SeqWindow, Sequences, FiniteSets

CONSTANTS
    Poison,      \* messages Normalize cannot parse or resolve: both are Term'ed
    Unsequenced, \* messages whose Metadata() fails: Seq 0, never deduplicated
    ChanCap,     \* capacity of the frames and the fanIn channels (256)
    FetchBatch,  \* most messages per Fetch (32)
    MaxDeliver,  \* the consumer's MaxDeliver (3)
    MaxCrashes   \* bound: process crashes and stops

\* Messages are the sequences of SeqWindow; stream sequences start at 1.
Msgs == Seqs

ASSUME MsgsAssumption == 0 \notin Msgs
ASSUME KindsAssumption == Poison \subseteq Msgs /\ Unsequenced \subseteq Msgs
ASSUME ChanCapAssumption == ChanCap \in Nat \ {0}
ASSUME FetchBatchAssumption == FetchBatch \in Nat \ {0}
ASSUME MaxDeliverAssumption == MaxDeliver \in Nat \ {0}
ASSUME MaxCrashesAssumption == MaxCrashes \in Nat

VARIABLES
    js,         \* consumer state of each message
    deliveries, \* times each message was delivered
    hand,       \* messages fetched, not yet handed on
    frames,     \* the Normalizer's output channel
    mid,        \* the frame the fan-out goroutine holds, 0 for none
    fanIn,      \* the channel into the Pump
    stopping,   \* the context is cancelled
    crashes,    \* bound: crashes and stops so far
    written     \* durable: rows written for each message

ingestVars == <<js, deliveries, hand, frames, mid, fanIn, stopping, crashes,
                written, win, added>>

\* "out": delivered, ack deadline running; "ready": to be delivered (again);
\* "dead": MaxDeliver used up without an ack.
JsStates == {"unpublished", "ready", "out", "acked", "termed", "dead"}

IngestTypeOK ==
    /\ js \in [Msgs -> JsStates]
    /\ hand \in Seq(Msgs)
    /\ frames \in Seq(Msgs)
    /\ mid \in Msgs \cup {0}
    /\ fanIn \in Seq(Msgs)
    /\ written \in [Msgs -> Nat]

IngestInit ==
    /\ WindowInit
    /\ js = [m \in Msgs |-> "unpublished"]
    /\ deliveries = [m \in Msgs |-> 0]
    /\ hand = <<>>
    /\ frames = <<>>
    /\ mid = 0
    /\ fanIn = <<>>
    /\ stopping = FALSE
    /\ crashes = 0
    /\ written = [m \in Msgs |-> 0]

SeqOf(m) == IF m \in Unsequenced THEN 0 ELSE m

-----------------------------------------------------------------------------
(* The JetStream consumer: AckExplicit, AckWait, MaxDeliver.               *)

\* A message that is not acked comes back, unless its deliveries are used up.
Returned(m) == IF deliveries[m] < MaxDeliver THEN "ready" ELSE "dead"

Publish(m) ==
    /\ js[m] = "unpublished"
    /\ \A n \in Msgs : n < m => js[n] # "unpublished"
    /\ js' = [js EXCEPT ![m] = "ready"]
    /\ UNCHANGED <<deliveries, hand, frames, mid, fanIn, stopping, crashes,
                   written, win, added>>

\* The ack deadline passes while the message is anywhere in the gateway.
AckWaitExpires(m) ==
    /\ js[m] = "out"
    /\ js' = [js EXCEPT ![m] = Returned(m)]
    /\ UNCHANGED <<deliveries, hand, frames, mid, fanIn, stopping, crashes,
                   written, win, added>>

\* Ack and Term are published without waiting for the server and may be lost;
\* the server honours one that arrives late.
Ack(m) == js' = [js EXCEPT ![m] = "acked"] \/ UNCHANGED js
Term(m) == js' = [js EXCEPT ![m] = "termed"] \/ UNCHANGED js
Nak(m) == js' = [js EXCEPT ![m] = IF @ = "out" THEN Returned(m) ELSE @]

-----------------------------------------------------------------------------
(* Normalizer.consume.                                                     *)

\* Fetch pulls no more than the hand-off channel has room for.
RoomIgnoresBacklog == ChanCap            \* faulty: as if the channel were empty
\* Faulty: waits for room for more than a whole batch.
RoomForMore == IF ChanCap - Len(frames) > FetchBatch THEN FetchBatch ELSE 0
Room == ChanCap - Len(frames)

Fetch(batch) ==
    /\ ~stopping
    /\ hand = <<>>
    /\ Len(batch) <= Room
    /\ \A i, j \in DOMAIN batch : i < j => batch[i] < batch[j]
    /\ \A i \in DOMAIN batch : js[batch[i]] = "ready"
    /\ hand' = batch
    /\ LET got == {batch[i] : i \in DOMAIN batch}
       IN  /\ js' = [m \in Msgs |-> IF m \in got THEN "out" ELSE js[m]]
           /\ deliveries' = [m \in Msgs |->
                               deliveries[m] + (IF m \in got THEN 1 ELSE 0)]
    /\ UNCHANGED <<frames, mid, fanIn, stopping, crashes, written, win, added>>

\* Poison and miss: Term, on to the next message.
Reject ==
    /\ hand # <<>>
    /\ Head(hand) \in Poison
    /\ Term(Head(hand))
    /\ hand' = Tail(hand)
    /\ UNCHANGED <<deliveries, frames, mid, fanIn, stopping, crashes, written,
                   win, added>>

HandOn ==
    /\ hand # <<>>
    /\ Head(hand) \notin Poison
    /\ Len(frames) < ChanCap
    /\ frames' = Append(frames, Head(hand))
    /\ hand' = Tail(hand)
    /\ UNCHANGED <<js, deliveries, mid, fanIn, stopping, crashes, written, win,
                   added>>

\* ctx.Done in the select around the send: Nak and return, with the rest of
\* the fetched batch neither acked nor naked.
NakOnStop ==
    /\ stopping
    /\ hand # <<>>
    /\ Head(hand) \notin Poison
    /\ Nak(Head(hand))
    /\ hand' = <<>>
    /\ UNCHANGED <<deliveries, frames, mid, fanIn, stopping, crashes, written,
                   win, added>>

-----------------------------------------------------------------------------
(* The fan-out goroutine and the Pump.                                     *)

FanOutTake ==
    /\ mid = 0
    /\ frames # <<>>
    /\ mid' = Head(frames)
    /\ frames' = Tail(frames)
    /\ UNCHANGED <<js, deliveries, hand, fanIn, stopping, crashes, written, win,
                   added>>

FanOutPut ==
    /\ mid # 0
    /\ Len(fanIn) < ChanCap
    /\ fanIn' = Append(fanIn, mid)
    /\ mid' = 0
    /\ UNCHANGED <<js, deliveries, hand, frames, stopping, crashes, written,
                   win, added>>

IsDuplicateNever(m) == FALSE  \* faulty: does not ask the window
IsDuplicate(m) == SeqOf(m) # 0 /\ Contains(win, SeqOf(m))

PumpDuplicate ==
    /\ fanIn # <<>>
    /\ IsDuplicate(Head(fanIn))
    /\ Ack(Head(fanIn))
    /\ fanIn' = Tail(fanIn)
    /\ UNCHANGED <<deliveries, hand, frames, mid, stopping, crashes, written,
                   win, added>>

\* Faulty: acks whatever became of the write.
PumpWriteFailsAcks ==
    /\ fanIn # <<>>
    /\ ~IsDuplicate(Head(fanIn))
    /\ Ack(Head(fanIn))
    /\ fanIn' = Tail(fanIn)
    /\ UNCHANGED <<deliveries, hand, frames, mid, stopping, crashes, written,
                   win, added>>

PumpWriteFails ==
    /\ fanIn # <<>>
    /\ ~IsDuplicate(Head(fanIn))
    /\ Nak(Head(fanIn))
    /\ fanIn' = Tail(fanIn)
    /\ UNCHANGED <<deliveries, hand, frames, mid, stopping, crashes, written,
                   win, added>>

\* Write, remember the sequence, ack, in this order; the process can crash
\* between the commit and the ack.
PumpWrites ==
    /\ fanIn # <<>>
    /\ LET m == Head(fanIn)
       IN  /\ ~IsDuplicate(m)
           /\ written' = [written EXCEPT ![m] = @ + 1]
           /\ IF SeqOf(m) # 0 THEN Insert(m) ELSE UNCHANGED <<win, added>>
           /\ Ack(m)
    /\ fanIn' = Tail(fanIn)
    /\ UNCHANGED <<deliveries, hand, frames, mid, stopping, crashes>>

-----------------------------------------------------------------------------

Stop ==
    /\ ~stopping
    /\ crashes < MaxCrashes
    /\ crashes' = crashes + 1
    /\ stopping' = TRUE
    /\ UNCHANGED <<js, deliveries, hand, frames, mid, fanIn, written, win, added>>

\* The process ends: whatever its channels and its window held is gone.
Restarted ==
    /\ hand' = <<>>
    /\ frames' = <<>>
    /\ mid' = 0
    /\ fanIn' = <<>>
    /\ stopping' = FALSE
    /\ win' = NewWindow
    /\ added' = {}
    /\ UNCHANGED <<js, deliveries, written>>

Exit == stopping /\ Restarted /\ UNCHANGED crashes

Crash ==
    /\ crashes < MaxCrashes
    /\ crashes' = crashes + 1
    /\ Restarted

Normalizer ==
    \/ \E k \in 1..FetchBatch : \E batch \in [1..k -> Msgs] : Fetch(batch)
    \/ Reject \/ HandOn \/ NakOnStop

Pump == PumpDuplicate \/ PumpWriteFails \/ PumpWrites

IngestNext ==
    \/ \E m \in Msgs : Publish(m) \/ AckWaitExpires(m)
    \/ Normalizer \/ FanOutTake \/ FanOutPut \/ Pump
    \/ Stop \/ Exit \/ Crash

IngestSpec == IngestInit /\ [][IngestNext]_ingestVars

\* Every goroutine that can step does; the server's ack deadline always runs.
IngestFairness ==
    /\ WF_ingestVars(Normalizer)
    /\ WF_ingestVars(FanOutTake)
    /\ WF_ingestVars(FanOutPut)
    /\ WF_ingestVars(Pump)
    /\ WF_ingestVars(Exit)
    /\ \A m \in Msgs : WF_ingestVars(AckWaitExpires(m))

IngestFairSpec == IngestSpec /\ IngestFairness

-----------------------------------------------------------------------------
(* Properties.                                                             *)

\* A message is acked only after a durable write (#28): not by the duplicate
\* branch for a message this process did not write, not after a restart.
AckedMeansWritten == \A m \in Msgs : js[m] = "acked" => written[m] > 0

\* "The write is idempotent per source message" (#186): within one process a
\* message is written a second time only once it fell out of the window.
WrittenOnceInWindow ==
    [][\A m \in Msgs :
         written'[m] > written[m] /\ m \in added => m < win.base]_ingestVars

\* "A fetched message never sits in hand waiting on a full channel" (#186).
HandNeverBlocks == Len(hand) + Len(frames) <= ChanCap

\* Every published message is eventually written, or terminated as poison, or
\* given up by the consumer after MaxDeliver deliveries.
EventuallySettled ==
    \A m \in Msgs :
        (js[m] = "ready") ~> (written[m] > 0 \/ js[m] \in {"termed", "dead"})
=============================================================================
