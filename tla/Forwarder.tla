----------------------------- MODULE Forwarder ------------------------------
(***************************************************************************)
(* The uplink: Ingress.Run's reconnect loop, the Forwarder's sessions      *)
(* (internal/uplink) and ApplyAck (internal/storeforward/ack.go), draining *)
(* the Buffer to Building OS while the Pump keeps writing to it.           *)
(*                                                                         *)
(* A frame is named by its sequence number.  The slices of the code are in *)
(* ascending sequence order, so a set of sequence numbers stands for a     *)
(* slice.  What Building OS does with the frames of a stream is resolved   *)
(* when the stream ends: an acked stream returns the number of frames it   *)
(* accepted; a stream that breaks may have had any of them accepted.       *)
(***************************************************************************)
EXTENDS Buffer

CONSTANTS
    CheckpointSize,  \* Config.CheckpointSize: frames per ack round-trip
    ReadLimit,       \* rows per ReadBatch (32 in the code)
    Faults,          \* the SQLite failures the environment may inject
    MaxIncidents     \* bound: SQLite failures, crashes and stops

FaultKinds == {"advance", "bufferRead", "cursorRead"}

ASSUME CheckpointSizeAssumption == CheckpointSize \in Nat \ {0}
ASSUME ReadLimitAssumption == ReadLimit \in Nat \ {0}
ASSUME FaultsAssumption == Faults \subseteq FaultKinds
ASSUME MaxIncidentsAssumption == MaxIncidents \in Nat

VARIABLES
    pc,         \* where the uplink goroutine is
    ret,        \* where a checkpoint returns to
    flush,      \* the session is the shutdown flush (DrainOnce)
    stopping,   \* the run context is cancelled
    sessCursor, \* forwardSession.cursor
    batch,      \* forwardSession.batch: sent, not yet checkpointed
    chunk,      \* rest of the frames ReadBatch returned to drain
    drift,      \* in-memory counter driftTotal
    incidents,  \* bound: incidents so far
    offered,    \* history: frames some stream carried
    delivered,  \* history: frames Building OS accepted
    dropped,    \* history: rows evicted while beyond the cursor
    lostAtBoot  \* history: frames already lost when the process started

sessionVars == <<pc, ret, flush, stopping, sessCursor, batch, chunk>>
historyVars == <<offered, delivered, dropped, lostAtBoot>>
vars == <<bufferVars, sessionVars, drift, incidents, historyVars>>

\* "down": no session (connecting or backing off); "select": in Run's select;
\* "read", "send": in drain; "ckpt": waiting for CloseAndRecv; "advance": acked,
\* cursor not yet persisted; "exit": the flush is over.
Control == {"down", "select", "read", "send", "ckpt", "advance", "exit"}

Frames == 1..lastSeq

TypeOK ==
    /\ BufferTypeOK
    /\ pc \in Control
    /\ ret \in {"select", "send", "exit"}
    /\ flush \in BOOLEAN
    /\ stopping \in BOOLEAN
    /\ sessCursor \in 0..lastSeq
    /\ batch \subseteq Frames
    /\ chunk \subseteq Frames
    /\ drift \in Nat
    /\ incidents \in 0..MaxIncidents
    /\ offered \subseteq Frames
    /\ delivered \subseteq offered
    /\ dropped \subseteq Frames
    /\ lostAtBoot \subseteq Frames

Init ==
    /\ Open
    /\ pc = "down"
    /\ ret = "select"
    /\ flush = FALSE
    /\ stopping = FALSE
    /\ sessCursor = 0
    /\ batch = {}
    /\ chunk = {}
    /\ drift = 0
    /\ incidents = 0
    /\ offered = {}
    /\ delivered = {}
    /\ dropped = {}
    /\ lostAtBoot = {}

\* Frames Building OS does not have and the gateway will not send again.
Lost == Frames \ (delivered \cup Backlog \cup batch)

-----------------------------------------------------------------------------
(* Steps of the uplink goroutine.                                          *)

Incident(kind) ==
    /\ kind \in Faults
    /\ incidents < MaxIncidents
    /\ incidents' = incidents + 1

\* A session ends with an error: Run returns it and Ingress reconnects; an
\* error in DrainOnce ends the flush.
SessionFails ==
    /\ pc' = IF flush THEN "exit" ELSE "down"
    /\ batch' = {}
    /\ chunk' = {}

\* Frames on a stream whose outcome is open: none once the ack is in.
OnStream == IF pc = "advance" THEN {} ELSE batch

\* Building OS accepted some frames of a stream that broke.
StreamBreaks ==
    \E A \in SUBSET OnStream : delivered' = delivered \cup A

\* newSession, by Run while the context lives and by DrainOnce afterwards.
OpenSession(from) ==
    /\ pc = "down"
    /\ sessCursor' = from
    /\ flush' = stopping
    /\ pc' = IF stopping THEN "read" ELSE "select"
    /\ UNCHANGED <<bufferVars, ret, stopping, batch, chunk, drift, historyVars>>

NewSession == OpenSession(cursor) /\ UNCHANGED incidents

\* Buffer.Cursor logs a read error and returns 0.
NewSessionCursorUnreadable == OpenSession(0) /\ Incident("cursorRead")

\* Run returns once it sees the cancelled context; the batch is left un-acked.
RunCancelled ==
    /\ pc = "select"
    /\ stopping
    /\ SessionFails
    /\ StreamBreaks
    /\ UNCHANGED <<bufferVars, ret, flush, stopping, sessCursor, drift,
                   incidents, offered, dropped, lostAtBoot>>

\* Faulty: the ticker, too, waits for a full batch.
TickWhenFull ==
    /\ pc = "select"
    /\ Cardinality(batch) >= CheckpointSize
    /\ pc' = "ckpt"
    /\ ret' = "select"
    /\ UNCHANGED <<bufferVars, flush, stopping, sessCursor, batch, chunk, drift,
                   incidents, historyVars>>

\* The checkpoint-age ticker; checkpoint is a no-op on an empty batch.
Tick ==
    /\ pc = "select"
    /\ batch # {}
    /\ pc' = "ckpt"
    /\ ret' = "select"
    /\ UNCHANGED <<bufferVars, flush, stopping, sessCursor, batch, chunk, drift,
                   incidents, historyVars>>

StartDrain ==
    /\ pc = "select"
    /\ pc' = "read"
    /\ UNCHANGED <<ret, flush, stopping, sessCursor, batch, chunk, drift,
                   incidents, historyVars>>

DrainOnNotify ==
    /\ notify
    /\ notify' = FALSE
    /\ StartDrain
    /\ UNCHANGED <<rows, lastSeq, cursor, evictedSent, lostUnsent>>

DrainOnBackstop == StartDrain /\ UNCHANGED bufferVars

\* drain returns: to the select loop, or to DrainOnce's final checkpoint.
DrainReturns ==
    /\ pc' = IF ~flush THEN "select" ELSE IF batch = {} THEN "exit" ELSE "ckpt"
    /\ ret' = IF flush THEN "exit" ELSE ret
    /\ UNCHANGED chunk

DrainRead ==
    /\ pc = "read"
    /\ LET frames == ReadBatch(sessCursor, ReadLimit)
       IN  \/ frames = {} /\ DrainReturns
           \/ frames # {} /\ pc' = "send" /\ chunk' = frames /\ UNCHANGED ret
    /\ UNCHANGED <<bufferVars, flush, stopping, sessCursor, batch, drift,
                   incidents, historyVars>>

\* A read error is logged and drain returns nil.
DrainReadFails ==
    /\ pc = "read"
    /\ Incident("bufferRead")
    /\ DrainReturns
    /\ UNCHANGED <<bufferVars, flush, stopping, sessCursor, batch, drift,
                   historyVars>>

\* drain's loop takes the next frame of the chunk, or reads the next chunk.
NextFrame(rest) == IF rest = {} THEN "read" ELSE "send"

BatchFullLate(b) == Cardinality(b) > CheckpointSize  \* faulty: off by one
BatchFull(b) == Cardinality(b) >= CheckpointSize

Send ==
    /\ pc = "send"
    /\ \E s \in chunk :
        /\ \A t \in chunk : s <= t
        /\ chunk' = chunk \ {s}
        /\ batch' = batch \cup {s}
        /\ sessCursor' = s
        /\ offered' = offered \cup {s}
    /\ IF BatchFull(batch')
       THEN pc' = "ckpt" /\ ret' = "send"
       ELSE pc' = NextFrame(chunk') /\ UNCHANGED ret
    /\ UNCHANGED <<bufferVars, flush, stopping, drift, incidents, delivered,
                   dropped, lostAtBoot>>

SendFails ==
    /\ pc = "send"
    /\ SessionFails
    /\ StreamBreaks
    /\ UNCHANGED <<bufferVars, ret, flush, stopping, sessCursor, drift,
                   incidents, offered, dropped, lostAtBoot>>

\* ApplyAck: the new cursor, and the frames reported as drift, the tail of the
\* batch that the accepted count leaves over.
NewCursor == CHOOSE s \in batch : \A t \in batch : t <= s
DriftedShort(accepted) == batch \ Oldest(batch, accepted + 1)  \* faulty
Drifted(accepted) == batch \ Oldest(batch, accepted)

\* checkpoint, up to the cursor kept in the session.  Building OS returns how
\* many frames it accepted, not which.
CheckpointAcked ==
    /\ pc = "ckpt"
    /\ \E A \in SUBSET batch :
        /\ delivered' = delivered \cup A
        /\ drift' = drift + Cardinality(Drifted(Cardinality(A)))
    /\ sessCursor' = NewCursor
    /\ pc' = "advance"
    /\ UNCHANGED <<bufferVars, ret, flush, stopping, batch, chunk, incidents,
                   offered, dropped, lostAtBoot>>

CheckpointFails ==
    /\ pc = "ckpt"
    /\ SessionFails
    /\ StreamBreaks
    /\ UNCHANGED <<bufferVars, ret, flush, stopping, sessCursor, drift,
                   incidents, offered, dropped, lostAtBoot>>

\* checkpoint's last steps: persist the cursor, forget the batch.
CheckpointAdvances ==
    /\ pc = "advance"
    /\ Advance(sessCursor)
    /\ batch' = {}
    /\ pc' = IF ret = "send" THEN NextFrame(chunk) ELSE ret
    /\ UNCHANGED <<ret, flush, stopping, sessCursor, chunk, drift, incidents,
                   historyVars>>

CheckpointAdvanceFails ==
    /\ pc = "advance"
    /\ Incident("advance")
    /\ SessionFails
    /\ UNCHANGED <<bufferVars, ret, flush, stopping, sessCursor, drift,
                   historyVars>>

-----------------------------------------------------------------------------
(* The Pump's writes, the shutdown signal, and the end of the process.     *)

WriteFrame ==
    /\ Write
    /\ dropped' = dropped \cup {s \in Victims : s > cursor}
    /\ UNCHANGED <<sessionVars, drift, incidents, offered, delivered,
                   lostAtBoot>>

Stop ==
    /\ ~stopping
    /\ incidents < MaxIncidents
    /\ incidents' = incidents + 1
    /\ stopping' = TRUE
    /\ UNCHANGED <<bufferVars, pc, ret, flush, sessCursor, batch, chunk, drift,
                   historyVars>>

\* The next process starts on the same database file.
Boot ==
    /\ Reopen
    /\ pc' = "down"
    /\ ret' = "select"
    /\ flush' = FALSE
    /\ stopping' = FALSE
    /\ sessCursor' = 0
    /\ batch' = {}
    /\ chunk' = {}
    /\ drift' = 0
    /\ lostAtBoot' = Lost'
    /\ UNCHANGED <<offered, dropped>>

Restart ==
    /\ pc = "exit"
    /\ UNCHANGED <<incidents, delivered>>
    /\ Boot

Crash ==
    /\ incidents < MaxIncidents
    /\ incidents' = incidents + 1
    /\ StreamBreaks
    /\ Boot

Uplink ==
    \/ NewSession \/ NewSessionCursorUnreadable \/ RunCancelled \/ Tick
    \/ DrainOnNotify \/ DrainOnBackstop \/ DrainRead \/ DrainReadFails
    \/ Send \/ SendFails
    \/ CheckpointAcked \/ CheckpointFails
    \/ CheckpointAdvances \/ CheckpointAdvanceFails

Next == Uplink \/ WriteFrame \/ Stop \/ Restart \/ Crash

Spec == Init /\ [][Next]_vars

\* The scheduling the code relies on: a goroutine that can step does; a ready
\* ticker keeps its tick until select takes it, and select picks among ready
\* cases at random, so a recurring case is taken.
Fairness ==
    /\ WF_vars(NewSession)
    /\ WF_vars(DrainRead)
    /\ WF_vars(Send)
    /\ WF_vars(CheckpointAcked)
    /\ WF_vars(CheckpointAdvances)
    /\ WF_vars(Restart)
    /\ SF_vars(RunCancelled)
    /\ SF_vars(Tick)
    /\ SF_vars(DrainOnBackstop)

\* The assumption on the environment: the link to Building OS is up for good
\* from some time on.
LinkStabilises == <>[][~SendFails /\ ~CheckpointFails]_vars

FairSpec == Spec /\ Fairness /\ LinkStabilises

-----------------------------------------------------------------------------
(* Properties.                                                             *)

\* The persisted cursor never passes a frame that no stream carried and that
\* eviction did not count as lost: whatever the order of writes, evictions,
\* failed checkpoints and restarts, Advance skips nothing (checkpoint, drain).
CursorSkipsNothing == \A s \in 1..cursor : s \in offered \cup dropped

\* "The bounded duplicate window of ADR-0002": after any failure, the rows the
\* next session sends a second time are at most one checkpoint batch.
ReplayBounded == Cardinality(Backlog \cap offered) <= CheckpointSize

\* A frame that neither is at Building OS nor will be sent again is counted, as
\* an un-acked eviction or as drift, by the process that lost it (Write's split
\* of the victims, ApplyAck's drifts).
NoUncountedLoss ==
    Cardinality(Lost \ lostAtBoot) <= lostUnsent + drift

\* Write counts the victims on each side of the cursor from two row counts
\* only; the counts are exactly the rows it deletes on each side.
EvictionSplitExact ==
    [][lastSeq' > lastSeq =>
        LET gone == (rows \cup {lastSeq'}) \ rows'
        IN  /\ evictedSent' - evictedSent = Cardinality({s \in gone : s <= cursor})
            /\ lostUnsent' - lostUnsent = Cardinality({s \in gone : s > cursor})]_vars

\* "seq only increases and the cursor only advances": no checkpoint moves the
\* persisted cursor back (Advance is INSERT OR REPLACE, without a comparison).
CursorOnlyAdvances == [][cursor' >= cursor]_vars

\* Every stored frame is eventually acked or evicted: nothing stays in the ring
\* un-sent while the uplink is scheduled and the link keeps recovering.
EveryRowSettles ==
    \A s \in 1..MaxSeq : (s \in rows) ~> (s <= cursor \/ s \notin rows)

\* The uplink over the ring implements the best-effort delivery of ADR-0002: a
\* frame leaves the backlog only by being sent or by drop-oldest at capacity.
D == INSTANCE Delivery WITH accepted <- lastSeq, backlog <- Backlog
ImplementsDelivery == D!DeliverySpec
=============================================================================
