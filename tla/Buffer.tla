------------------------------- MODULE Buffer -------------------------------
(***************************************************************************)
(* The store-and-forward buffer (internal/storeforward/buffer.go): a       *)
(* bounded SQLite ring of telemetry frames with a persisted cursor.        *)
(*                                                                         *)
(* A row is named by its AUTOINCREMENT sequence number; its contents are   *)
(* left to the modules that write it.  One connection serialises every     *)
(* statement (SetMaxOpenConns(1)), so each operation is one atomic step.   *)
(***************************************************************************)
EXTENDS Integers, FiniteSets

CONSTANTS
    Capacity,   \* rows the ring retains
    MaxSeq      \* bound: frames ever written

\* Open rejects a capacity that is not positive.
ASSUME CapacityAssumption == Capacity \in Nat \ {0}
ASSUME MaxSeqAssumption == MaxSeq \in Nat

VARIABLES
    rows,         \* table frames: the sequence numbers of the stored rows
    lastSeq,      \* sqlite_sequence: the highest sequence number ever assigned
    cursor,       \* table cursor: the last acked sequence number, 0 when absent
    evictedSent,  \* in-memory counter: acked rows evicted
    lostUnsent,   \* in-memory counter: un-acked rows evicted
    notify        \* the one-slot write-notification channel holds a signal

bufferVars == <<rows, lastSeq, cursor, evictedSent, lostUnsent, notify>>

SmallerOf(a, b) == IF a <= b THEN a ELSE b

\* SELECT ... ORDER BY seq ASC LIMIT n
Oldest(S, n) == {s \in S : Cardinality({t \in S : t < s}) < n}

BufferTypeOK ==
    /\ lastSeq \in 0..MaxSeq
    /\ rows \subseteq 1..lastSeq
    /\ cursor \in 0..lastSeq
    /\ evictedSent \in Nat
    /\ lostUnsent \in Nat
    /\ notify \in BOOLEAN

Open ==
    /\ rows = {}
    /\ lastSeq = 0
    /\ cursor = 0
    /\ evictedSent = 0
    /\ lostUnsent = 0
    /\ notify = FALSE

\* The rows as the transaction of Write sees them after its INSERT, and the
\* oldest ones, beyond capacity, that it deletes.
Inserted == rows \cup {lastSeq + 1}
ExcessEager == Cardinality(Inserted) - Capacity + 1  \* faulty: evicts one too many
Excess == Cardinality(Inserted) - Capacity
Victims == Oldest(Inserted, Excess)

\* SELECT COUNT(*) ... WHERE seq <= cursor
AckedRows == {s \in Inserted : s <= cursor}

\* Write: insert, count the victims on each side of the cursor, delete them,
\* commit; then the counters and the coalesced notification.
Write ==
    LET acked == Cardinality(AckedRows)
        sentVictims == IF Excess > 0 THEN SmallerOf(Excess, acked) ELSE 0
        lostVictims == IF Excess > 0 THEN Excess - sentVictims ELSE 0
    IN  /\ lastSeq < MaxSeq
        /\ lastSeq' = lastSeq + 1
        /\ rows' = Inserted \ Victims
        /\ evictedSent' = evictedSent + sentVictims
        /\ lostUnsent' = lostUnsent + lostVictims
        /\ notify' = TRUE
        /\ UNCHANGED cursor

\* Faulty: an off-by-one in WHERE seq > after.
ReadBatchSkips(after, limit) == Oldest({s \in rows : s > after + 1}, limit)

\* ReadBatch: up to limit rows beyond after, oldest first.
ReadBatch(after, limit) == Oldest({s \in rows : s > after}, limit)

\* Depth: the un-forwarded backlog.
Backlog == {s \in rows : s > cursor}

Advance(seq) ==
    /\ cursor' = seq
    /\ UNCHANGED <<rows, lastSeq, evictedSent, lostUnsent, notify>>

\* Reopening after the process ended: the tables persist, the counters and the
\* channel start afresh.
Reopen ==
    /\ evictedSent' = 0
    /\ lostUnsent' = 0
    /\ notify' = FALSE
    /\ UNCHANGED <<rows, lastSeq, cursor>>
=============================================================================
