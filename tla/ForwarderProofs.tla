-------------------------- MODULE ForwarderProofs ---------------------------
(***************************************************************************)
(* The safety of the ring and of the uplink for every capacity, checkpoint *)
(* size and read limit: what the cursor passes, what is counted as lost,   *)
(* what is sent twice, and the abstract delivery they implement.           *)
(***************************************************************************)
EXTENDS Forwarder, FiniteSetTheorems, TLAPS

-----------------------------------------------------------------------------
(* Intervals of rows: what ORDER BY seq ASC LIMIT n selects from them.     *)

LEMMA IntervalCard ==
    ASSUME NEW a \in Int, NEW b \in Int
    PROVE  /\ IsFiniteSet(a..b)
           /\ Cardinality(a..b) = IF a <= b THEN b - a + 1 ELSE 0
<1>1. IsFiniteSet(a..b) /\ Cardinality(a..b) = IF a > b THEN 0 ELSE b - a + 1
  BY FS_Interval
<1> QED
  BY <1>1

LEMMA OldestOfInterval ==
    ASSUME NEW a \in Int, NEW b \in Int, NEW n \in Int
    PROVE  Oldest(a..b, n) = a..SmallerOf(b, a + n - 1)
<1>1. ASSUME NEW s \in a..b
      PROVE  Cardinality({t \in a..b : t < s}) = s - a
  <2>1. {t \in a..b : t < s} = a..(s - 1)
    OBVIOUS
  <2>2. Cardinality(a..(s - 1)) = IF a <= s - 1 THEN (s - 1) - a + 1 ELSE 0
    BY IntervalCard
  <2>3. Cardinality(a..(s - 1)) = s - a
    BY <2>2
  <2> QED
    BY <2>1, <2>3, Zenon
<1>2. ASSUME NEW s
      PROVE  s \in Oldest(a..b, n) <=> s \in a..b /\ s - a < n
  BY <1>1 DEF Oldest
<1>3. ASSUME NEW s
      PROVE  s \in a..SmallerOf(b, a + n - 1) <=> s \in a..b /\ s - a < n
  BY DEF SmallerOf
<1> QED
  BY <1>2, <1>3, Zenon

\* A selection of the oldest is closed under older members.
LEMMA OldestIsPrefix ==
    ASSUME NEW S \in SUBSET Nat, IsFiniteSet(S), NEW n \in Int,
           NEW s \in Oldest(S, n), NEW t \in S, t < s
    PROVE  t \in Oldest(S, n)
<1> DEFINE T == {u \in S : u < t}
           U == {u \in S : u < s}
<1>1. s \in S /\ Cardinality(U) < n
  BY DEF Oldest
<1>2. T \subseteq U /\ U \subseteq S
  <2>1. \A u \in S : u < t => u < s
    BY <1>1
  <2> QED
    BY <2>1, Zenon
<1>3. IsFiniteSet(U) /\ IsFiniteSet(T)
  BY <1>2, FS_Subset
<1>4. Cardinality(T) <= Cardinality(U)
  BY <1>2, <1>3, FS_Subset
<1>5. Cardinality(T) \in Nat /\ Cardinality(U) \in Nat
  BY <1>3, FS_CardinalityType
<1>6. Cardinality(T) < n
  BY <1>1, <1>4, <1>5
<1> QED
  BY <1>6 DEF Oldest

-----------------------------------------------------------------------------
(* The inductive invariant.                                                *)

\* The rows are the most recent frames, without a hole, at most Capacity.
RingInv ==
    \E lo \in 1..(lastSeq + 1) : rows = lo..lastSeq /\ lastSeq - lo < Capacity

\* What the session holds accounts for every frame up to where it has read: a
\* frame is in the ring, was carried or was counted lost; the session's cursor
\* and the gap before each frame of the chunk hide none.
Accounted ==
    /\ \A s \in Frames : s \in rows \cup offered \cup dropped
    /\ \A s \in 1..cursor : s \in offered \cup dropped
    /\ \A s \in 1..sessCursor : s \in offered \cup dropped
    /\ \A c \in chunk, s \in Frames :
        sessCursor < s /\ s < c => s \in chunk \cup offered \cup dropped
    /\ dropped \cap rows = {}

\* The batch ends at the session's cursor, the chunk lies beyond it.
SessionShape ==
    /\ batch \subseteq offered
    /\ batch # {} => sessCursor \in batch
    /\ \A b \in batch : b <= sessCursor
    /\ \A c \in chunk : c > sessCursor
    /\ pc \in {"ckpt", "advance"} => batch # {}
    /\ pc = "down" => batch = {} /\ chunk = {}

ForwarderInv == TypeOK /\ RingInv /\ Accounted /\ SessionShape

-----------------------------------------------------------------------------
(* What Write does to the ring.                                            *)

LEMMA WriteOnRing ==
    ASSUME BufferTypeOK, RingInv, Write
    PROVE  /\ RingInv'
           /\ BufferTypeOK'
           /\ Inserted \ Victims = rows'
           /\ Victims \subseteq Inserted
           /\ \A v \in Victims, k \in rows' : v < k
           /\ Victims # {} => rows' = (lastSeq' - Capacity + 1)..lastSeq'
           /\ evictedSent' - evictedSent = Cardinality({s \in Victims : s <= cursor})
           /\ lostUnsent' - lostUnsent = Cardinality({s \in Victims : s > cursor})
<1> USE CapacityAssumption, MaxSeqAssumption DEF BufferTypeOK
<1>1. PICK lo \in 1..(lastSeq + 1) : rows = lo..lastSeq /\ lastSeq - lo < Capacity
  BY DEF RingInv
<1>2. lastSeq \in Nat /\ lo \in Nat \ {0} /\ cursor \in Nat
      /\ lo <= lastSeq + 1 /\ cursor <= lastSeq
  BY <1>1
<1>3. Inserted = lo..(lastSeq + 1)
  BY <1>1, <1>2 DEF Inserted
<1>4. Excess = lastSeq + 2 - lo - Capacity
  <2>1. Cardinality(lo..(lastSeq + 1)) = lastSeq + 2 - lo
    BY <1>2, IntervalCard
  <2> QED
    BY <2>1, <1>3, <1>2 DEF Excess
<1>5. Excess \in Int /\ Excess <= 1
  BY <1>4, <1>2, <1>1
<1>6. Victims = lo..SmallerOf(lastSeq + 1, lo + Excess - 1)
  BY <1>3, <1>2, <1>5, OldestOfInterval DEF Victims
<1>7. Victims = IF Excess = 1 THEN {lo} ELSE {}
  <2>1. CASE Excess = 1
    <3>1. SmallerOf(lastSeq + 1, lo + Excess - 1) = lo
      BY <2>1, <1>2 DEF SmallerOf
    <3>2. lo..lo = {lo}
      BY <1>2
    <3>3. Victims = {lo}
      BY <3>1, <3>2, <1>6, Zenon
    <3> QED
      BY <3>3, <2>1, Zenon
  <2>2. CASE Excess <= 0
    <3>1. SmallerOf(lastSeq + 1, lo + Excess - 1) < lo
          /\ SmallerOf(lastSeq + 1, lo + Excess - 1) \in Int
      BY <2>2, <1>2, <1>5 DEF SmallerOf
    <3>2. lo..SmallerOf(lastSeq + 1, lo + Excess - 1) = {}
      BY <3>1, <1>2
    <3>3. Victims = {}
      BY <3>2, <1>6, Zenon
    <3>4. Excess # 1
      BY <2>2
    <3> QED
      BY <3>3, <3>4, Zenon
  <2> QED
    BY <2>1, <2>2, <1>5
<1>8. rows' = (IF Excess = 1 THEN lo + 1 ELSE lo)..(lastSeq + 1)
  BY <1>3, <1>7, <1>2 DEF Write
<1>9. lastSeq' = lastSeq + 1 /\ lastSeq < MaxSeq /\ cursor' = cursor
      /\ notify' = TRUE /\ rows' = Inserted \ Victims
  BY DEF Write
<1>10. RingInv'
  <2> DEFINE hi == IF Excess = 1 THEN lo + 1 ELSE lo
  <2>1. hi \in 1..(lastSeq' + 1) /\ lastSeq' - hi < Capacity
    BY <1>9, <1>2, <1>4, <1>5
  <2>2. rows' = hi..lastSeq'
    BY <1>8, <1>9
  <2> QED
    BY <2>1, <2>2 DEF RingInv
<1> DEFINE sent == IF Excess = 1 /\ lo <= cursor THEN 1 ELSE 0
           lost == IF Excess = 1 /\ lo > cursor THEN 1 ELSE 0
<1>11. evictedSent' = evictedSent + sent /\ lostUnsent' = lostUnsent + lost
  <2> DEFINE acked == Cardinality(AckedRows)
  <2>1. AckedRows = lo..cursor
    BY <1>3, <1>2 DEF AckedRows
  <2>2. Cardinality(lo..cursor) = IF lo <= cursor THEN cursor - lo + 1 ELSE 0
    BY <1>2, IntervalCard
  <2>3. acked = IF lo <= cursor THEN cursor - lo + 1 ELSE 0
    BY <2>1, <2>2, Zenon
  <2> DEFINE sentVictims == IF Excess > 0 THEN SmallerOf(Excess, acked) ELSE 0
             lostVictims == IF Excess > 0 THEN Excess - sentVictims ELSE 0
  <2>4. evictedSent' = evictedSent + sentVictims
        /\ lostUnsent' = lostUnsent + lostVictims
    BY DEF Write
  <2> HIDE DEF acked
  <2>5. sentVictims = sent
    BY <2>3, <1>2, <1>5 DEF SmallerOf
  <2>6. lostVictims = lost
    BY <2>5, <1>2, <1>5
  <2> HIDE DEF sentVictims, lostVictims, sent, lost
  <2> QED
    BY <2>4, <2>5, <2>6
<1>12. Cardinality({s \in Victims : s <= cursor}) = sent
  <2>1. {s \in Victims : s <= cursor} =
          IF Excess = 1 /\ lo <= cursor THEN {lo} ELSE {}
    BY <1>7, <1>2
  <2>2. Cardinality({lo}) = 1 /\ Cardinality({}) = 0
    BY FS_Singleton, FS_EmptySet, Zenon
  <2> QED
    BY <2>1, <2>2, Zenon
<1>13. Cardinality({s \in Victims : s > cursor}) = lost
  <2>1. {s \in Victims : s > cursor} =
          IF Excess = 1 /\ lo > cursor THEN {lo} ELSE {}
    BY <1>7, <1>2
  <2>2. Cardinality({lo}) = 1 /\ Cardinality({}) = 0
    BY FS_Singleton, FS_EmptySet, Zenon
  <2> QED
    BY <2>1, <2>2, Zenon
<1>14. BufferTypeOK'
  BY <1>2, <1>8, <1>9, <1>11
<1>15. Victims \subseteq Inserted /\ \A v \in Victims, k \in rows' : v < k
  BY <1>7, <1>8, <1>3, <1>2
<1>16. Victims # {} => rows' = (lastSeq' - Capacity + 1)..lastSeq'
  <2>1. ASSUME Excess = 1 PROVE rows' = (lastSeq' - Capacity + 1)..lastSeq'
    <3>1. rows' = (lo + 1)..(lastSeq + 1)
      BY <1>8, <2>1
    <3>2. lo + 1 = lastSeq' - Capacity + 1
      BY <2>1, <1>4, <1>9, <1>2
    <3> QED
      BY <3>1, <3>2, <1>9
  <2> QED
    BY <2>1, <1>7
<1>17. /\ evictedSent' - evictedSent = Cardinality({s \in Victims : s <= cursor})
       /\ lostUnsent' - lostUnsent = Cardinality({s \in Victims : s > cursor})
  <2>1. evictedSent' - evictedSent = sent /\ lostUnsent' - lostUnsent = lost
    BY <1>11
  <2> HIDE DEF sent, lost
  <2> QED
    BY <2>1, <1>12, <1>13, Zenon
<1> QED
  BY <1>9, <1>10, <1>14, <1>15, <1>16, <1>17
-----------------------------------------------------------------------------
(* The invariant holds initially and every action preserves it.            *)

LEMMA InvInitially == Init => ForwarderInv
<1> SUFFICES ASSUME Init PROVE ForwarderInv
  OBVIOUS
<1> USE CapacityAssumption, MaxSeqAssumption, MaxIncidentsAssumption DEF Init, Open
<1>1. TypeOK
  <2>1. notify \in BOOLEAN /\ flush \in BOOLEAN /\ stopping \in BOOLEAN
    BY Zenon
  <2>2. pc \in Control /\ ret \in {"select", "send", "exit"}
    BY DEF Control
  <2>3. lastSeq \in 0..MaxSeq /\ cursor \in 0..lastSeq /\ sessCursor \in 0..lastSeq
        /\ evictedSent \in Nat /\ lostUnsent \in Nat /\ drift \in Nat
        /\ incidents \in 0..MaxIncidents
    OBVIOUS
  <2> QED
    BY <2>1, <2>2, <2>3 DEF TypeOK, BufferTypeOK, Frames
<1>2. RingInv
  <2>1. 1 \in 1..(lastSeq + 1) /\ rows = 1..lastSeq /\ lastSeq - 1 < Capacity
    OBVIOUS
  <2> QED
    BY <2>1 DEF RingInv
<1>3. Accounted /\ SessionShape
  BY DEF Accounted, SessionShape, Frames
<1> QED
  BY <1>1, <1>2, <1>3 DEF ForwarderInv

\* The facts about types that the steps below use.
LEMMA Types ==
    ASSUME TypeOK
    PROVE  /\ lastSeq \in Nat /\ cursor \in Nat /\ sessCursor \in Nat
           /\ cursor <= lastSeq /\ sessCursor <= lastSeq
           /\ rows \in SUBSET Nat /\ IsFiniteSet(rows)
           /\ batch \in SUBSET Nat /\ IsFiniteSet(batch)
           /\ chunk \in SUBSET Nat
<1>1. lastSeq \in Nat /\ cursor \in 0..lastSeq /\ sessCursor \in 0..lastSeq
  BY MaxSeqAssumption DEF TypeOK, BufferTypeOK
<1>2. rows \in SUBSET (1..lastSeq) /\ batch \in SUBSET (1..lastSeq)
      /\ chunk \in SUBSET (1..lastSeq)
  BY DEF TypeOK, BufferTypeOK, Frames
<1>3. IsFiniteSet(1..lastSeq)
  BY <1>1, IntervalCard
<1>4. IsFiniteSet(rows) /\ IsFiniteSet(batch)
  BY <1>2, <1>3, FS_Subset, Zenon
<1> QED
  BY <1>1, <1>2, <1>4

\* A step that leaves the ring and the histories of carriage alone, and ends or
\* opens a session or moves control within it.
LEMMA RingUntouched ==
    ASSUME RingInv, UNCHANGED <<rows, lastSeq>>
    PROVE  RingInv'
BY DEF RingInv

LEMMA WriteFramePreserves ==
    ASSUME ForwarderInv, WriteFrame
    PROVE  ForwarderInv'
<1>1. BufferTypeOK /\ RingInv /\ Write
  BY DEF ForwarderInv, TypeOK, WriteFrame
<1>2. /\ RingInv' /\ BufferTypeOK'
      /\ Inserted \ Victims = rows' /\ Victims \subseteq Inserted
  BY <1>1, WriteOnRing
<1>3. lastSeq' = lastSeq + 1 /\ cursor' = cursor
  BY <1>1 DEF Write
<1>4. UNCHANGED <<sessionVars, drift, incidents, offered, delivered,
                  lostAtBoot>>
      /\ dropped' = dropped \cup {s \in Victims : s > cursor}
  BY DEF WriteFrame
<1>5. lastSeq \in Nat /\ cursor \in Nat /\ sessCursor \in Nat
      /\ cursor <= lastSeq /\ sessCursor <= lastSeq
      /\ Frames' = Frames \cup {lastSeq + 1}
      /\ rows \subseteq Frames /\ dropped \subseteq Frames
      /\ chunk \subseteq Frames
      /\ Frames = 1..lastSeq
  <2>1. TypeOK
    BY DEF ForwarderInv
  <2> QED
    BY <2>1, Types, <1>3 DEF Frames, TypeOK, BufferTypeOK
<1>6. Inserted = rows \cup {lastSeq + 1}
  BY DEF Inserted
<1>7. TypeOK'
  <2>1. sessCursor' \in 0..lastSeq'
    BY <1>3, <1>4, <1>5 DEF sessionVars
  <2>2. dropped' \subseteq Frames'
    BY <1>2, <1>4, <1>5, <1>6, Zenon
  <2> QED
    BY <2>1, <2>2, <1>2, <1>4, <1>5 DEF ForwarderInv, TypeOK, sessionVars
<1>8. SessionShape'
  BY <1>4 DEF ForwarderInv, SessionShape, sessionVars
<1>9. Accounted'
  <2>1. \A s \in Frames' : s \in (rows \cup offered \cup dropped)'
    <3> SUFFICES ASSUME NEW s \in Frames', s \notin rows', s \notin offered
                 PROVE  s \in dropped'
      BY <1>4
    <3>1. CASE s \in Inserted
      <4>1. s \in Victims
        BY <3>1, <1>2
      <4>2. s > cursor \/ s \in offered \cup dropped
        BY <1>5 DEF ForwarderInv, Accounted
      <4> QED
        BY <4>1, <4>2, <1>4
    <3>2. CASE s \notin Inserted
      BY <3>2, <1>4, <1>5, <1>6 DEF ForwarderInv, Accounted
    <3> QED
      BY <3>1, <3>2
  <2>2. \A s \in 1..cursor' : s \in (offered \cup dropped)'
    BY <1>3, <1>4 DEF ForwarderInv, Accounted
  <2>3. \A s \in 1..sessCursor' : s \in (offered \cup dropped)'
    BY <1>4 DEF ForwarderInv, Accounted, sessionVars
  <2>4. \A c \in chunk', s \in Frames' :
          sessCursor' < s /\ s < c => s \in (chunk \cup offered \cup dropped)'
    <3> SUFFICES ASSUME NEW c \in chunk, NEW s \in Frames', sessCursor < s, s < c
                 PROVE  s \in chunk \cup offered \cup dropped
      BY <1>4 DEF sessionVars
    <3>1. s \in Frames
      BY <1>5
    <3> QED
      BY <3>1 DEF ForwarderInv, Accounted
  <2>5. (dropped \cap rows)' = {}
    <3>1. dropped \cap Inserted = {}
      BY <1>5, <1>6 DEF ForwarderInv, Accounted
    <3> QED
      BY <3>1, <1>2, <1>4
  <2> QED
    BY <2>1, <2>2, <2>3, <2>4, <2>5 DEF Accounted
<1> QED
  BY <1>2, <1>7, <1>8, <1>9 DEF ForwarderInv

\* A step that only moves control, or takes the notification.
LEMMA ControlPreserves ==
    ASSUME ForwarderInv,
           UNCHANGED <<rows, lastSeq, cursor, evictedSent, lostUnsent, sessCursor,
                       batch, chunk, drift, historyVars>>,
           pc' \in Control, ret' \in {"select", "send", "exit"},
           flush' \in BOOLEAN, stopping' \in BOOLEAN, notify' \in BOOLEAN,
           incidents' \in 0..MaxIncidents,
           pc' \in {"ckpt", "advance"} => batch # {},
           pc' = "down" => pc = "down"
    PROVE  ForwarderInv'
<1>1. TypeOK'
  BY DEF ForwarderInv, TypeOK, BufferTypeOK, Frames, historyVars
<1>2. RingInv'
  BY RingUntouched DEF ForwarderInv
<1>3. Accounted'
  BY DEF ForwarderInv, Accounted, Frames, historyVars
<1>4. SessionShape'
  BY DEF ForwarderInv, SessionShape, historyVars
<1> QED
  BY <1>1, <1>2, <1>3, <1>4 DEF ForwarderInv

\* newSession starts from the persisted cursor, or from 0 when it is unreadable.
LEMMA OpenSessionPreserves ==
    ASSUME ForwarderInv, NEW from \in {0, cursor}, OpenSession(from),
           incidents' \in 0..MaxIncidents
    PROVE  ForwarderInv'
<1> USE DEF OpenSession, bufferVars, historyVars
<1>1. TypeOK'
  <2>1. sessCursor' \in 0..lastSeq'
    BY MaxSeqAssumption DEF ForwarderInv, TypeOK, BufferTypeOK
  <2>2. pc' \in Control
    BY DEF Control
  <2>3. flush' \in BOOLEAN
    BY DEF ForwarderInv, TypeOK
  <2> QED
    BY <2>1, <2>2, <2>3 DEF ForwarderInv, TypeOK, BufferTypeOK, Frames
<1>2. RingInv'
  BY RingUntouched DEF ForwarderInv
<1>3. Accounted'
  BY DEF ForwarderInv, Accounted, SessionShape, Frames
<1>4. SessionShape'
  BY DEF ForwarderInv, SessionShape
<1> QED
  BY <1>1, <1>2, <1>3, <1>4, Zenon DEF ForwarderInv

\* A session that ends with an error forgets its batch and its chunk.
LEMMA SessionFailsPreserves ==
    ASSUME ForwarderInv, SessionFails,
           delivered' \in SUBSET (delivered \cup batch),
           incidents' \in 0..MaxIncidents,
           UNCHANGED <<bufferVars, ret, flush, stopping, sessCursor, drift, offered,
                       dropped, lostAtBoot>>
    PROVE  ForwarderInv'
<1> USE DEF SessionFails, bufferVars
<1>1. TypeOK'
  <2>1. pc' \in Control
    BY DEF Control
  <2>2. delivered' \subseteq offered'
    BY DEF ForwarderInv, TypeOK, SessionShape
  <2> QED
    BY <2>1, <2>2 DEF ForwarderInv, TypeOK, BufferTypeOK, Frames
<1>2. RingInv'
  BY RingUntouched DEF ForwarderInv
<1>3. Accounted'
  BY DEF ForwarderInv, Accounted, Frames
<1>4. SessionShape'
  BY DEF ForwarderInv, SessionShape
<1> QED
  BY <1>1, <1>2, <1>3, <1>4 DEF ForwarderInv

LEMMA BootPreserves ==
    ASSUME ForwarderInv, Boot, delivered' \in SUBSET (delivered \cup batch),
           incidents' \in 0..MaxIncidents
    PROVE  ForwarderInv'
<1> USE DEF Boot, Reopen
<1>1. TypeOK'
  <2>1. pc' \in Control /\ ret' \in {"select", "send", "exit"}
    BY DEF Control
  <2>2. delivered' \subseteq offered'
    BY DEF ForwarderInv, TypeOK, SessionShape
  <2>3. lostAtBoot' \subseteq Frames'
    BY DEF Lost
  <2>4. notify' \in BOOLEAN /\ flush' \in BOOLEAN /\ stopping' \in BOOLEAN
    BY Zenon
  <2>5. sessCursor' \in 0..lastSeq'
    BY MaxSeqAssumption DEF ForwarderInv, TypeOK, BufferTypeOK
  <2> QED
    BY <2>1, <2>2, <2>3, <2>4, <2>5 DEF ForwarderInv, TypeOK, BufferTypeOK, Frames
<1>2. RingInv'
  BY RingUntouched DEF ForwarderInv
<1>3. Accounted'
  BY DEF ForwarderInv, Accounted, Frames
<1>4. SessionShape'
  BY DEF ForwarderInv, SessionShape
<1> QED
  BY <1>1, <1>2, <1>3, <1>4 DEF ForwarderInv

\* drain reads the next chunk: ReadBatch returns a prefix of the rows beyond the
\* session's cursor, so no stored row is passed over.
LEMMA DrainReadPreserves ==
    ASSUME ForwarderInv, DrainRead, chunk' # chunk
    PROVE  ForwarderInv'
<1> DEFINE beyond == {s \in rows : s > sessCursor}
<1>1. chunk' = Oldest(beyond, ReadLimit) /\ pc' = "send" /\ UNCHANGED ret
  BY DEF DrainRead, DrainReturns, ReadBatch
<1>2. UNCHANGED <<bufferVars, flush, stopping, sessCursor, batch, drift, incidents,
                  historyVars>>
  BY DEF DrainRead
<1>3. TypeOK
  BY DEF ForwarderInv
<1>4. rows \in SUBSET Nat /\ IsFiniteSet(rows) /\ beyond \in SUBSET rows
  BY <1>3, Types
<1>5. IsFiniteSet(beyond)
  BY <1>4, FS_Subset
<1>6. chunk' \subseteq beyond
  BY <1>1 DEF Oldest
<1>7. TypeOK'
  <2>1. chunk' \subseteq Frames'
    BY <1>2, <1>3, <1>6 DEF TypeOK, BufferTypeOK, Frames, bufferVars
  <2>2. pc' \in Control
    BY <1>1 DEF Control
  <2> QED
    BY <2>1, <2>2, <1>1, <1>2, <1>3, Zenon
       DEF TypeOK, BufferTypeOK, Frames, bufferVars, historyVars
<1>8. RingInv'
  BY <1>2, RingUntouched DEF ForwarderInv, bufferVars
<1>9. Accounted'
  <2>1. ASSUME NEW c \in chunk', NEW s \in Frames, sessCursor < s, s < c
        PROVE  s \in chunk' \cup offered \cup dropped
    <3>1. CASE s \in rows
      <4>1. s \in beyond /\ c \in Oldest(beyond, ReadLimit)
        BY <3>1, <2>1, <1>1
      <4>2. beyond \in SUBSET Nat /\ ReadLimit \in Int
        <5>1. ReadLimit \in Int
          BY ReadLimitAssumption
        <5>2. \A u \in beyond : u \in Nat
          BY <1>4
        <5> QED
          BY <5>1, <5>2
      <4>3. s \in Oldest(beyond, ReadLimit)
        <5> HIDE DEF beyond
        <5> QED
          BY <4>1, <4>2, <2>1, <1>5, OldestIsPrefix
      <4> QED
        BY <4>3, <1>1
    <3>2. CASE s \notin rows
      BY <3>2 DEF ForwarderInv, Accounted
    <3> QED
      BY <3>1, <3>2
  <2> QED
    BY <2>1, <1>2 DEF ForwarderInv, Accounted, Frames, bufferVars, historyVars
<1>10. SessionShape'
  BY <1>1, <1>2, <1>6 DEF ForwarderInv, SessionShape, historyVars
<1> QED
  BY <1>7, <1>8, <1>9, <1>10 DEF ForwarderInv

LEMMA SendPreserves ==
    ASSUME ForwarderInv, Send
    PROVE  ForwarderInv'
<1>1. PICK s \in chunk :
        /\ \A t \in chunk : s <= t
        /\ chunk' = chunk \ {s}
        /\ batch' = batch \cup {s}
        /\ sessCursor' = s
        /\ offered' = offered \cup {s}
  BY DEF Send
<1>2. UNCHANGED <<bufferVars, flush, stopping, drift, incidents, delivered,
                  dropped, lostAtBoot>>
  BY DEF Send
<1>3. pc' \in {"ckpt", "read", "send"} /\ ret' \in {ret, "send"}
  BY DEF Send, NextFrame
<1>4. TypeOK /\ s \in Frames /\ s \in Nat /\ sessCursor < s /\ sessCursor \in Nat
      /\ lastSeq \in Nat /\ chunk \in SUBSET Nat /\ batch \in SUBSET Nat
  BY Types DEF ForwarderInv, SessionShape, TypeOK
<1>5. TypeOK'
  <2>1. pc' \in Control /\ ret' \in {"select", "send", "exit"}
    BY <1>3, <1>4 DEF Control, TypeOK
  <2>2. sessCursor' \in 0..lastSeq'
    BY <1>1, <1>2, <1>4 DEF Frames, bufferVars
  <2> QED
    BY <2>1, <2>2, <1>1, <1>2, <1>4 DEF TypeOK, BufferTypeOK, Frames, bufferVars
<1>6. RingInv'
  BY <1>2, RingUntouched DEF ForwarderInv, bufferVars
<1>7. Accounted'
  <2>1. \A t \in 1..sessCursor' : t \in (offered \cup dropped)'
    <3> SUFFICES ASSUME NEW t \in 1..s, t # s PROVE t \in offered \cup dropped
      BY <1>1, <1>2
    <3>1. CASE t <= sessCursor
      BY <3>1, <1>4 DEF ForwarderInv, Accounted
    <3>2. CASE t > sessCursor
      <4>1. t \in Frames /\ t < s /\ t \notin chunk
        BY <1>1, <1>4 DEF Frames
      <4> QED
        BY <4>1, <3>2 DEF ForwarderInv, Accounted
    <3> QED
      BY <3>1, <3>2, <1>4
  <2>2. \A c \in chunk', t \in Frames' :
          sessCursor' < t /\ t < c => t \in (chunk \cup offered \cup dropped)'
    <3> SUFFICES ASSUME NEW c \in chunk, NEW t \in Frames, s < t, t < c
                 PROVE  t \in chunk \cup offered \cup dropped
      BY <1>1, <1>2 DEF Frames, bufferVars
    <3>1. sessCursor < t
      BY <1>4 DEF Frames
    <3> QED
      BY <3>1 DEF ForwarderInv, Accounted
  <2> QED
    BY <2>1, <2>2, <1>1, <1>2 DEF ForwarderInv, Accounted, Frames, bufferVars
<1>8. SessionShape'
  <2>1. \A b \in batch' : b <= sessCursor'
    BY <1>1, <1>4 DEF ForwarderInv, SessionShape
  <2>2. \A c \in chunk' : c > sessCursor'
    BY <1>1, <1>4
  <2> QED
    BY <2>1, <2>2, <1>1, <1>3, Zenon DEF ForwarderInv, SessionShape
<1> QED
  BY <1>5, <1>6, <1>7, <1>8 DEF ForwarderInv

\* ApplyAck's new cursor is the one the session already has.
LEMMA NewCursorIsSessCursor ==
    ASSUME ForwarderInv, batch # {}
    PROVE  NewCursor = sessCursor
<1>1. sessCursor \in batch /\ \A t \in batch : t <= sessCursor
  BY DEF ForwarderInv, SessionShape
<1>2. NewCursor \in batch /\ \A t \in batch : t <= NewCursor
  BY <1>1 DEF NewCursor
<1>3. batch \in SUBSET Nat /\ sessCursor \in Nat
  BY Types DEF ForwarderInv
<1> QED
  BY <1>1, <1>2, <1>3

LEMMA CheckpointAckedPreserves ==
    ASSUME ForwarderInv, CheckpointAcked
    PROVE  ForwarderInv'
<1>1. PICK A \in SUBSET batch :
        /\ delivered' = delivered \cup A
        /\ drift' = drift + Cardinality(Drifted(Cardinality(A)))
  BY DEF CheckpointAcked
<1>2. pc = "ckpt" /\ pc' = "advance" /\ sessCursor' = NewCursor
      /\ UNCHANGED <<bufferVars, ret, flush, stopping, batch, chunk, incidents,
                     offered, dropped, lostAtBoot>>
  BY DEF CheckpointAcked
<1>3. batch # {} /\ TypeOK
  BY <1>2 DEF ForwarderInv, SessionShape
<1>4. sessCursor' = sessCursor
  BY <1>2, <1>3, NewCursorIsSessCursor
<1>5. Drifted(Cardinality(A)) \in SUBSET batch
  BY DEF Drifted
<1>6. Cardinality(Drifted(Cardinality(A))) \in Nat
  BY <1>3, <1>5, Types, FS_Subset, FS_CardinalityType
<1>7. TypeOK'
  <2>1. pc' \in Control
    BY <1>2 DEF Control
  <2>2. delivered' \subseteq offered'
    BY <1>1, <1>2, <1>5 DEF ForwarderInv, TypeOK, SessionShape
  <2>3. drift' \in Nat
    BY <1>1, <1>3, <1>6 DEF TypeOK
  <2> QED
    BY <2>1, <2>2, <2>3, <1>2, <1>3, <1>4 DEF TypeOK, BufferTypeOK, Frames, bufferVars
<1>8. RingInv'
  BY <1>2, RingUntouched DEF ForwarderInv, bufferVars
<1>9. Accounted'
  BY <1>2, <1>4 DEF ForwarderInv, Accounted, Frames, bufferVars
<1>10. SessionShape'
  BY <1>2, <1>3, <1>4 DEF ForwarderInv, SessionShape
<1> QED
  BY <1>7, <1>8, <1>9, <1>10 DEF ForwarderInv

LEMMA CheckpointAdvancesPreserves ==
    ASSUME ForwarderInv, CheckpointAdvances
    PROVE  ForwarderInv'
<1> USE DEF CheckpointAdvances, Advance, historyVars
<1>1. TypeOK'
  <2>1. pc' \in Control \ {"down", "ckpt", "advance"}
    BY DEF ForwarderInv, TypeOK, Control, NextFrame
  <2> QED
    BY <2>1 DEF ForwarderInv, TypeOK, BufferTypeOK, Frames
<1>2. RingInv'
  BY RingUntouched DEF ForwarderInv
<1>3. Accounted'
  BY DEF ForwarderInv, Accounted, Frames
<1>4. SessionShape'
  <2>1. pc' \notin {"down", "ckpt", "advance"}
    BY DEF ForwarderInv, TypeOK, Control, NextFrame
  <2> QED
    BY <2>1 DEF ForwarderInv, SessionShape
<1> QED
  BY <1>1, <1>2, <1>3, <1>4, Zenon DEF ForwarderInv

LEMMA InvInductive == ForwarderInv /\ [Next]_vars => ForwarderInv'
<1> SUFFICES ASSUME ForwarderInv, [Next]_vars PROVE ForwarderInv'
  OBVIOUS
<1>0. /\ TypeOK /\ incidents \in 0..MaxIncidents /\ MaxIncidents \in Nat
      /\ ret \in {"select", "send", "exit"} /\ flush \in BOOLEAN
      /\ stopping \in BOOLEAN /\ notify \in BOOLEAN /\ pc \in Control
      /\ delivered \in SUBSET (delivered \cup batch)
  BY MaxIncidentsAssumption DEF ForwarderInv, TypeOK, BufferTypeOK
<1>a. ASSUME StreamBreaks PROVE delivered' \in SUBSET (delivered \cup batch)
  BY <1>a DEF StreamBreaks, OnStream
<1>b. ASSUME NEW kind, Incident(kind) PROVE incidents' \in 0..MaxIncidents
  BY <1>b, <1>0 DEF Incident
<1>1. CASE NewSession
  BY <1>1, <1>0, OpenSessionPreserves DEF NewSession
<1>2. CASE NewSessionCursorUnreadable
  BY <1>2, <1>b, OpenSessionPreserves DEF NewSessionCursorUnreadable
<1>3. CASE RunCancelled
  BY <1>3, <1>0, <1>a, SessionFailsPreserves, Zenon DEF RunCancelled
<1>4. CASE Tick
  <2>1. pc' \in Control /\ ret' \in {"select", "send", "exit"}
    BY <1>4 DEF Tick, Control
  <2> QED
    BY <2>1, <1>4, <1>0, ControlPreserves, Zenon DEF Tick, bufferVars
<1>5. CASE DrainOnNotify
  <2>1. pc' \in Control /\ pc' = "read"
    BY <1>5 DEF DrainOnNotify, StartDrain, Control
  <2>2. notify' \in BOOLEAN
    BY <1>5, Zenon DEF DrainOnNotify
  <2> QED
    BY <2>1, <2>2, <1>5, <1>0, ControlPreserves, Zenon DEF DrainOnNotify, StartDrain
<1>6. CASE DrainOnBackstop
  <2>1. pc' \in Control /\ pc' = "read"
    BY <1>6 DEF DrainOnBackstop, StartDrain, Control
  <2> QED
    BY <2>1, <1>6, <1>0, ControlPreserves DEF DrainOnBackstop, StartDrain, bufferVars
<1>c. ASSUME DrainReturns
      PROVE  /\ pc' \in Control /\ ret' \in {"select", "send", "exit"}
             /\ pc' \in {"ckpt", "advance"} => batch # {}
             /\ pc' # "down" /\ chunk' = chunk
  BY <1>c, <1>0 DEF DrainReturns, Control
<1>7. CASE DrainRead
  <2>1. CASE chunk' # chunk
    BY <1>7, <2>1, DrainReadPreserves, Zenon
  <2>2. CASE DrainReturns
    BY <1>7, <2>2, <1>c, <1>0, ControlPreserves, Zenon DEF DrainRead, bufferVars
  <2>3. CASE chunk' = chunk /\ pc' = "send" /\ UNCHANGED ret
    <3>1. pc' \in Control
      BY <2>3 DEF Control
    <3> QED
      BY <3>1, <1>7, <2>3, <1>0, ControlPreserves, Zenon DEF DrainRead, bufferVars
  <2> QED
    BY <1>7, <2>1, <2>2, <2>3 DEF DrainRead
<1>8. CASE DrainReadFails
  BY <1>8, <1>0, <1>b, <1>c, ControlPreserves DEF DrainReadFails, bufferVars
<1>9. CASE Send
  BY <1>9, SendPreserves
<1>10. CASE SendFails
  BY <1>10, <1>0, <1>a, SessionFailsPreserves, Zenon DEF SendFails
<1>11. CASE CheckpointAcked
  BY <1>11, CheckpointAckedPreserves
<1>12. CASE CheckpointFails
  BY <1>12, <1>0, <1>a, SessionFailsPreserves, Zenon DEF CheckpointFails
<1>13. CASE CheckpointAdvances
  BY <1>13, CheckpointAdvancesPreserves
<1>14. CASE CheckpointAdvanceFails
  BY <1>14, <1>0, <1>b, SessionFailsPreserves, Zenon DEF CheckpointAdvanceFails, historyVars
<1>15. CASE WriteFrame
  BY <1>15, WriteFramePreserves
<1>16. CASE Stop
  <2>1. incidents' \in 0..MaxIncidents
    BY <1>16, <1>0 DEF Stop
  <2>2. stopping' \in BOOLEAN
    BY <1>16, Zenon DEF Stop
  <2>3. pc' \in {"ckpt", "advance"} => batch # {}
    BY <1>16 DEF Stop, ForwarderInv, SessionShape
  <2> QED
    BY <2>1, <2>2, <2>3, <1>16, <1>0, ControlPreserves DEF Stop, bufferVars
<1>17. CASE Restart
  BY <1>17, <1>0, BootPreserves DEF Restart
<1>18. CASE Crash
  <2>1. incidents' \in 0..MaxIncidents
    BY <1>18, <1>0 DEF Crash
  <2> QED
    BY <2>1, <1>18, <1>a, BootPreserves DEF Crash
<1>19. CASE UNCHANGED vars
  <2>1. pc' \in {"ckpt", "advance"} => batch # {}
    BY <1>19 DEF vars, sessionVars, ForwarderInv, SessionShape
  <2> QED
    BY <2>1, <1>19, <1>0, ControlPreserves DEF vars, bufferVars, sessionVars
<1> QED
  BY <1>1, <1>2, <1>3, <1>4, <1>5, <1>6, <1>7, <1>8, <1>9, <1>10, <1>11, <1>12,
     <1>13, <1>14, <1>15, <1>16, <1>17, <1>18, <1>19, Zenon DEF Next, Uplink

LEMMA InvHolds == Spec => []ForwarderInv
BY InvInitially, InvInductive, PTL DEF Spec

-----------------------------------------------------------------------------
(* The theorems.                                                           *)

\* The state of the ring and of the uplink is always well formed: in particular
\* rows and cursor never pass the last assigned sequence number (Write, Advance)
\* and Building OS holds only frames a stream carried.
THEOREM TypeCorrect == Spec => []TypeOK
<1>1. ForwarderInv => TypeOK
  BY DEF ForwarderInv
<1> QED
  BY <1>1, InvHolds, PTL

\* For every capacity, checkpoint size and read limit, and whatever SQLite
\* failures, broken streams, crashes and restarts happen, the persisted cursor
\* passes only frames a stream carried or eviction counted (checkpoint, drain).
THEOREM NothingSkipped == Spec => []CursorSkipsNothing
<1>1. ForwarderInv => CursorSkipsNothing
  BY DEF ForwarderInv, Accounted, CursorSkipsNothing
<1> QED
  BY <1>1, InvHolds, PTL

\* The two counts Write takes are exactly the rows it deletes on each side of
\* the cursor, for every capacity (buffer.go, Write).
THEOREM EvictionCountsExact == Spec => EvictionSplitExact
<1> DEFINE gone == (rows \cup {lastSeq'}) \ rows'
           Split ==
             lastSeq' > lastSeq =>
               /\ evictedSent' - evictedSent = Cardinality({s \in gone : s <= cursor})
               /\ lostUnsent' - lostUnsent = Cardinality({s \in gone : s > cursor})
<1>1. ASSUME ForwarderInv, [Next]_vars PROVE [Split]_vars
  <2>1. CASE WriteFrame
    <3>1. BufferTypeOK /\ RingInv /\ Write
      BY <1>1, <2>1 DEF ForwarderInv, TypeOK, WriteFrame
    <3>2. gone = Victims
      <4>1. Inserted \ Victims = rows' /\ Victims \subseteq Inserted
        BY <3>1, WriteOnRing
      <4>2. Inserted = rows \cup {lastSeq'}
        BY <3>1 DEF Inserted, Write
      <4> QED
        BY <4>1, <4>2
    <3>3. /\ evictedSent' - evictedSent = Cardinality({s \in Victims : s <= cursor})
          /\ lostUnsent' - lostUnsent = Cardinality({s \in Victims : s > cursor})
      BY <3>1, WriteOnRing
    <3> HIDE DEF gone
    <3> QED
      BY <3>2, <3>3, Zenon
  <2>2. CASE lastSeq' = lastSeq
    <3> HIDE DEF gone
    <3>0. lastSeq \in Nat
      BY <1>1, Types, Zenon DEF ForwarderInv
    <3>1. ~(lastSeq' > lastSeq)
      BY <2>2, <3>0
    <3> QED
      BY <3>1
  <2>3. CASE Uplink \/ Stop \/ Restart \/ Crash \/ UNCHANGED vars
    BY <2>2, <2>3 DEF Uplink, NewSession, NewSessionCursorUnreadable, OpenSession,
       RunCancelled, Tick, DrainOnNotify, DrainOnBackstop, StartDrain, DrainRead,
       DrainReadFails, Send, SendFails, CheckpointAcked, CheckpointFails,
       CheckpointAdvances, Advance, CheckpointAdvanceFails, Stop, Restart, Crash,
       Boot, Reopen, bufferVars, vars
  <2> QED
    BY <1>1, <2>1, <2>3 DEF Next
<1>2. ForwarderInv /\ [Next]_vars => [Split]_vars
  BY <1>1
<1> QED
  BY <1>2, InvHolds, PTL DEF Spec, EvictionSplitExact

-----------------------------------------------------------------------------
(* While the cursor can be read, a session is never behind it.             *)

SessionAhead == pc # "down" => sessCursor >= cursor

LEMMA AheadInductive ==
    ASSUME "cursorRead" \notin Faults, ForwarderInv, SessionAhead, [Next]_vars
    PROVE  SessionAhead' /\ cursor' >= cursor
<1>0. cursor \in Nat /\ sessCursor \in Nat /\ chunk \in SUBSET Nat
  BY Types DEF ForwarderInv
<1>1. CASE NewSession
  BY <1>1, <1>0 DEF NewSession, OpenSession, SessionAhead, bufferVars
<1>2. CASE NewSessionCursorUnreadable
  BY <1>2 DEF NewSessionCursorUnreadable, Incident
<1>3. CASE Send
  <2>1. sessCursor' \in chunk /\ pc # "down" /\ cursor' = cursor
    BY <1>3 DEF Send, bufferVars
  <2>2. sessCursor' > sessCursor /\ sessCursor' \in Nat
    BY <2>1, <1>0 DEF ForwarderInv, SessionShape
  <2> QED
    BY <2>1, <2>2, <1>0 DEF SessionAhead
<1>4. CASE CheckpointAcked
  <2>1. batch # {} /\ sessCursor' = NewCursor /\ pc = "ckpt" /\ cursor' = cursor
    BY <1>4 DEF CheckpointAcked, ForwarderInv, SessionShape, bufferVars
  <2>2. sessCursor' = sessCursor
    BY <2>1, NewCursorIsSessCursor, Zenon
  <2> QED
    BY <2>1, <2>2, <1>0 DEF SessionAhead
<1>5. CASE CheckpointAdvances
  BY <1>5, <1>0 DEF CheckpointAdvances, Advance, SessionAhead
<1>6. CASE cursor' = cursor /\ sessCursor' = sessCursor /\ pc # "down"
  BY <1>6, <1>0 DEF SessionAhead
<1>7. CASE cursor' = cursor /\ sessCursor' = sessCursor /\ pc' = pc
  BY <1>7, <1>0 DEF SessionAhead
<1>8. CASE cursor' = cursor /\ pc' = "down"
  BY <1>8, <1>0, SMTT(20), Zenon DEF SessionAhead
<1>9. CASE RunCancelled \/ Tick \/ DrainOnNotify \/ DrainOnBackstop \/ DrainRead
           \/ DrainReadFails \/ SendFails \/ CheckpointFails \/ CheckpointAdvanceFails
  BY <1>6, <1>9, Zenon DEF RunCancelled, Tick, DrainOnNotify, DrainOnBackstop, StartDrain,
     DrainRead, DrainReadFails, SendFails, CheckpointFails, CheckpointAdvanceFails,
     bufferVars
<1>10. CASE WriteFrame \/ Stop \/ UNCHANGED vars
  BY <1>7, <1>10, Zenon DEF WriteFrame, Write, Stop, bufferVars, sessionVars, vars
<1>11. CASE Restart \/ Crash
  BY <1>8, <1>11 DEF Restart, Crash, Boot, Reopen
<1> QED
  BY <1>1, <1>2, <1>3, <1>4, <1>5, <1>9, <1>10, <1>11, Zenon DEF Next, Uplink

LEMMA AheadHolds ==
    ASSUME "cursorRead" \notin Faults
    PROVE  Spec => [](ForwarderInv /\ SessionAhead)
<1>1. Init => SessionAhead
  BY DEF Init, SessionAhead
<1>2. ForwarderInv /\ SessionAhead /\ [Next]_vars => SessionAhead'
  BY AheadInductive
<1> QED
  BY <1>1, <1>2, InvInitially, InvInductive, PTL DEF Spec

\* As long as SQLite can read the cursor row, no checkpoint, in whatever session,
\* moves the persisted cursor back (checkpoint, Advance, newSession).
THEOREM CursorMonotone ==
    ASSUME "cursorRead" \notin Faults
    PROVE  Spec => CursorOnlyAdvances
<1>1. ForwarderInv /\ SessionAhead /\ [Next]_vars => [cursor' >= cursor]_vars
  BY AheadInductive
<1> QED
  BY <1>1, AheadHolds, PTL DEF Spec, CursorOnlyAdvances

-----------------------------------------------------------------------------
(* The uplink over the ring implements Delivery.                           *)

LEMMA StepImplements ==
    ASSUME "cursorRead" \notin Faults, ForwarderInv, SessionAhead, [Next]_vars
    PROVE  [D!DeliveryNext]_(D!deliveryVars)
<1> USE DEF D!DeliveryNext, D!deliveryVars
<1>0. TypeOK /\ cursor \in Nat /\ sessCursor \in Nat /\ lastSeq \in Nat
      /\ rows \in SUBSET Nat /\ batch \subseteq offered
  BY Types DEF ForwarderInv, SessionShape
<1>1. CASE WriteFrame
  <2>1. BufferTypeOK /\ RingInv /\ Write
    BY <1>1, Zenon DEF ForwarderInv, TypeOK, WriteFrame
  <2>2. /\ Inserted \ Victims = rows' /\ Victims \subseteq Inserted
        /\ \A v \in Victims, k \in rows' : v < k
        /\ Victims # {} => rows' = (lastSeq' - Capacity + 1)..lastSeq'
    BY <2>1, WriteOnRing
  <2>3. lastSeq' = lastSeq + 1 /\ cursor' = cursor /\ Inserted = rows \cup {lastSeq + 1}
    BY <2>1 DEF Write, Inserted
  <2>4. UNCHANGED <<offered, delivered>>
        /\ dropped' = dropped \cup {s \in Victims : s > cursor}
    BY <1>1 DEF WriteFrame
  <2>5. cursor <= lastSeq /\ Inserted \in SUBSET Nat /\ rows' \in SUBSET Nat
    <3>1. \A s \in Inserted : s \in Nat
      BY <1>0, <2>3
    <3>2. \A s \in rows' : s \in Nat
      BY <3>1, <2>2
    <3> QED
      BY <3>1, <3>2, <1>0, Types
  <2> DEFINE out == (Backlog \cup {lastSeq + 1}) \ Backlog'
  <2>6. out = {s \in Victims : s > cursor}
    <3>1. \A s : s \in Backlog \cup {lastSeq + 1} <=> s \in Inserted /\ s > cursor
      BY <2>3, <2>5, <1>0 DEF Backlog
    <3>2. \A s : s \in Backlog' <=> s \in Inserted \ Victims /\ s > cursor
      BY <2>2, <2>3 DEF Backlog
    <3> QED
      BY <3>1, <3>2, <2>2, Zenon
  <2>7. Backlog' \subseteq Backlog \cup {lastSeq + 1} /\ Backlog' \subseteq rows'
    BY <2>2, <2>3 DEF Backlog
  <2>8. \A d \in out, k \in Backlog' : d < k
    BY <2>2, <2>6, <2>7
  <2>9. out # {} => Backlog' = (lastSeq' - Capacity + 1)..lastSeq'
    <3> SUFFICES ASSUME NEW v \in Victims, v > cursor
                 PROVE  Backlog' = (lastSeq' - Capacity + 1)..lastSeq'
      BY <2>6
    <3>1. \A k \in rows' : k > cursor
      <4> SUFFICES ASSUME NEW k \in rows' PROVE k > cursor
        OBVIOUS
      <4>1. v < k /\ v \in Nat /\ k \in Nat
        BY <2>2, <2>5
      <4> QED
        BY <4>1, <1>0
    <3>2. Backlog' = rows'
      BY <3>1, <2>3 DEF Backlog
    <3> QED
      BY <3>2, <2>2
  <2>10. dropped' = dropped \cup out
    BY <2>4, <2>6, Zenon
  <2>11. D!Accept
    BY <2>3, <2>4, <2>7, <2>8, <2>9, <2>10, Zenon DEF D!Accept
  <2> QED
    BY <2>11
<1>2. CASE Send
  <2>1. PICK s \in chunk : offered' = offered \cup {s}
    BY <1>2 DEF Send
  <2>2. s \in 1..lastSeq
    BY <1>0, Zenon DEF TypeOK, Frames
  <2>3. D!Offer
    BY <2>1, <2>2, <1>2 DEF D!Offer, Send, Backlog, bufferVars
  <2> QED
    BY <2>3
<1>3. ASSUME delivered' \in SUBSET (delivered \cup batch), delivered \subseteq delivered',
             UNCHANGED <<rows, lastSeq, cursor, offered, dropped>>
      PROVE  D!Deliver
  BY <1>3, <1>0 DEF D!Deliver, Backlog
<1>4. ASSUME StreamBreaks
      PROVE  delivered' \in SUBSET (delivered \cup batch) /\ delivered \subseteq delivered'
  BY <1>4, Zenon DEF StreamBreaks, OnStream
<1>5. CASE RunCancelled \/ SendFails \/ CheckpointFails \/ Crash
  BY <1>5, <1>3, <1>4, Zenon DEF RunCancelled, SendFails, CheckpointFails, Crash, Boot,
     Reopen, bufferVars
<1>6. CASE CheckpointAcked
  <2>1. delivered' \in SUBSET (delivered \cup batch) /\ delivered \subseteq delivered'
    BY <1>6 DEF CheckpointAcked
  <2> QED
    BY <2>1, <1>6, <1>3 DEF CheckpointAcked, bufferVars
<1>7. CASE CheckpointAdvances
  <2>1. pc # "down" /\ cursor' = sessCursor /\ cursor <= sessCursor
        /\ UNCHANGED <<rows, lastSeq, offered, delivered, dropped>>
    BY <1>7, SMTT(20), Zenon DEF CheckpointAdvances, Advance, SessionAhead, historyVars
  <2>2. Backlog' \subseteq Backlog
    <3>1. \A s \in rows : s > sessCursor => s > cursor
      BY <2>1, <1>0
    <3> QED
      BY <3>1, <2>1 DEF Backlog
  <2>3. Backlog \ Backlog' \subseteq offered
    <3> SUFFICES ASSUME NEW s \in rows, s > cursor, ~(s > sessCursor)
                 PROVE  s \in offered
      BY <2>1 DEF Backlog
    <3>1. s \in 1..sessCursor
      BY <1>0
    <3> QED
      BY <3>1 DEF ForwarderInv, Accounted
  <2>4. \A s \in Backlog \ Backlog', k \in Backlog' : s < k
    BY <2>1, <1>0 DEF Backlog
  <2>5. D!Settle
    BY <2>1, <2>2, <2>3, <2>4 DEF D!Settle
  <2> QED
    BY <2>5
<1>8. CASE UNCHANGED <<rows, lastSeq, cursor, offered, delivered, dropped>>
  BY <1>8, ZenonT(30) DEF Backlog
<1>9. CASE NewSession \/ NewSessionCursorUnreadable \/ Tick \/ DrainOnNotify
           \/ DrainOnBackstop \/ DrainRead \/ DrainReadFails
           \/ CheckpointAdvanceFails \/ Stop \/ Restart \/ UNCHANGED vars
  BY <1>8, <1>9 DEF NewSession, NewSessionCursorUnreadable, OpenSession, Tick,
     DrainOnNotify, DrainOnBackstop, StartDrain, DrainRead, DrainReadFails,
     CheckpointAdvanceFails, Stop, Restart, Boot, Reopen, bufferVars, historyVars, vars
<1> QED
  BY <1>1, <1>2, <1>5, <1>6, <1>7, <1>9, Zenon DEF Next, Uplink

\* Every behaviour of the ring, the uplink, crashes and restarts is a behaviour
\* of best-effort delivery: a frame leaves the backlog oldest first, after a
\* stream carried it or because the backlog alone overflowed the ring.
THEOREM RefinesDelivery ==
    ASSUME "cursorRead" \notin Faults
    PROVE  Spec => ImplementsDelivery
<1>1. Init => D!DeliveryInit
  BY DEF Init, Open, Backlog, D!DeliveryInit
<1>2. ForwarderInv /\ SessionAhead /\ [Next]_vars => [D!DeliveryNext]_(D!deliveryVars)
  BY StepImplements
<1> QED
  BY <1>1, <1>2, AheadHolds, PTL DEF Spec, ImplementsDelivery, D!DeliverySpec

-----------------------------------------------------------------------------
(* What is lost is counted, and what is replayed is bounded.               *)

\* A selection of the oldest n has at most n members: the number of older
\* members tells them apart and is below n.
LEMMA OldestAtMost ==
    ASSUME NEW S \in SUBSET Nat, IsFiniteSet(S), NEW n \in Nat
    PROVE  /\ IsFiniteSet(Oldest(S, n))
           /\ Cardinality(Oldest(S, n)) <= n
<1> DEFINE older(s) == {t \in S : t < s}
           rank == [s \in Oldest(S, n) |-> Cardinality(older(s))]
<1>0. \A u \in S : u \in Int
  OBVIOUS
<1>1. \A s : older(s) \in SUBSET S
  OBVIOUS
<1>2. ASSUME NEW s PROVE IsFiniteSet(older(s)) /\ Cardinality(older(s)) \in Nat
  <2>1. IsFiniteSet(older(s))
    BY <1>1, FS_Subset
  <2> QED
    BY <2>1, FS_CardinalityType
<1>3. ASSUME NEW s \in S, NEW t \in S, s < t
      PROVE  Cardinality(older(s)) # Cardinality(older(t))
  <2>1. older(s) \in SUBSET older(t) /\ s \in older(t) /\ s \notin older(s)
    <3>1. s \in Int /\ t \in Int /\ \A u \in S : u \in Int
      BY <1>0
    <3>2. \A u \in S : u < s => u < t
      BY <3>1, <1>3
    <3>3. ~(s < s)
      BY <3>1
    <3> QED
      BY <3>2, <3>3, <1>3, Zenon
  <2> HIDE DEF older
  <2>2. older(s) # older(t)
    BY <2>1
  <2> QED
    BY <2>1, <2>2, <1>2, FS_Subset
<1>4. rank \in [Oldest(S, n) -> 0..(n - 1)]
  <2>1. ASSUME NEW s \in Oldest(S, n) PROVE Cardinality(older(s)) \in 0..(n - 1)
    <3>1. Cardinality(older(s)) < n
      BY DEF Oldest
    <3> QED
      BY <3>1, <1>2
  <2> QED
    BY <2>1
<1>5. Oldest(S, n) \subseteq S
  BY DEF Oldest
<1>6. \A s, t \in Oldest(S, n) : rank[s] = rank[t] => s = t
  <2> SUFFICES ASSUME NEW s \in Oldest(S, n), NEW t \in Oldest(S, n), s # t
               PROVE  rank[s] # rank[t]
    OBVIOUS
  <2>1. s \in S /\ t \in S
    BY <1>5
  <2>a. s < t \/ t < s
    <3>1. s \in Int /\ t \in Int
      BY <2>1, <1>0
    <3> HIDE DEF older, rank
    <3> QED
      BY <3>1
  <2>2. rank[s] = Cardinality(older(s)) /\ rank[t] = Cardinality(older(t))
    OBVIOUS
  <2> HIDE DEF older, rank
  <2>3. Cardinality(older(s)) # Cardinality(older(t))
    BY <2>1, <2>a, <1>3
  <2> QED
    BY <2>2, <2>3, Zenon
<1>7. rank \in Injection(Oldest(S, n), 0..(n - 1))
  <2> HIDE DEF rank
  <2> QED
    BY <1>4, <1>6 DEF Injection, IsInjective
<1>8. IsFiniteSet(0..(n - 1)) /\ Cardinality(0..(n - 1)) = n
  <2>1. 0 \in Int /\ n - 1 \in Int
    OBVIOUS
  <2> QED
    BY <2>1, IntervalCard
<1> HIDE DEF rank
<1> QED
  BY <1>7, <1>8, FS_Injection

\* ApplyAck reports as drift at least as many frames as Building OS did not
\* accept of the batch, whichever they are.
LEMMA DriftCoversRefused ==
    ASSUME batch \in SUBSET Nat, IsFiniteSet(batch), NEW A \in SUBSET batch
    PROVE  /\ IsFiniteSet(batch \ A)
           /\ Cardinality(Drifted(Cardinality(A))) \in Nat
           /\ Cardinality(batch \ A) <= Cardinality(Drifted(Cardinality(A)))
<1> DEFINE n == Cardinality(A)
           kept == Oldest(batch, n)
<1>1. IsFiniteSet(A) /\ n \in Nat
  BY FS_Subset, FS_CardinalityType, Zenon
<1>2. IsFiniteSet(kept) /\ Cardinality(kept) <= n /\ Cardinality(kept) \in Nat
  <2>1. IsFiniteSet(kept) /\ Cardinality(kept) <= n
    BY <1>1, OldestAtMost
  <2> QED
    BY <2>1, FS_CardinalityType
<1>3. batch \cap A = A /\ batch \cap kept = kept
  BY Zenon DEF Oldest
<1> DEFINE total == Cardinality(batch)
<1>4. total \in Nat
  BY FS_CardinalityType
<1>5. IsFiniteSet(batch \ A) /\ Cardinality(batch \ A) = total - Cardinality(batch \cap A)
  BY FS_Difference
<1>6. IsFiniteSet(batch \ kept)
      /\ Cardinality(batch \ kept) = total - Cardinality(batch \cap kept)
  <2> HIDE DEF kept
  <2> QED
    BY FS_Difference
<1>7. Cardinality(batch \ kept) \in Nat
  BY <1>6, FS_CardinalityType
<1>8. Drifted(n) = batch \ kept
  BY DEF Drifted
<1>9. Cardinality(batch \ A) = total - n
  BY <1>3, <1>5, Zenon
<1>10. Cardinality(batch \ kept) = total - Cardinality(kept)
  BY <1>3, <1>6
<1> HIDE DEF n, kept, total
<1>11. Cardinality(batch \ A) <= Cardinality(batch \ kept)
  BY <1>1, <1>2, <1>4, <1>9, <1>10
<1> QED
  BY <1>5, <1>7, <1>8, <1>11 DEF n

\* The stored rows between the persisted cursor and the session's are in the
\* batch, and drain's chunk leaves no stored row out.
Covered ==
    /\ pc \notin {"down", "exit"} =>
        \A r \in rows : cursor < r /\ r <= sessCursor => r \in batch
    /\ \A c \in chunk, r \in rows : sessCursor < r /\ r < c => r \in chunk

\* The undelivered frames of this process that eviction took beyond the cursor,
\* those the cursor passed, and those it is about to pass.
EvictedLost == dropped \ (lostAtBoot \cup delivered)
PassedLost == Frames \ (lostAtBoot \cup delivered \cup dropped \cup Backlog)
Drifting ==
    IF pc = "advance" THEN batch \ (lostAtBoot \cup delivered \cup dropped) ELSE {}

Counted ==
    /\ Cardinality(EvictedLost) <= lostUnsent
    /\ Cardinality(PassedLost \cup Drifting) <= drift

\* The un-acked rows no newer than some frame a stream carried: the rows a new
\* session replays are among them.
Reached == {r \in Backlog : \E o \in offered : r <= o}

BatchBounded ==
    /\ pc \in {"select", "read", "send"} => Cardinality(batch) < CheckpointSize
    /\ pc \in {"ckpt", "advance"} => Cardinality(batch) <= CheckpointSize

LEMMA CoveredInductive ==
    ASSUME ForwarderInv, Covered, [Next]_vars
    PROVE  Covered'
<1>0. TypeOK /\ lastSeq \in Nat /\ cursor \in Nat /\ sessCursor \in Nat
      /\ sessCursor <= lastSeq /\ rows \in SUBSET Nat /\ IsFiniteSet(rows)
      /\ chunk \in SUBSET Nat /\ chunk \subseteq Frames
  BY Types DEF ForwarderInv, TypeOK
<1>1. CASE WriteFrame
  <2>1. rows' \subseteq rows \cup {lastSeq + 1} /\ cursor' = cursor
        /\ UNCHANGED <<pc, sessCursor, batch, chunk>>
    BY <1>1 DEF WriteFrame, Write, Inserted, sessionVars
  <2>2. ~(lastSeq + 1 <= sessCursor) /\ \A c \in chunk : ~(lastSeq + 1 < c)
    BY <1>0 DEF Frames
  <2> QED
    BY <2>1, <2>2, Zenon DEF Covered
<1>2. CASE NewSession \/ NewSessionCursorUnreadable
  <2>1. pc = "down" /\ sessCursor' \in {0, cursor}
        /\ UNCHANGED <<rows, cursor, batch, chunk>>
    BY <1>2 DEF NewSession, NewSessionCursorUnreadable, OpenSession, bufferVars
  <2>2. chunk' = {}
    BY <2>1 DEF ForwarderInv, SessionShape
  <2>3. \A r \in rows : ~(cursor < r /\ r <= sessCursor')
    BY <2>1, <1>0
  <2> QED
    BY <2>1, <2>2, <2>3, Zenon DEF Covered
<1>3. CASE RunCancelled \/ SendFails \/ CheckpointFails \/ CheckpointAdvanceFails
  <2>1. pc' \in {"down", "exit"} /\ chunk' = {}
    BY <1>3 DEF RunCancelled, SendFails, CheckpointFails, CheckpointAdvanceFails,
       SessionFails
  <2> QED
    BY <2>1, Zenon DEF Covered
<1>4. CASE Restart \/ Crash
  BY <1>4 DEF Restart, Crash, Boot, Covered
<1>5. ASSUME UNCHANGED <<rows, cursor, sessCursor, batch, chunk>>,
             pc \in {"down", "exit"} => pc' = pc
      PROVE  Covered'
  BY <1>5, Zenon DEF Covered
<1>6. CASE Tick \/ DrainOnNotify \/ DrainOnBackstop \/ DrainReadFails \/ Stop
           \/ UNCHANGED vars
  BY <1>6, <1>5 DEF Tick, DrainOnNotify, DrainOnBackstop, StartDrain, DrainReadFails,
     DrainReturns, Stop, bufferVars, sessionVars, vars
<1>7. CASE DrainRead
  <2> DEFINE beyond == {s \in rows : s > sessCursor}
  <2>1. pc = "read" /\ UNCHANGED <<rows, cursor, sessCursor, batch>>
    BY <1>7 DEF DrainRead, bufferVars
  <2>2. CASE chunk' = chunk
    BY <2>1, <2>2, <1>5
  <2>3. CASE chunk' = Oldest(beyond, ReadLimit)
    <3>1. beyond \in SUBSET rows /\ beyond \in SUBSET Nat
      BY <1>0, Zenon
    <3>2. IsFiniteSet(beyond) /\ ReadLimit \in Int
      BY <3>1, <1>0, FS_Subset, ReadLimitAssumption
    <3>3. ASSUME NEW c \in chunk', NEW r \in rows, sessCursor < r, r < c
          PROVE  r \in chunk'
      <4>1. r \in beyond /\ c \in Oldest(beyond, ReadLimit)
        BY <3>3, <2>3, <1>0, Zenon
      <4> HIDE DEF beyond
      <4> QED
        BY <4>1, <3>1, <3>2, <3>3, <2>3, OldestIsPrefix, Zenon
    <3> QED
      BY <3>3, <2>1 DEF Covered
  <2> QED
    BY <1>7, <2>2, <2>3, Zenon DEF DrainRead, DrainReturns, ReadBatch
<1>8. CASE Send
  <2>1. PICK s \in chunk :
          /\ \A t \in chunk : s <= t
          /\ chunk' = chunk \ {s}
          /\ batch' = batch \cup {s}
          /\ sessCursor' = s
    BY <1>8, Zenon DEF Send
  <2>2. pc = "send" /\ UNCHANGED <<rows, cursor>>
    BY <1>8 DEF Send, bufferVars
  <2>3. s \in Nat /\ sessCursor < s
    BY <1>0 DEF ForwarderInv, SessionShape
  <2>4. ASSUME NEW r \in rows, cursor < r, r <= s
        PROVE  r \in batch \cup {s}
    <3>1. r \in Nat
      BY <1>0
    <3>2. CASE r <= sessCursor
      BY <3>2, <2>2, <2>4 DEF Covered
    <3>3. CASE sessCursor < r /\ r < s
      <4>1. r \in chunk
        BY <3>3, <2>4 DEF Covered
      <4>2. s <= r
        BY <4>1, <2>1, Zenon
      <4> QED
        BY <4>2, <3>1, <3>3, <2>3
    <3> QED
      BY <3>1, <3>2, <3>3, <2>3, <2>4, <1>0
  <2>5. ASSUME NEW c \in chunk', NEW r \in rows, s < r, r < c
        PROVE  r \in chunk'
    <3>1. r \in Nat /\ r # s /\ sessCursor < r
      BY <2>3, <2>5, <1>0
    <3> QED
      BY <3>1, <2>1, <2>5 DEF Covered
  <2> QED
    BY <2>1, <2>2, <2>4, <2>5, Zenon DEF Covered
<1>9. CASE CheckpointAcked
  <2>1. batch # {} /\ pc = "ckpt" /\ sessCursor' = NewCursor
        /\ UNCHANGED <<rows, cursor, batch, chunk>>
    BY <1>9 DEF CheckpointAcked, ForwarderInv, SessionShape, bufferVars
  <2>2. sessCursor' = sessCursor
    BY <2>1, NewCursorIsSessCursor
  <2> QED
    BY <2>1, <2>2, <1>5, Zenon
<1>10. CASE CheckpointAdvances
  <2>1. cursor' = sessCursor /\ UNCHANGED <<rows, sessCursor, chunk>>
    BY <1>10 DEF CheckpointAdvances, Advance
  <2>2. \A r \in rows : ~(sessCursor < r /\ r <= sessCursor)
    BY <1>0
  <2> QED
    BY <2>1, <2>2, Zenon DEF Covered
<1> QED
  BY <1>1, <1>2, <1>3, <1>4, <1>6, <1>7, <1>8, <1>9, <1>10, Zenon DEF Next, Uplink

\* The sets of the loss account are finite.
LEMMA LossTypes ==
    ASSUME ForwarderInv
    PROVE  /\ IsFiniteSet(EvictedLost) /\ Cardinality(EvictedLost) \in Nat
           /\ IsFiniteSet(PassedLost \cup Drifting)
           /\ Cardinality(PassedLost \cup Drifting) \in Nat
           /\ lostUnsent \in Nat /\ drift \in Nat
<1>1. IsFiniteSet(Frames)
  BY Types, IntervalCard DEF ForwarderInv, Frames
<1>2. EvictedLost \in SUBSET Frames /\ (PassedLost \cup Drifting) \in SUBSET Frames
  BY DEF ForwarderInv, TypeOK, EvictedLost, PassedLost, Drifting
<1>3. IsFiniteSet(EvictedLost) /\ IsFiniteSet(PassedLost \cup Drifting)
  BY <1>1, <1>2, FS_Subset
<1> QED
  BY <1>3, FS_CardinalityType DEF ForwarderInv, TypeOK, BufferTypeOK

\* A step that adds no lost frame and takes nothing off the counters.
LEMMA NothingNewLost ==
    ASSUME ForwarderInv, Counted, UNCHANGED <<lostUnsent, drift>>,
           EvictedLost' \subseteq EvictedLost,
           (PassedLost \cup Drifting)' \subseteq PassedLost \cup Drifting
    PROVE  Counted'
<1> DEFINE passed == PassedLost \cup Drifting
<1>1. /\ IsFiniteSet(EvictedLost) /\ Cardinality(EvictedLost) \in Nat
      /\ IsFiniteSet(passed) /\ Cardinality(passed) \in Nat
      /\ lostUnsent \in Nat /\ drift \in Nat
  BY LossTypes, Zenon
<1>2. Cardinality(EvictedLost') <= Cardinality(EvictedLost)
      /\ Cardinality(EvictedLost') \in Nat
  BY <1>1, FS_Subset, FS_CardinalityType, Zenon
<1>3. Cardinality(passed') <= Cardinality(passed) /\ Cardinality(passed') \in Nat
  <2> HIDE DEF passed
  <2>1. passed' \in SUBSET passed
    BY DEF passed
  <2> QED
    BY <2>1, <1>1, FS_Subset, FS_CardinalityType
<1>4. Cardinality(EvictedLost) <= lostUnsent /\ Cardinality(passed) <= drift
  BY DEF Counted
<1> HIDE DEF passed
<1>5. Cardinality(EvictedLost') <= lostUnsent' /\ Cardinality(passed') <= drift'
  BY <1>1, <1>2, <1>3, <1>4
<1> QED
  BY <1>5 DEF Counted, passed

\* Write: the frames it newly loses are its victims beyond the cursor, which it
\* adds to lostUnsent.
LEMMA WriteCounts ==
    ASSUME ForwarderInv, Counted, WriteFrame
    PROVE  Counted'
<1> DEFINE lost == {s \in Victims : s > cursor}
           passed == PassedLost \cup Drifting
<1>1. BufferTypeOK /\ RingInv /\ Write
  BY DEF ForwarderInv, TypeOK, WriteFrame
<1>2. /\ Inserted \ Victims = rows' /\ Victims \subseteq Inserted
      /\ lostUnsent' - lostUnsent = Cardinality(lost)
      /\ BufferTypeOK'
  BY <1>1, WriteOnRing, Zenon
<1>3. lastSeq' = lastSeq + 1 /\ cursor' = cursor /\ Inserted = rows \cup {lastSeq + 1}
  BY <1>1 DEF Write, Inserted
<1>4. UNCHANGED <<pc, batch, drift, delivered, lostAtBoot>> /\ dropped' = dropped \cup lost
  BY DEF WriteFrame, sessionVars
<1>5. lastSeq \in Nat /\ cursor \in Nat /\ cursor <= lastSeq
      /\ Frames' = Frames \cup {lastSeq + 1} /\ lostUnsent' \in Nat
      /\ IsFiniteSet(rows)
  <2>1. TypeOK
    BY DEF ForwarderInv
  <2> QED
    BY <2>1, Types, <1>2, <1>3 DEF Frames, BufferTypeOK
<1>6. IsFiniteSet(lost) /\ Cardinality(lost) \in Nat
  <2>1. IsFiniteSet(Inserted)
    BY <1>3, <1>5, FS_AddElement, Zenon
  <2>2. lost \in SUBSET Inserted
    BY <1>2
  <2>3. IsFiniteSet(lost)
    BY <2>1, <2>2, FS_Subset, Zenon
  <2> QED
    BY <2>3, FS_CardinalityType, Zenon
<1>7. /\ IsFiniteSet(EvictedLost) /\ Cardinality(EvictedLost) \in Nat
      /\ IsFiniteSet(passed) /\ Cardinality(passed) \in Nat
      /\ lostUnsent \in Nat /\ drift \in Nat
      /\ Cardinality(EvictedLost) <= lostUnsent /\ Cardinality(passed) <= drift
  BY LossTypes, Zenon DEF Counted
<1> HIDE DEF lost
<1>8. Cardinality(EvictedLost') <= lostUnsent'
  <2>1. EvictedLost' \in SUBSET (EvictedLost \cup lost)
    BY <1>4, Zenon DEF EvictedLost
  <2> DEFINE both == EvictedLost \cup lost
  <2>2. IsFiniteSet(both)
        /\ Cardinality(both) = Cardinality(EvictedLost) + Cardinality(lost)
                               - Cardinality(EvictedLost \cap lost)
    BY <1>6, <1>7, FS_Union
  <2>3. Cardinality(EvictedLost \cap lost) \in Nat
    BY <1>7, FS_Intersection, FS_CardinalityType, Zenon
  <2> HIDE DEF both
  <2>4. Cardinality(EvictedLost') <= Cardinality(both)
        /\ Cardinality(EvictedLost') \in Nat /\ Cardinality(both) \in Nat
    <3>1. EvictedLost' \in SUBSET both
      BY <2>1, Zenon DEF both
    <3> QED
      BY <3>1, <2>2, FS_Subset, FS_CardinalityType
  <2> QED
    BY <2>2, <2>3, <2>4, <1>2, <1>5, <1>6, <1>7
<1>9. Cardinality(passed') <= drift'
  <2>1. passed' \in SUBSET passed
    <3>1. Drifting' \subseteq Drifting
      BY <1>4 DEF Drifting
    <3>2. ASSUME NEW s \in PassedLost' PROVE s \in PassedLost
      <4>1. s \in Frames' /\ s \notin dropped' /\ s \notin Backlog'
            /\ s \notin lostAtBoot /\ s \notin delivered
        BY <1>4, Zenon DEF PassedLost
      <4>2. s # lastSeq + 1
        <5> SUFFICES ASSUME s = lastSeq + 1 PROVE FALSE
          OBVIOUS
        <5>1. s \in Inserted /\ s > cursor
          BY <1>3, <1>5
        <5> QED
          BY <5>1, <4>1, <1>2, <1>3, <1>4, Zenon DEF Backlog, lost
      <4>3. s \in Frames /\ s \notin dropped
        BY <4>1, <4>2, <1>4, <1>5, Zenon
      <4>4. s \notin Backlog
        <5> SUFFICES ASSUME s \in rows, s > cursor PROVE FALSE
          BY Zenon DEF Backlog
        <5> QED
          BY <4>1, <1>2, <1>3, <1>4, Zenon DEF Backlog, lost
      <4> QED
        BY <4>1, <4>3, <4>4 DEF PassedLost
    <3> QED
      BY <3>1, <3>2, Zenon
  <2> HIDE DEF passed
  <2>2. Cardinality(passed') <= Cardinality(passed) /\ Cardinality(passed') \in Nat
    BY <2>1, <1>7, FS_Subset, FS_CardinalityType, Zenon
  <2> QED
    BY <2>2, <1>4, <1>7
<1> QED
  BY <1>8, <1>9, Zenon DEF Counted

\* checkpoint: the frames of the batch that Building OS did not accept are at
\* most the drift that ApplyAck reports.
LEMMA AckCounts ==
    ASSUME ForwarderInv, Counted, CheckpointAcked
    PROVE  Counted'
<1> DEFINE passed == PassedLost \cup Drifting
<1>1. PICK A \in SUBSET batch :
        /\ delivered' = delivered \cup A
        /\ drift' = drift + Cardinality(Drifted(Cardinality(A)))
  BY Zenon DEF CheckpointAcked
<1>2. pc = "ckpt" /\ pc' = "advance"
      /\ UNCHANGED <<bufferVars, batch, dropped, lostAtBoot>>
  BY DEF CheckpointAcked
<1> DEFINE refused == batch \ A
           reported == Cardinality(Drifted(Cardinality(A)))
<1>3. IsFiniteSet(refused) /\ reported \in Nat /\ Cardinality(refused) <= reported
      /\ Cardinality(refused) \in Nat
  <2>1. batch \in SUBSET Nat /\ IsFiniteSet(batch)
    BY Types DEF ForwarderInv
  <2>2. IsFiniteSet(refused) /\ reported \in Nat /\ Cardinality(refused) <= reported
    BY <2>1, DriftCoversRefused, Zenon
  <2> QED
    BY <2>2, FS_CardinalityType
<1>4. /\ IsFiniteSet(EvictedLost) /\ Cardinality(EvictedLost) \in Nat
      /\ IsFiniteSet(passed) /\ Cardinality(passed) \in Nat
      /\ lostUnsent \in Nat /\ drift \in Nat
      /\ Cardinality(EvictedLost) <= lostUnsent /\ Cardinality(passed) <= drift
  BY LossTypes, Zenon DEF Counted
<1>5. Cardinality(EvictedLost') <= lostUnsent'
  <2>1. EvictedLost' \in SUBSET EvictedLost /\ lostUnsent' = lostUnsent
    BY <1>1, <1>2, Zenon DEF EvictedLost, bufferVars
  <2>2. Cardinality(EvictedLost') <= Cardinality(EvictedLost)
        /\ Cardinality(EvictedLost') \in Nat
    BY <2>1, <1>4, FS_Subset, FS_CardinalityType, Zenon
  <2> QED
    BY <2>1, <2>2, <1>4
<1>6. passed' \in SUBSET (passed \cup refused)
  BY <1>1, <1>2, Zenon DEF PassedLost, Drifting, Frames, Backlog, bufferVars
<1> HIDE DEF passed, refused, reported
<1>7. Cardinality(passed') <= drift'
  <2> DEFINE both == passed \cup refused
  <2>1. IsFiniteSet(both)
        /\ Cardinality(both) = Cardinality(passed) + Cardinality(refused)
                               - Cardinality(passed \cap refused)
    BY <1>3, <1>4, FS_Union, Zenon
  <2>2. Cardinality(passed \cap refused) \in Nat
    BY <1>4, FS_Intersection, FS_CardinalityType, Zenon
  <2> HIDE DEF both
  <2>3. Cardinality(passed') <= Cardinality(both)
        /\ Cardinality(passed') \in Nat /\ Cardinality(both) \in Nat
    <3>1. passed' \in SUBSET both
      BY <1>6 DEF both
    <3> QED
      BY <3>1, <2>1, FS_Subset, FS_CardinalityType, Zenon
  <2>4. drift' = drift + reported
    BY <1>1 DEF reported
  <2> QED
    BY <2>1, <2>2, <2>3, <2>4, <1>3, <1>4
<1> QED
  BY <1>5, <1>7, Zenon DEF Counted, passed

\* What the process lost before it started is not held against its successor.
LEMMA BootCounts ==
    ASSUME ForwarderInv, Boot
    PROVE  Counted'
<1>1. batch' = {} /\ pc' = "down" /\ lostAtBoot' = Lost' /\ drift' = 0 /\ lostUnsent' = 0
      /\ UNCHANGED <<rows, lastSeq, cursor, dropped>>
  BY DEF Boot, Reopen
<1>2. Lost' = Frames' \ (delivered' \cup Backlog')
  BY <1>1 DEF Lost
<1>3. EvictedLost' = {}
  <2>1. dropped \subseteq Frames /\ dropped \cap rows = {}
    BY DEF ForwarderInv, TypeOK, Accounted
  <2>2. Frames' = Frames /\ Backlog' \subseteq rows
    BY <1>1, Zenon DEF Frames, Backlog
  <2> QED
    BY <2>1, <2>2, <1>1, <1>2, Zenon DEF EvictedLost
<1>4. (PassedLost \cup Drifting)' = {}
  BY <1>1, <1>2 DEF PassedLost, Drifting
<1>5. Cardinality({}) = 0
  BY FS_EmptySet, Zenon
<1>6. Cardinality(EvictedLost') <= lostUnsent'
  BY <1>1, <1>3, <1>5
<1>7. Cardinality((PassedLost \cup Drifting)') <= drift'
  BY <1>1, <1>4, <1>5
<1> QED
  BY <1>6, <1>7, Zenon DEF Counted

LEMMA CountedInductive ==
    ASSUME ForwarderInv, Covered, Counted, [Next]_vars
    PROVE  Counted'
<1>0. cursor \in Nat /\ sessCursor \in Nat /\ rows \in SUBSET Nat
  BY Types DEF ForwarderInv
<1>1. CASE WriteFrame
  BY <1>1, WriteCounts
<1>2. CASE CheckpointAcked
  BY <1>2, AckCounts
<1>3. CASE Restart \/ Crash
  BY <1>3, BootCounts DEF Restart, Crash
<1>4. CASE CheckpointAdvances
  <2>1. pc = "advance" /\ cursor' = sessCursor
        /\ UNCHANGED <<rows, lastSeq, lostUnsent, drift, historyVars>>
    BY <1>4, Zenon DEF CheckpointAdvances, Advance
  <2>2. pc' # "advance"
    BY <1>4 DEF CheckpointAdvances, ForwarderInv, TypeOK, NextFrame
  <2>3. EvictedLost' = EvictedLost
    BY <2>1, Zenon DEF EvictedLost, historyVars
  <2>4. \A r \in Backlog : r \notin Backlog' => r \in batch
    <3> SUFFICES ASSUME NEW r \in rows, cursor < r, ~(r > sessCursor)
                 PROVE  r \in batch
      BY <2>1, <1>0 DEF Backlog
    <3>1. r <= sessCursor
      BY <1>0
    <3> QED
      BY <3>1, <2>1, Zenon DEF Covered
  <2>5. (PassedLost \cup Drifting)' \subseteq PassedLost \cup Drifting
    BY <2>1, <2>2, <2>4, Zenon DEF PassedLost, Drifting, Frames, historyVars
  <2> QED
    BY <2>1, <2>3, <2>5, NothingNewLost, Zenon
<1>5. ASSUME UNCHANGED <<rows, lastSeq, cursor, lostUnsent, drift, dropped, lostAtBoot>>,
             delivered \subseteq delivered',
             pc' = "advance" => pc = "advance" /\ batch' = batch
      PROVE  Counted'
  <2>1. EvictedLost' \subseteq EvictedLost
    BY <1>5, Zenon DEF EvictedLost
  <2>2. (PassedLost \cup Drifting)' \subseteq PassedLost \cup Drifting
    BY <1>5 DEF PassedLost, Drifting, Frames, Backlog
  <2> QED
    BY <2>1, <2>2, <1>5, NothingNewLost, Zenon
<1>6. ASSUME StreamBreaks PROVE delivered \subseteq delivered'
  BY <1>6, Zenon DEF StreamBreaks
<1>7. CASE RunCancelled \/ SendFails \/ CheckpointFails
  BY <1>7, <1>5, <1>6, Zenon DEF RunCancelled, SendFails, CheckpointFails, SessionFails,
     bufferVars
<1>8. CASE CheckpointAdvanceFails
  BY <1>8, <1>5, Zenon DEF CheckpointAdvanceFails, SessionFails, bufferVars, historyVars
<1>9. CASE NewSession \/ NewSessionCursorUnreadable
  BY <1>9, <1>5, Zenon DEF NewSession, NewSessionCursorUnreadable, OpenSession, bufferVars,
     historyVars
<1>10. CASE Tick \/ DrainOnNotify \/ DrainOnBackstop
  BY <1>10, <1>5, Zenon DEF Tick, DrainOnNotify, DrainOnBackstop, StartDrain, bufferVars,
     historyVars
<1>11. CASE DrainRead \/ DrainReadFails
  BY <1>11, <1>5, Zenon DEF DrainRead, DrainReadFails, DrainReturns, bufferVars, historyVars
<1>12. CASE Send
  <2>1. pc' # "advance"
    BY <1>12, Zenon DEF Send, NextFrame
  <2> QED
    BY <2>1, <1>12, <1>5, Zenon DEF Send, bufferVars
<1>13. CASE Stop \/ UNCHANGED vars
  BY <1>13, <1>5 DEF Stop, bufferVars, historyVars, sessionVars, vars
<1> QED
  BY <1>1, <1>2, <1>3, <1>4, <1>7, <1>8, <1>9, <1>10, <1>11, <1>12, <1>13, Zenon
     DEF Next, Uplink

LEMMA LossInvHolds == Spec => [](ForwarderInv /\ Covered /\ Counted)
<1>1. Init => Covered
  BY DEF Init, Open, Covered
<1>2. Init => Counted
  <2> SUFFICES ASSUME Init PROVE Counted
    OBVIOUS
  <2>1. EvictedLost = {} /\ PassedLost \cup Drifting = {}
    BY DEF Init, Open, EvictedLost, PassedLost, Drifting, Frames
  <2>2. Cardinality({}) = 0 /\ lostUnsent = 0 /\ drift = 0
    BY FS_EmptySet DEF Init, Open
  <2>3. Cardinality(EvictedLost) <= lostUnsent
    BY <2>1, <2>2
  <2>4. Cardinality(PassedLost \cup Drifting) <= drift
    BY <2>1, <2>2
  <2> QED
    BY <2>3, <2>4, Zenon DEF Counted
<1>3. ForwarderInv /\ Covered /\ Counted /\ [Next]_vars => Covered' /\ Counted'
  BY CoveredInductive, CountedInductive
<1> QED
  BY <1>1, <1>2, <1>3, InvInitially, InvInductive, PTL DEF Spec

\* For every capacity, checkpoint size and read limit, and whatever SQLite
\* failures (an unreadable cursor row included), broken streams, crashes and
\* restarts happen: a frame that Building OS does not have and that will not be
\* sent again was counted by the process that lost it, as an un-acked eviction
\* (Write) or as drift (ApplyAck).
THEOREM LossCounted == Spec => []NoUncountedLoss
<1>1. ASSUME ForwarderInv, Counted PROVE NoUncountedLoss
  <2> DEFINE passed == PassedLost \cup Drifting
             gone == Lost \ lostAtBoot
             both == EvictedLost \cup passed
  <2>1. /\ IsFiniteSet(EvictedLost) /\ Cardinality(EvictedLost) \in Nat
        /\ IsFiniteSet(passed) /\ Cardinality(passed) \in Nat
        /\ lostUnsent \in Nat /\ drift \in Nat
        /\ Cardinality(EvictedLost) <= lostUnsent /\ Cardinality(passed) <= drift
    BY <1>1, LossTypes DEF Counted
  <2>2. gone \in SUBSET both
    BY Zenon DEF Lost, EvictedLost, PassedLost
  <2> HIDE DEF passed, gone
  <2>3. IsFiniteSet(both)
        /\ Cardinality(both) = Cardinality(EvictedLost) + Cardinality(passed)
                               - Cardinality(EvictedLost \cap passed)
    BY <2>1, FS_Union
  <2>4. Cardinality(EvictedLost \cap passed) \in Nat
    BY <2>1, FS_Intersection, FS_CardinalityType, Zenon
  <2> HIDE DEF both
  <2>5. Cardinality(gone) <= Cardinality(both)
        /\ Cardinality(gone) \in Nat /\ Cardinality(both) \in Nat
    BY <2>2, <2>3, FS_Subset, FS_CardinalityType, Zenon
  <2>6. Cardinality(gone) <= lostUnsent + drift
    BY <2>1, <2>3, <2>4, <2>5
  <2> QED
    BY <2>6, Zenon DEF NoUncountedLoss, gone
<1> QED
  BY <1>1, LossInvHolds, PTL

LEMMA BatchBoundedInductive ==
    ASSUME ForwarderInv, BatchBounded, [Next]_vars
    PROVE  BatchBounded'
<1> DEFINE size == Cardinality(batch)
<1>0. IsFiniteSet(batch) /\ size \in Nat /\ CheckpointSize \in Nat \ {0}
      /\ Cardinality({}) = 0
  <2>1. IsFiniteSet(batch)
    BY Types, Zenon DEF ForwarderInv
  <2> QED
    BY <2>1, FS_CardinalityType, FS_EmptySet, CheckpointSizeAssumption, Zenon
<1>1. ASSUME batch' = {} PROVE BatchBounded'
  <2>1. Cardinality(batch') = 0
    BY <1>0, <1>1
  <2>2. Cardinality(batch') < CheckpointSize /\ Cardinality(batch') <= CheckpointSize
    BY <2>1, <1>0
  <2> QED
    BY <2>2 DEF BatchBounded
<1>2. CASE NewSession \/ NewSessionCursorUnreadable
  BY <1>2, <1>1, Zenon DEF NewSession, NewSessionCursorUnreadable, OpenSession, ForwarderInv,
     SessionShape
<1>3. CASE RunCancelled \/ SendFails \/ CheckpointFails \/ CheckpointAdvanceFails
           \/ CheckpointAdvances \/ Restart \/ Crash
  BY <1>3, <1>1, Zenon DEF RunCancelled, SendFails, CheckpointFails, CheckpointAdvanceFails,
     SessionFails, CheckpointAdvances, Restart, Crash, Boot
<1>4. ASSUME batch' = batch, pc \in {"select", "read"}, pc' \notin {"advance"}
      PROVE  BatchBounded'
  <2>1. size < CheckpointSize
    BY <1>4 DEF BatchBounded
  <2>2. size < CheckpointSize /\ size <= CheckpointSize
    BY <2>1, <1>0, SMTT(20), Zenon
  <2> QED
    BY <2>2, <1>4 DEF BatchBounded
<1>5. CASE Tick \/ DrainOnNotify \/ DrainOnBackstop \/ DrainRead \/ DrainReadFails
  BY <1>5, <1>4, Zenon DEF Tick, DrainOnNotify, DrainOnBackstop, StartDrain, DrainRead,
     DrainReadFails, DrainReturns
<1>6. CASE Send
  <2>1. PICK s \in chunk : batch' = batch \cup {s}
    BY <1>6, Zenon DEF Send
  <2>2. Cardinality(batch') \in Nat /\ Cardinality(batch') <= size + 1
    BY <2>1, <1>0, FS_AddElement
  <2>3. size < CheckpointSize
    BY <1>6, Zenon DEF Send, BatchBounded
  <2>4. Cardinality(batch') <= CheckpointSize
    BY <2>2, <2>3, <1>0
  <2>5. CASE Cardinality(batch') >= CheckpointSize
    <3>1. pc' = "ckpt"
      BY <1>6, <2>5, Zenon DEF Send, BatchFull
    <3> QED
      BY <3>1, <2>4, Zenon DEF BatchBounded
  <2>6. CASE Cardinality(batch') < CheckpointSize
    BY <2>6, <2>4, Zenon DEF BatchBounded
  <2> QED
    BY <2>2, <2>5, <2>6, <1>0
<1>7. CASE CheckpointAcked
  BY <1>7, Zenon DEF CheckpointAcked, BatchBounded
<1>8. CASE WriteFrame \/ Stop \/ UNCHANGED vars
  BY <1>8 DEF WriteFrame, Stop, sessionVars, vars, BatchBounded
<1> QED
  BY <1>2, <1>3, <1>5, <1>6, <1>7, <1>8, Zenon DEF Next, Uplink

ReachBounded == Cardinality(Reached) <= CheckpointSize

\* A step that reaches no further row.
LEMMA NoneReached ==
    ASSUME ForwarderInv, ReachBounded, Reached' \subseteq Reached
    PROVE  ReachBounded'
<1>1. IsFiniteSet(Reached)
  <2>1. IsFiniteSet(rows) /\ Reached \in SUBSET rows
    BY Types, Zenon DEF ForwarderInv, Reached, Backlog
  <2> QED
    BY <2>1, FS_Subset, Zenon
<1>2. Cardinality(Reached') <= Cardinality(Reached)
      /\ Cardinality(Reached') \in Nat /\ Cardinality(Reached) \in Nat
  BY <1>1, FS_Subset, FS_CardinalityType
<1> QED
  BY <1>2, CheckpointSizeAssumption DEF ReachBounded

LEMMA ReachInductive ==
    ASSUME "cursorRead" \notin Faults, ForwarderInv, SessionAhead, Covered,
           BatchBounded, ReachBounded, [Next]_vars
    PROVE  ReachBounded'
<1>0. /\ lastSeq \in Nat /\ cursor \in Nat /\ sessCursor \in Nat
      /\ rows \in SUBSET Nat /\ chunk \in SUBSET Nat /\ IsFiniteSet(batch)
      /\ offered \subseteq Frames /\ rows \subseteq Frames
  BY Types DEF ForwarderInv, TypeOK, BufferTypeOK, Frames
<1>1. CASE WriteFrame
  <2>1. rows' \subseteq rows \cup {lastSeq + 1} /\ UNCHANGED <<cursor, offered>>
    BY <1>1 DEF WriteFrame, Write, Inserted
  <2>2. \A o \in offered : ~(lastSeq + 1 <= o)
    BY <1>0 DEF Frames
  <2>3. Reached' \subseteq Reached
    BY <2>1, <2>2, Zenon DEF Reached, Backlog
  <2> QED
    BY <2>3, NoneReached, Zenon
<1>2. CASE CheckpointAdvances
  <2>1. cursor' = sessCursor /\ sessCursor >= cursor /\ UNCHANGED <<rows, offered>>
    BY <1>2 DEF CheckpointAdvances, Advance, SessionAhead, historyVars
  <2>2. \A r \in rows : r > sessCursor => r > cursor
    BY <2>1, <1>0
  <2>3. Reached' \subseteq Reached
    BY <2>1, <2>2 DEF Reached, Backlog
  <2> QED
    BY <2>3, NoneReached
<1>3. CASE Send
  <2>1. PICK s \in chunk :
          /\ \A t \in chunk : s <= t
          /\ batch' = batch \cup {s}
          /\ offered' = offered \cup {s}
          /\ sessCursor' = s
    BY <1>3, Zenon DEF Send
  <2>2. pc = "send" /\ UNCHANGED <<rows, cursor>> /\ s \in Nat
    BY <1>3, <1>0 DEF Send, bufferVars
  <2>3. CASE \E o \in offered : s <= o
    <3>1. PICK o \in offered : s <= o
      BY <2>3, Zenon
    <3>2. \A r \in rows : r <= s => r <= o
      BY <3>1, <2>2, <1>0 DEF Frames
    <3>3. Reached' \subseteq Reached
      BY <3>1, <3>2, <2>1, <2>2, Zenon DEF Reached, Backlog
    <3> QED
      BY <3>3, NoneReached
  <2>4. CASE \A o \in offered : ~(s <= o)
    <3>1. Covered'
      BY CoveredInductive, Zenon
    <3>2. pc' \notin {"down", "exit"}
      BY <1>3, Zenon DEF Send, NextFrame
    <3>3. \A r \in rows : (\E o \in offered' : r <= o) => r <= s
      BY <2>1, <2>2, <2>4, <1>0 DEF Frames
    <3>4. Reached' \in SUBSET batch'
      BY <3>1, <3>2, <3>3, <2>1, <2>2, Zenon DEF Covered, Reached, Backlog
    <3>5. IsFiniteSet(batch')
      BY <2>1, <1>0, FS_AddElement, Zenon
    <3>6. Cardinality(Reached') <= Cardinality(batch')
          /\ Cardinality(Reached') \in Nat /\ Cardinality(batch') \in Nat
      BY <3>4, <3>5, FS_Subset, FS_CardinalityType, Zenon
    <3>7. BatchBounded' /\ pc' \in {"read", "send", "ckpt"}
      BY <1>3, BatchBoundedInductive, Zenon DEF Send, NextFrame
    <3>8. Cardinality(batch') <= CheckpointSize
      BY <3>6, <3>7, CheckpointSizeAssumption DEF BatchBounded
    <3> QED
      BY <3>6, <3>8, CheckpointSizeAssumption DEF ReachBounded
  <2> QED
    BY <2>3, <2>4, Zenon
<1>4. ASSUME UNCHANGED <<rows, cursor, offered>> PROVE ReachBounded'
  BY <1>4, NoneReached, Zenon DEF Reached, Backlog
<1>5. CASE NewSession \/ NewSessionCursorUnreadable \/ Tick \/ DrainOnNotify
           \/ DrainOnBackstop \/ DrainRead \/ DrainReadFails \/ CheckpointAdvanceFails
           \/ Stop \/ UNCHANGED vars
  BY <1>4, <1>5, Zenon DEF NewSession, NewSessionCursorUnreadable, OpenSession, Tick,
     DrainOnNotify, DrainOnBackstop, StartDrain, DrainRead, DrainReadFails,
     CheckpointAdvanceFails, Stop, bufferVars, historyVars, vars
<1>6. CASE RunCancelled \/ SendFails \/ CheckpointFails \/ CheckpointAcked \/ Restart
           \/ Crash
  BY <1>4, <1>6 DEF RunCancelled, SendFails, CheckpointFails, CheckpointAcked, Restart,
     Crash, Boot, Reopen, bufferVars
<1> QED
  BY <1>1, <1>2, <1>3, <1>5, <1>6, Zenon DEF Next, Uplink

\* The duplicate window of ADR-0002 for every capacity and checkpoint size: as
\* long as SQLite can read the cursor row, the rows a next session sends a second
\* time are never more than one checkpoint batch, however many sessions broke and
\* processes ended before it, and whatever was evicted in between (drain,
\* checkpoint, newSession).
THEOREM DuplicateWindow ==
    ASSUME "cursorRead" \notin Faults
    PROVE  Spec => []ReplayBounded
<1> DEFINE Inv == ForwarderInv /\ SessionAhead /\ Covered /\ BatchBounded /\ ReachBounded
<1>1. Init => Inv
  <2> SUFFICES ASSUME Init PROVE Inv
    OBVIOUS
  <2>1. SessionAhead /\ Covered
    BY DEF Init, Open, SessionAhead, Covered
  <2>2. BatchBounded
    BY DEF Init, BatchBounded
  <2>3. ReachBounded
    <3>1. Reached = {}
      BY DEF Init, Open, Reached, Backlog
    <3>2. Cardinality(Reached) = 0
      BY <3>1, FS_EmptySet, Zenon
    <3> QED
      BY <3>2, CheckpointSizeAssumption DEF ReachBounded
  <2> QED
    BY <2>1, <2>2, <2>3, InvInitially
<1>2. Inv /\ [Next]_vars => Inv'
  BY InvInductive, AheadInductive, CoveredInductive, BatchBoundedInductive, ReachInductive, Zenon
<1>3. ASSUME Inv PROVE ReplayBounded
  <2>1. (Backlog \cap offered) \in SUBSET Reached
    <3>1. offered \subseteq Nat
      BY <1>3, Types DEF ForwarderInv, TypeOK, Frames
    <3>2. \A r \in offered : r <= r
      BY <3>1
    <3> QED
      BY <3>2, Zenon DEF Reached
  <2>2. IsFiniteSet(Reached)
    <3>1. IsFiniteSet(rows) /\ Reached \in SUBSET rows
      BY <1>3, Types, Zenon DEF ForwarderInv, Reached, Backlog
    <3> QED
      BY <3>1, FS_Subset, Zenon
  <2>3. Cardinality(Backlog \cap offered) <= Cardinality(Reached)
        /\ Cardinality(Backlog \cap offered) \in Nat /\ Cardinality(Reached) \in Nat
    BY <2>1, <2>2, FS_Subset, FS_CardinalityType
  <2> QED
    BY <2>3, <1>3, CheckpointSizeAssumption DEF ReachBounded, ReplayBounded
<1> QED
  BY <1>1, <1>2, <1>3, PTL DEF Spec

=============================================================================
