---------------------------- MODULE IngestProofs ----------------------------
(***************************************************************************)
(* WindowExact and RecentRemembered of the redelivery window for every     *)
(* span and every set of sequences; then AckedMeansWritten,                *)
(* WrittenOnceInWindow and HandNeverBlocks of the ingest path for every    *)
(* set of messages, span, channel capacity and delivery limit; and a bound *)
(* on the rows a message may have in the buffer.                           *)
(***************************************************************************)
EXTENDS Ingest, FiniteSetTheorems, TLAPS

-----------------------------------------------------------------------------
(* The slots of the window.                                                *)

LEMMA DivMod ==
    ASSUME NEW a \in Nat
    PROVE  /\ a % N \in Slots
           /\ a \div N \in Nat
           /\ a = N * (a \div N) + (a % N)
BY SpanAssumption DEF Slots

\* Two sequences less than N apart have different slots.
LEMMA SlotInjective ==
    ASSUME NEW a \in Nat, NEW b \in Nat, b <= a, a - b < N, Slot(a) = Slot(b)
    PROVE  a = b
<1> DEFINE p == a \div N
           q == b \div N
           r == a % N
<1>1. a = N * p + r /\ b = N * q + r /\ p \in Nat /\ q \in Nat /\ r \in Nat
  BY DivMod DEF Slot, Slots
<1>2. a - b = N * (p - q)
  BY <1>1, SpanAssumption
<1>3. CASE p <= q
  BY <1>1, <1>2, <1>3, SpanAssumption
<1>4. CASE p > q
  <2>1. p - q >= 1
    BY <1>1, <1>4
  <2>2. N * (p - q) >= N
    BY <1>1, <2>1, SpanAssumption
  <2> QED
    BY <1>2, <2>2, SpanAssumption
<1> QED
  BY <1>1, <1>3, <1>4

\* Sequences N apart share a slot.
LEMMA SlotWraps ==
    ASSUME NEW a \in Nat, N <= a
    PROVE  Slot(a - N) = Slot(a)
<1> DEFINE p == a \div N
           q == (a - N) \div N
           r == a % N
           u == (a - N) % N
<1>1. /\ a - N \in Nat
      /\ a = N * p + r /\ p \in Nat /\ r \in 0..(N - 1)
  BY DivMod, SpanAssumption DEF Slots
<1>2. a - N = N * q + u /\ q \in Nat /\ u \in 0..(N - 1)
  BY <1>1, DivMod DEF Slots
<1>3. N * (p - 1 - q) = u - r
  BY <1>1, <1>2, SpanAssumption
<1>4. CASE p - 1 > q
  <2>1. p - 1 - q >= 1
    BY <1>1, <1>2, <1>4
  <2>2. N * (p - 1 - q) >= N
    BY <1>1, <1>2, <2>1, SpanAssumption
  <2> QED
    BY <1>1, <1>2, <1>3, <2>2, SpanAssumption
<1>5. CASE p - 1 < q
  <2>1. p - 1 - q <= -1
    BY <1>1, <1>2, <1>5
  <2>2. N * (p - 1 - q) <= -N
    BY <1>1, <1>2, <2>1, SpanAssumption
  <2> QED
    BY <1>1, <1>2, <1>3, <2>2, SpanAssumption
<1>6. CASE p - 1 = q
  BY <1>1, <1>2, <1>3, <1>6, SpanAssumption DEF Slot
<1> QED
  BY <1>1, <1>2, <1>4, <1>5, <1>6

-----------------------------------------------------------------------------
(* What the operations of the window do to the sequences it remembers.     *)

LEMMA RaiseContains ==
    ASSUME NEW w \in Windows, NEW s \in Nat, Covers(w, s)
    PROVE  /\ Raise(w, s) \in Windows
           /\ Raise(w, s).base = w.base
           /\ \A t \in Nat : Contains(Raise(w, s), t) <=> Contains(w, t) \/ t = s
<1>1. /\ Raise(w, s) \in Windows
      /\ Raise(w, s).base = w.base
      /\ Raise(w, s).bits = w.bits \cup {Slot(s)}
  BY DivMod DEF Windows, Raise, Slot
<1>2. ASSUME NEW t \in Nat, Contains(Raise(w, s), t), ~Contains(w, t)
      PROVE  t = s
  <2>1. Slot(t) = Slot(s) /\ Covers(w, t)
    BY <1>1, <1>2 DEF Contains, Covers
  <2>2. t <= s \/ s <= t
    OBVIOUS
  <2> QED
    BY <2>1, <2>2, SlotInjective, SpanAssumption DEF Covers, Windows
<1>3. ASSUME NEW t \in Nat, Contains(w, t) \/ t = s
      PROVE  Contains(Raise(w, s), t)
  BY <1>1, <1>3 DEF Contains, Covers
<1> QED
  BY <1>1, <1>2, <1>3

LEMMA SlideContains ==
    ASSUME NEW w \in Windows, NEW b \in Nat, w.base <= b
    PROVE  /\ Slide(w, b) \in Windows
           /\ Slide(w, b).base = b
           /\ \A t \in Nat : Contains(w, t) /\ b <= t => Contains(Slide(w, b), t)
           /\ \A t \in Nat : Contains(Slide(w, b), t) /\ t < w.base + N => Contains(w, t)
           /\ \A t \in Nat : w.base + N <= t => ~Contains(Slide(w, b), t)
<1>1. /\ Slide(w, b) \in Windows
      /\ Slide(w, b).base = b
      /\ w.base \in Nat
  BY DEF Windows, Slide
<1>2. CASE b - w.base >= N
  BY <1>1, <1>2, SpanAssumption DEF Slide, Contains, Covers
<1>3. CASE b - w.base < N
  <2>1. Slide(w, b).bits = w.bits \ {Slot(s) : s \in w.base..(b - 1)}
    BY <1>1, <1>3, SpanAssumption DEF Slide
  <2>2. ASSUME NEW t \in Nat, Contains(w, t), b <= t
        PROVE  Contains(Slide(w, b), t)
    <3>1. ASSUME NEW s \in w.base..(b - 1), Slot(s) = Slot(t)
          PROVE  FALSE
      BY <1>1, <2>2, <3>1, SlotInjective, SpanAssumption DEF Contains, Covers
    <3> QED
      BY <1>1, <2>1, <2>2, <3>1, SpanAssumption DEF Contains, Covers
  <2>3. ASSUME NEW t \in Nat, Contains(Slide(w, b), t), t < w.base + N
        PROVE  Contains(w, t)
    BY <1>1, <2>1, <2>3, SpanAssumption DEF Contains, Covers
  <2>4. ASSUME NEW t \in Nat, w.base + N <= t, Contains(Slide(w, b), t)
        PROVE  FALSE
    <3>1. t < b + N
      BY <1>1, <2>4, SpanAssumption DEF Contains, Covers
    <3>2. t - N \in w.base..(b - 1) /\ t - N \in Nat
      BY <1>1, <2>4, <3>1, SpanAssumption
    <3>3. Slot(t - N) = Slot(t)
      BY <3>2, SlotWraps, SpanAssumption
    <3> QED
      BY <1>1, <2>1, <2>4, <3>2, <3>3 DEF Contains
  <2> QED
    BY <1>1, <2>2, <2>3, <2>4
<1> QED
  BY <1>1, <1>2, <1>3, SpanAssumption

LEMMA AddContains ==
    ASSUME NEW w \in Windows, NEW s \in Nat
    PROVE  /\ Add(w, s) \in Windows
           /\ w.base <= Add(w, s).base
           /\ Add(w, s).base # w.base => Add(w, s).base = s - N + 1
           /\ s < Add(w, s).base + N
           /\ \A t \in Nat : Covers(Add(w, s), t) =>
                 (Contains(Add(w, s), t) <=> Contains(w, t) \/ t = s)
<1>1. w.base \in Nat
  BY DEF Windows
<1>2. CASE s < w.base
  BY <1>1, <1>2, SpanAssumption DEF Add, Contains, Covers
<1>3. CASE w.base <= s /\ s - w.base < N
  <2>1. Add(w, s) = Raise(w, s) /\ Covers(w, s)
    BY <1>1, <1>3, SpanAssumption DEF Add, Covers
  <2> QED
    BY <1>1, <1>3, <2>1, RaiseContains, SpanAssumption
<1>4. CASE w.base <= s /\ s - w.base >= N
  <2> DEFINE b == s - N + 1
             v == Slide(w, b)
  <2>1. Add(w, s) = Raise(v, s) /\ b \in Nat /\ w.base < b
    BY <1>1, <1>4, SpanAssumption DEF Add
  <2> HIDE DEF b
  <2>2. /\ v \in Windows /\ v.base = b
        /\ \A t \in Nat : Contains(w, t) /\ b <= t => Contains(v, t)
        /\ \A t \in Nat : Contains(v, t) /\ t < w.base + N => Contains(w, t)
        /\ \A t \in Nat : w.base + N <= t => ~Contains(v, t)
    BY <1>1, <2>1, SlideContains
  <2> HIDE DEF v
  <2>3. Covers(v, s)
    BY <1>1, <2>1, <2>2, SpanAssumption DEF Covers, b
  <2>4. /\ Raise(v, s) \in Windows
        /\ Raise(v, s).base = b
        /\ \A t \in Nat : Contains(Raise(v, s), t) <=> Contains(v, t) \/ t = s
    BY <2>2, <2>3, RaiseContains
  <2>5. ASSUME NEW t \in Nat, Covers(Raise(v, s), t)
        PROVE  Contains(v, t) <=> Contains(w, t)
    BY <1>1, <2>1, <2>2, <2>4, <2>5, SpanAssumption DEF Covers
  <2> QED
    BY <1>1, <2>1, <2>4, <2>5, SpanAssumption DEF b
<1> QED
  BY <1>1, <1>2, <1>3, <1>4, SpanAssumption

-----------------------------------------------------------------------------
(* The inductive invariant: every insert is below the top of the window,   *)
(* and the base is where one of them put it.                               *)

BelowTop == \A t \in added : t < win.base + N

BaseReached == win.base = 0 \/ \E t \in added : win.base = t - N + 1

WindowInv == WindowTypeOK /\ WindowExact /\ BelowTop /\ BaseReached

LEMMA WindowInvInductive == WindowInv /\ [WindowNext]_windowVars => WindowInv'
<1> SUFFICES ASSUME WindowInv, [WindowNext]_windowVars
             PROVE  WindowInv'
  OBVIOUS
<1> USE SeqsAssumption, SpanAssumption
<1>1. ASSUME NEW s \in Seqs, Insert(s)
      PROVE  WindowInv'
  <2>1. win \in Windows /\ win.base \in Nat /\ s \in Nat
    BY DEF WindowInv, WindowTypeOK, Windows
  <2>2. /\ win' \in Windows
        /\ win'.base \in Nat
        /\ win.base <= win'.base
        /\ win'.base # win.base => win'.base = s - N + 1
        /\ s < win'.base + N
        /\ \A t \in Nat : Covers(win', t) =>
              (Contains(win', t) <=> Contains(win, t) \/ t = s)
    BY <1>1, <2>1, AddContains, Zenon DEF Insert, Windows
  <2>3. WindowTypeOK'
    BY <1>1, <2>2 DEF WindowInv, WindowTypeOK, Insert
  <2>4. BaseReached'
    BY <1>1, <2>1, <2>2 DEF WindowInv, BaseReached, Insert
  <2>5. ASSUME NEW t \in Seqs
        PROVE  Contains(win', t) <=> t \in added' /\ Covers(win', t)
    <3>1. Contains(win', t) => Covers(win', t)
      BY DEF Contains
    <3>2. CASE Covers(win', t)
      <4>1. Contains(win, t) <=> t \in added /\ Covers(win, t)
        BY DEF WindowInv, WindowExact
      <4>2. t \in added /\ t # s => Covers(win, t)
        BY <2>1, <2>2, <3>2 DEF Covers, WindowInv, BelowTop
      <4> QED
        BY <1>1, <2>2, <3>2, <4>1, <4>2 DEF Insert
    <3> QED
      BY <3>1, <3>2
  <2>6. BelowTop'
    <3> SUFFICES ASSUME NEW t \in added'
                 PROVE  t < win'.base + N
      BY DEF BelowTop
    <3>1. t \in Nat /\ (t = s \/ t < win.base + N)
      BY <1>1, <2>1 DEF WindowInv, WindowTypeOK, BelowTop, Insert
    <3> QED
      BY <2>1, <2>2, <3>1
  <2> QED
    BY <2>3, <2>4, <2>5, <2>6 DEF WindowInv, WindowExact
<1>2. CASE UNCHANGED windowVars
  BY <1>2, Zenon DEF windowVars, WindowInv, WindowTypeOK, WindowExact, BelowTop,
              BaseReached, Contains, Covers
<1> QED
  BY <1>1, <1>2 DEF WindowNext

LEMMA WindowInvHolds == WindowSpec => []WindowInv
<1>1. WindowInit => WindowInv
  <2> SUFFICES ASSUME WindowInit
               PROVE  WindowInv
    OBVIOUS
  <2>1. win \in Windows /\ win.base = 0 /\ win.bits = {} /\ added = {}
    BY DEF WindowInit, NewWindow, Windows
  <2> QED
    BY <2>1 DEF WindowInv, WindowTypeOK, WindowExact, BelowTop, BaseReached,
                Contains
<1> QED
  BY <1>1, WindowInvInductive, PTL DEF WindowSpec

\* The bitmap of seqWindow is exact for every span and every order of inserts:
\* contains never mistakes one stream sequence for another and never forgets one
\* the window covers.
THEOREM WindowIsExact == WindowSpec => []WindowExact
<1>1. WindowInv => WindowExact
  BY DEF WindowInv
<1> QED
  BY <1>1, WindowInvHolds, PTL

\* A sequence inserted within the last N stream sequences is recognised: the
\* promise of dedupWindowSeqs.
THEOREM WindowRemembersRecent == WindowSpec => []RecentRemembered
<1>1. WindowInv => RecentRemembered
  <2> SUFFICES ASSUME WindowInv, NEW s \in added, \A t \in added : t - s < N
               PROVE  Contains(win, s)
    BY DEF RecentRemembered
  <2> USE SeqsAssumption, SpanAssumption
  <2>1. s \in Seqs /\ s \in Nat /\ win.base \in Nat /\ added \subseteq Nat
    BY DEF WindowInv, WindowTypeOK, Windows
  <2>2. win.base <= s
    BY <2>1 DEF WindowInv, BaseReached
  <2>3. s < win.base + N
    BY DEF WindowInv, BelowTop
  <2> QED
    BY <2>1, <2>2, <2>3 DEF WindowInv, WindowExact, Covers
<1> QED
  BY <1>1, WindowInvHolds, PTL

-----------------------------------------------------------------------------
(* The ingest path.                                                        *)

\* What the window remembers, this process wrote under a known sequence.
AddedWritten == \A m \in added : written[m] > 0 /\ m \notin Unsequenced

IngestInv ==
    /\ IngestTypeOK
    /\ WindowInv
    /\ AddedWritten
    /\ AckedMeansWritten
    /\ HandNeverBlocks

LEMMA MsgsAreNat == Msgs \subseteq Nat /\ 0 \notin Msgs
BY SeqsAssumption, MsgsAssumption DEF Msgs

\* A fetched batch is a sequence of messages.
LEMMA FetchedSeq ==
    ASSUME NEW k \in Nat, NEW batch \in [1..k -> Msgs]
    PROVE  batch \in Seq(Msgs) /\ Len(batch) = k
OBVIOUS

LEMMA IngestInitially == IngestInit => IngestInv
<1> SUFFICES ASSUME IngestInit
             PROVE  IngestInv
  OBVIOUS
<1>1. WindowInv
  <2>1. win \in Windows /\ win.base = 0 /\ win.bits = {} /\ added = {}
    BY DEF IngestInit, WindowInit, NewWindow, Windows
  <2> QED
    BY <2>1 DEF WindowInv, WindowTypeOK, WindowExact, BelowTop, BaseReached,
                Contains
<1>2. IngestTypeOK
  BY DEF IngestInit, IngestTypeOK, JsStates
<1>3. AddedWritten /\ AckedMeansWritten /\ HandNeverBlocks
  BY ChanCapAssumption DEF IngestInit, WindowInit, AddedWritten,
     AckedMeansWritten, HandNeverBlocks
<1> QED
  BY <1>1, <1>2, <1>3 DEF IngestInv

\* Steps that leave the window alone keep its invariant.
LEMMA WindowKept ==
    ASSUME WindowInv, UNCHANGED <<win, added>>
    PROVE  WindowInv'
BY WindowInvInductive DEF windowVars

-----------------------------------------------------------------------------
(* One lemma per action; each names what the action can disturb.           *)

LEMMA PublishKeeps ==
    ASSUME IngestInv, NEW m \in Msgs, Publish(m) \/ AckWaitExpires(m)
    PROVE  IngestInv'
<1>1. /\ js' \in [Msgs -> JsStates]
      /\ \A n \in Msgs : js'[n] = "acked" => js[n] = "acked"
  BY Zenon DEF IngestInv, IngestTypeOK, Publish, AckWaitExpires, Returned, JsStates
<1>2. UNCHANGED <<hand, frames, mid, fanIn, written, win, added>>
  BY DEF Publish, AckWaitExpires
<1> QED
  BY <1>1, <1>2, WindowKept DEF IngestInv, IngestTypeOK, AddedWritten,
     AckedMeansWritten, HandNeverBlocks

LEMMA FetchKeeps ==
    ASSUME IngestInv, NEW k \in 1..FetchBatch, NEW batch \in [1..k -> Msgs],
           Fetch(batch)
    PROVE  IngestInv'
<1>1. batch \in Seq(Msgs) /\ Len(batch) = k /\ k \in Nat
  BY FetchedSeq, FetchBatchAssumption
<1>2. /\ js' \in [Msgs -> JsStates]
      /\ \A n \in Msgs : js'[n] = "acked" => js[n] = "acked"
  BY DEF IngestInv, IngestTypeOK, Fetch, JsStates
<1>3. hand' \in Seq(Msgs) /\ Len(hand') + Len(frames) <= ChanCap
  <2>1. Len(frames) \in Nat
    BY DEF IngestInv, IngestTypeOK
  <2> QED
    BY <1>1, <2>1, ChanCapAssumption DEF Fetch, Room
<1>4. UNCHANGED <<frames, mid, fanIn, written, win, added>>
  BY DEF Fetch
<1> QED
  BY <1>2, <1>3, <1>4, WindowKept, Zenon DEF IngestInv, IngestTypeOK, AddedWritten,
     AckedMeansWritten, HandNeverBlocks

LEMMA HandKeeps ==
    ASSUME IngestInv, Reject \/ HandOn \/ NakOnStop
    PROVE  IngestInv'
<1>1. /\ js' \in [Msgs -> JsStates]
      /\ \A n \in Msgs : js'[n] = "acked" => js[n] = "acked"
  BY Zenon DEF IngestInv, IngestTypeOK, Reject, HandOn, NakOnStop, Term, Nak, Returned,
         JsStates
<1>2. /\ hand # <<>>
      /\ hand \in Seq(Msgs) /\ frames \in Seq(Msgs)
      /\ Head(hand) \in Msgs /\ Tail(hand) \in Seq(Msgs)
      /\ Len(Tail(hand)) = Len(hand) - 1
      /\ Len(hand) \in Nat /\ Len(frames) \in Nat
  BY DEF IngestInv, IngestTypeOK, Reject, HandOn, NakOnStop
<1>3. /\ hand' \in Seq(Msgs) /\ frames' \in Seq(Msgs)
      /\ Len(hand') + Len(frames') <= ChanCap
  <2>1. CASE Reject
    BY <1>2, <2>1, ChanCapAssumption DEF Reject, IngestInv, HandNeverBlocks
  <2>2. CASE HandOn
    BY <1>2, <2>2, ChanCapAssumption DEF HandOn, IngestInv, HandNeverBlocks
  <2>3. CASE NakOnStop
    BY <1>2, <2>3, ChanCapAssumption DEF NakOnStop, IngestInv, HandNeverBlocks
  <2> QED
    BY <2>1, <2>2, <2>3
<1>4. UNCHANGED <<mid, fanIn, written, win, added>>
  BY DEF Reject, HandOn, NakOnStop
<1> QED
  BY <1>1, <1>3, <1>4, WindowKept DEF IngestInv, IngestTypeOK, AddedWritten,
     AckedMeansWritten, HandNeverBlocks

LEMMA FanOutKeeps ==
    ASSUME IngestInv, FanOutTake \/ FanOutPut
    PROVE  IngestInv'
<1>1. /\ frames' \in Seq(Msgs) /\ fanIn' \in Seq(Msgs)
      /\ mid' \in Msgs \cup {0}
      /\ Len(hand) + Len(frames') <= ChanCap
  <2>1. CASE FanOutTake
    <3>1. /\ frames # <<>> /\ frames \in Seq(Msgs)
          /\ Len(frames) \in Nat /\ Len(hand) \in Nat
      BY <2>1 DEF FanOutTake, IngestInv, IngestTypeOK
    <3> QED
      BY <2>1, <3>1, ChanCapAssumption DEF FanOutTake, IngestInv, IngestTypeOK,
         HandNeverBlocks
  <2>2. CASE FanOutPut
    BY <2>2, MsgsAreNat DEF FanOutPut, IngestInv, IngestTypeOK, HandNeverBlocks
  <2> QED
    BY <2>1, <2>2
<1>2. UNCHANGED <<js, hand, written, win, added>>
  BY DEF FanOutTake, FanOutPut
<1> QED
  BY <1>1, <1>2, WindowKept DEF IngestInv, IngestTypeOK, AddedWritten,
     AckedMeansWritten, HandNeverBlocks

\* The duplicate branch acks only what the window contains, and by WindowExact
\* that is what this process wrote; the write branch acks what it just wrote.
LEMMA PumpKeeps ==
    ASSUME IngestInv, Pump
    PROVE  IngestInv'
<1> DEFINE m == Head(fanIn)
<1>1. /\ fanIn \in Seq(Msgs) /\ fanIn # <<>>
      /\ m \in Msgs /\ m \in Nat /\ m # 0
      /\ Tail(fanIn) \in Seq(Msgs)
  <2>1. fanIn \in Seq(Msgs) /\ fanIn # <<>>
    BY DEF IngestInv, IngestTypeOK, Pump, PumpDuplicate, PumpWriteFails, PumpWrites
  <2>2. Head(fanIn) \in Msgs /\ Tail(fanIn) \in Seq(Msgs)
    BY <2>1
  <2> QED
    BY <2>1, <2>2, MsgsAreNat, Zenon
<1> HIDE DEF m
<1>2. CASE PumpDuplicate
  <2>1. written[m] > 0
    <3>1. Contains(win, m) /\ m \in Seqs
      BY <1>1, <1>2 DEF PumpDuplicate, IsDuplicate, SeqOf, m, Msgs
    <3>2. m \in added
      BY <3>1 DEF IngestInv, WindowInv, WindowExact
    <3> QED
      BY <3>2 DEF IngestInv, AddedWritten
  <2>2. /\ js' \in [Msgs -> JsStates]
        /\ \A n \in Msgs : js'[n] = "acked" => js[n] = "acked" \/ n = m
    BY <1>1, <1>2, Zenon DEF PumpDuplicate, Ack, IngestInv, IngestTypeOK, JsStates, m
  <2>3. fanIn' = Tail(fanIn) /\ UNCHANGED <<hand, frames, mid, written, win, added>>
    BY <1>2 DEF PumpDuplicate
  <2> QED
    BY <1>1, <2>1, <2>2, <2>3, WindowKept DEF IngestInv, IngestTypeOK,
       AddedWritten, AckedMeansWritten, HandNeverBlocks
<1>3. CASE PumpWriteFails
  <2>1. /\ js' \in [Msgs -> JsStates]
        /\ \A n \in Msgs : js'[n] = "acked" => js[n] = "acked"
    BY <1>1, <1>3 DEF PumpWriteFails, Nak, Returned, IngestInv, IngestTypeOK,
       JsStates, m
  <2>2. fanIn' = Tail(fanIn) /\ UNCHANGED <<hand, frames, mid, written, win, added>>
    BY <1>3 DEF PumpWriteFails
  <2> QED
    BY <1>1, <2>1, <2>2, WindowKept DEF IngestInv, IngestTypeOK, AddedWritten,
       AckedMeansWritten, HandNeverBlocks
<1>4. CASE PumpWrites
  <2>1. /\ js' \in [Msgs -> JsStates]
        /\ \A n \in Msgs : js'[n] = "acked" => js[n] = "acked" \/ n = m
    BY <1>1, <1>4, Zenon DEF PumpWrites, Ack, IngestInv, IngestTypeOK, JsStates, m
  <2>2. /\ written' \in [Msgs -> Nat]
        /\ written'[m] > 0
        /\ \A n \in Msgs : written'[n] >= written[n]
    <3>1. written \in [Msgs -> Nat] /\ written' = [written EXCEPT ![m] = @ + 1]
      BY <1>4 DEF PumpWrites, IngestInv, IngestTypeOK, m
    <3> QED
      BY <1>1, <3>1
  <2>3. fanIn' = Tail(fanIn) /\ UNCHANGED <<hand, frames, mid>>
    BY <1>4 DEF PumpWrites
  <2>4. Insert(m) \/ UNCHANGED <<win, added>>
    BY <1>4 DEF PumpWrites, m
  <2>5. WindowInv'
    BY <1>1, <2>4, WindowInvInductive DEF IngestInv, WindowNext, windowVars, Msgs
  <2>6. AddedWritten'
    <3>1. added \subseteq Msgs /\ \A n \in added' : n \in added \/ n = m
      BY <2>4 DEF Insert, IngestInv, WindowInv, WindowTypeOK, Msgs
    <3>2. \A n \in added' : n \notin Unsequenced
      BY <1>4 DEF PumpWrites, Insert, SeqOf, IngestInv, AddedWritten
    <3>3. ASSUME NEW n \in added' PROVE written'[n] > 0
      <4>1. CASE n = m
        BY <2>2, <4>1
      <4>2. CASE n \in added
        <5>1. n \in Msgs /\ written[n] > 0 /\ written'[n] >= written[n]
          BY <2>2, <3>1, <4>2 DEF IngestInv, AddedWritten
        <5>2. written[n] \in Nat /\ written'[n] \in Nat
          BY <2>2, <5>1 DEF IngestInv, IngestTypeOK
        <5> QED
          BY <5>1, <5>2
      <4> QED
        BY <3>1, <4>1, <4>2
    <3> QED
      BY <3>2, <3>3 DEF AddedWritten
  <2>7. AckedMeansWritten'
    <3> SUFFICES ASSUME NEW n \in Msgs, js'[n] = "acked"
                 PROVE  written'[n] > 0
      BY DEF AckedMeansWritten
    <3>1. CASE n = m
      BY <2>2, <3>1
    <3>2. CASE js[n] = "acked"
      <4>1. written[n] > 0 /\ written'[n] >= written[n]
        BY <2>2, <3>2 DEF IngestInv, AckedMeansWritten
      <4>2. written[n] \in Nat /\ written'[n] \in Nat
        BY <2>2 DEF IngestInv, IngestTypeOK
      <4> QED
        BY <4>1, <4>2
    <3> QED
      BY <2>1, <3>1, <3>2
  <2> QED
    BY <1>1, <2>1, <2>2, <2>3, <2>5, <2>6, <2>7 DEF IngestInv, IngestTypeOK,
       HandNeverBlocks
<1> QED
  BY <1>2, <1>3, <1>4 DEF Pump

\* A restart empties the window and the channels; acks and rows persist.
LEMMA RestartKeeps ==
    ASSUME IngestInv, Restarted
    PROVE  IngestInv'
<1>1. WindowInv'
  <2>1. win' \in Windows /\ win'.base = 0 /\ win'.bits = {} /\ added' = {}
    BY DEF Restarted, NewWindow, Windows
  <2> QED
    BY <2>1 DEF WindowInv, WindowTypeOK, WindowExact, BelowTop, BaseReached,
                Contains
<1> QED
  BY <1>1, ChanCapAssumption DEF Restarted, IngestInv, IngestTypeOK, AddedWritten,
     AckedMeansWritten, HandNeverBlocks

LEMMA IngestInvInductive == IngestInv /\ [IngestNext]_ingestVars => IngestInv'
<1> SUFFICES ASSUME IngestInv, [IngestNext]_ingestVars
             PROVE  IngestInv'
  OBVIOUS
<1>1. CASE \E m \in Msgs : Publish(m) \/ AckWaitExpires(m)
  BY <1>1, PublishKeeps
<1>2. CASE Normalizer
  BY <1>2, FetchKeeps, HandKeeps DEF Normalizer
<1>3. CASE FanOutTake \/ FanOutPut
  BY <1>3, FanOutKeeps
<1>4. CASE Pump
  BY <1>4, PumpKeeps
<1>5. CASE Exit \/ Crash
  BY <1>5, RestartKeeps DEF Exit, Crash
<1>6. CASE Stop \/ UNCHANGED ingestVars
  <2>1. UNCHANGED <<js, hand, frames, mid, fanIn, written, win, added>>
    BY <1>6 DEF Stop, ingestVars
  <2> QED
    BY <2>1, WindowKept DEF IngestInv, IngestTypeOK, AddedWritten,
       AckedMeansWritten, HandNeverBlocks
<1> QED
  BY <1>1, <1>2, <1>3, <1>4, <1>5, <1>6 DEF IngestNext

LEMMA IngestInvHolds == IngestSpec => []IngestInv
BY IngestInitially, IngestInvInductive, PTL DEF IngestSpec

-----------------------------------------------------------------------------
(* The theorems.                                                           *)

\* Messages, channels and the record of writes stay well formed, for every set of
\* messages and every channel capacity.
THEOREM IngestTypeCorrect == IngestSpec => []IngestTypeOK
<1>1. IngestInv => IngestTypeOK
  BY DEF IngestInv
<1> QED
  BY <1>1, IngestInvHolds, PTL

\* The Pump acks a stream message only once it is durably in the buffer, through
\* every interleaving of redeliveries, duplicates, failed writes and restarts.
THEOREM AckOnlyAfterWrite == IngestSpec => []AckedMeansWritten
<1>1. IngestInv => AckedMeansWritten
  BY DEF IngestInv
<1> QED
  BY <1>1, IngestInvHolds, PTL

\* The Normalizer always has room for what it fetched, for every channel
\* capacity and fetch size.
THEOREM FetchedFits == IngestSpec => []HandNeverBlocks
<1>1. IngestInv => HandNeverBlocks
  BY DEF IngestInv
<1> QED
  BY <1>1, IngestInvHolds, PTL

\* Within one process the Pump writes a message again only after it left the
\* deduplication window, for every span of that window.
THEOREM IdempotentInWindow == IngestSpec => WrittenOnceInWindow
<1> DEFINE Once == \A m \in Msgs :
                     written'[m] > written[m] /\ m \in added => m < win.base
<1>1. ASSUME IngestInv, [IngestNext]_ingestVars
      PROVE  [Once]_ingestVars
  <2> SUFFICES ASSUME NEW m \in Msgs, written'[m] > written[m], m \in added,
                      ~(m < win.base)
               PROVE  FALSE
    OBVIOUS
  <2>1. m \in Nat /\ m # 0 /\ win.base \in Nat /\ m \in Seqs
    BY <1>1, MsgsAreNat DEF IngestInv, WindowInv, WindowTypeOK, Windows, Msgs
  <2>2. Contains(win, m)
    <3>1. m < win.base + N
      BY <1>1 DEF IngestInv, WindowInv, BelowTop
    <3>2. Covers(win, m)
      BY <2>1, <3>1, SpanAssumption DEF Covers
    <3> QED
      BY <1>1, <2>1, <3>2 DEF IngestInv, WindowInv, WindowExact
  <2>3. written[m] \in Nat
    BY <1>1 DEF IngestInv, IngestTypeOK
  <2>4. PumpWrites
    <3>1. CASE UNCHANGED written
      BY <2>3, <3>1
    <3>2. CASE ~UNCHANGED written
      BY <1>1, <3>2 DEF IngestNext, ingestVars, Publish, AckWaitExpires,
         Normalizer, Fetch, Reject, HandOn, NakOnStop, FanOutTake, FanOutPut,
         Pump, PumpDuplicate, PumpWriteFails, Stop, Exit, Crash, Restarted
    <3> QED
      BY <3>1, <3>2
  <2>5. Head(fanIn) = m
    <3>1. written \in [Msgs -> Nat]
      BY <1>1 DEF IngestInv, IngestTypeOK
    <3> QED
      BY <2>3, <2>4, <3>1 DEF PumpWrites
  <2>6. m \notin Unsequenced
    BY <1>1 DEF IngestInv, AddedWritten
  <2> QED
    BY <2>1, <2>2, <2>4, <2>5, <2>6 DEF PumpWrites, IsDuplicate, SeqOf
<1> QED
  BY <1>1, IngestInvHolds, PTL DEF IngestSpec, WrittenOnceInWindow
-----------------------------------------------------------------------------
(* How often a message is written.                                         *)

\* The copies of a message in a channel, and in the whole gateway.
Count(s, m) == Cardinality({i \in DOMAIN s : s[i] = m})
Copies(m) == Count(hand, m) + Count(frames, m) + (IF mid = m THEN 1 ELSE 0) + Count(fanIn, m)

\* A message is delivered again only while deliveries are left.
DeliveriesLeft ==
    /\ deliveries \in [Msgs -> 0..MaxDeliver]
    /\ \A m \in Msgs : js[m] = "ready" => deliveries[m] < MaxDeliver
    /\ \A m \in Msgs : js[m] = "unpublished" => deliveries[m] = 0

\* Every row and every copy has a delivery of its own.
OneEach == \A m \in Msgs : written[m] + Copies(m) <= deliveries[m]

\* No message has more rows than it was delivered, nor is delivered more than MaxDeliver
\* times.
RowsBounded ==
    \A m \in Msgs : written[m] <= deliveries[m] /\ deliveries[m] <= MaxDeliver

LEMMA CountNat ==
    ASSUME NEW s \in Seq(Msgs), NEW m
    PROVE  IsFiniteSet({i \in DOMAIN s : s[i] = m}) /\ Count(s, m) \in Nat
<1>1. IsFiniteSet(1..Len(s)) BY FS_Interval
<1>2. {i \in DOMAIN s : s[i] = m} \in SUBSET (1..Len(s)) OBVIOUS
<1>3. IsFiniteSet({i \in DOMAIN s : s[i] = m}) BY <1>1, <1>2, FS_Subset
<1> QED BY <1>3, FS_CardinalityType DEF Count

LEMMA CountEmpty == \A m : Count(<<>>, m) = 0
<1> SUFFICES ASSUME NEW m PROVE Count(<<>>, m) = 0 OBVIOUS
<1>1. {i \in DOMAIN <<>> : <<>>[i] = m} = {} OBVIOUS
<1> QED BY <1>1, FS_EmptySet DEF Count

LEMMA CountAppend ==
    ASSUME NEW s \in Seq(Msgs), NEW x \in Msgs, NEW m
    PROVE  Count(Append(s, x), m) = Count(s, m) + (IF x = m THEN 1 ELSE 0)
<1> DEFINE A == {i \in DOMAIN s : s[i] = m}
           B == {i \in DOMAIN Append(s, x) : Append(s, x)[i] = m}
<1>1. /\ DOMAIN s = 1..Len(s) /\ Len(s) \in Nat /\ DOMAIN Append(s, x) = 1..(Len(s) + 1)
      /\ \A i \in 1..Len(s) : Append(s, x)[i] = s[i]
      /\ Append(s, x)[Len(s) + 1] = x
  OBVIOUS
<1>2. IsFiniteSet(A) /\ Len(s) + 1 \notin A
  <2>1. Len(s) + 1 \notin A BY <1>1
  <2> QED BY <2>1, CountNat, Zenon
<1>3. Cardinality(A) \in Nat BY <1>2, FS_CardinalityType
<1>4. Count(s, m) = Cardinality(A) /\ Count(Append(s, x), m) = Cardinality(B) BY DEF Count
<1>5. CASE x = m
  <2>1. B = A \cup {Len(s) + 1} BY <1>1, <1>5
  <2> HIDE DEF A, B
  <2>2. Cardinality(A \cup {Len(s) + 1}) = Cardinality(A) + 1 BY <1>2, FS_AddElement, Zenon
  <2> QED BY <1>4, <1>5, <2>1, <2>2
<1>6. CASE x # m
  <2>1. B = A BY <1>1, <1>6
  <2> HIDE DEF A, B
  <2> QED BY <1>3, <1>4, <1>6, <2>1
<1> QED BY <1>5, <1>6

LEMMA CountTail ==
    ASSUME NEW s \in Seq(Msgs), s # <<>>, NEW m
    PROVE  Count(s, m) = Count(Tail(s), m) + (IF Head(s) = m THEN 1 ELSE 0)
<1> DEFINE A == {i \in DOMAIN Tail(s) : Tail(s)[i] = m}
           B == {i \in DOMAIN s : s[i] = m}
           C == {i \in DOMAIN s : s[i] = m /\ i # 1}
           f == [i \in A |-> i + 1]
<1>1. /\ Len(s) \in Nat /\ Len(s) >= 1 /\ DOMAIN s = 1..Len(s) /\ Head(s) = s[1]
      /\ Tail(s) \in Seq(Msgs) /\ DOMAIN Tail(s) = 1..(Len(s) - 1)
      /\ \A i \in 1..(Len(s) - 1) : Tail(s)[i] = s[i + 1]
  OBVIOUS
<1>2. IsFiniteSet(A) BY <1>1, CountNat, Zenon
<1>3. A \subseteq Nat BY <1>1
<1>4. f \in [A -> C] BY <1>1
<1>5. \A i, j \in A : f[i] = f[j] => i = j BY <1>3
<1>6. \A k \in C : \E i \in A : f[i] = k
  <2> SUFFICES ASSUME NEW k \in C PROVE \E i \in A : f[i] = k OBVIOUS
  <2>1. k - 1 \in A /\ k - 1 + 1 = k BY <1>1
  <2> QED BY <2>1
<1>7. f \in Bijection(A, C)
  <2>1. f \in Injection(A, C) BY <1>4, <1>5, Zenon DEF Injection, IsInjective
  <2>2. f \in Surjection(A, C) BY <1>4, <1>6, Zenon DEF Surjection
  <2> QED BY <2>1, <2>2, Zenon DEF Bijection
<1>8. IsFiniteSet(C) /\ Cardinality(C) = Cardinality(A)
  BY <1>2, <1>7, FS_Bijection, ZenonT(30) DEF ExistsBijection
<1>9. Cardinality(C) \in Nat BY <1>8, FS_CardinalityType
<1>10. Count(s, m) = Cardinality(B) /\ Count(Tail(s), m) = Cardinality(A) BY DEF Count
<1>11. CASE Head(s) = m
  <2>1. B = C \cup {1} /\ 1 \notin C BY <1>1, <1>11
  <2> HIDE DEF A, B, C
  <2>2. Cardinality(C \cup {1}) = Cardinality(C) + 1 BY <1>8, <2>1, FS_AddElement
  <2> QED BY <1>8, <1>10, <1>11, <2>1, <2>2
<1>12. CASE Head(s) # m
  <2>1. B = C BY <1>1, <1>12
  <2> HIDE DEF A, B, C
  <2> QED BY <1>8, <1>9, <1>10, <1>12, <2>1
<1> QED BY <1>11, <1>12

\* A fetched batch has a message at most once.
LEMMA CountFetched ==
    ASSUME NEW batch \in Seq(Msgs), NEW m,
           \A i, j \in DOMAIN batch : i < j => batch[i] < batch[j]
    PROVE  Count(batch, m) <= IF m \in {batch[i] : i \in DOMAIN batch} THEN 1 ELSE 0
<1> DEFINE A == {i \in DOMAIN batch : batch[i] = m}
           got == {batch[i] : i \in DOMAIN batch}
<1>1. DOMAIN batch = 1..Len(batch) /\ Len(batch) \in Nat /\ \A i \in DOMAIN batch : batch[i] \in Msgs
  OBVIOUS
<1>2. Count(batch, m) = Cardinality(A) BY DEF Count
<1>3. CASE \E i \in DOMAIN batch : batch[i] = m
  <2>1. PICK i \in DOMAIN batch : batch[i] = m BY <1>3
  <2>2. ASSUME NEW j \in A PROVE j = i
    <3>1. batch[i] \in Msgs /\ batch[j] = batch[i] /\ j \in DOMAIN batch BY <1>1, <2>1
    <3>2. batch[i] \in Nat BY <3>1, MsgsAreNat, Zenon
    <3>3. ~(i < j) /\ ~(j < i) BY <2>1, <3>1, <3>2
    <3> QED BY <1>1, <2>1, <3>1, <3>3
  <2>3. A = {i} /\ m \in got BY <2>1, <2>2
  <2> HIDE DEF A, got
  <2>4. Cardinality(A) = 1 BY <2>3, FS_Singleton, Zenon
  <2> QED BY <1>2, <2>3, <2>4 DEF got
<1>4. CASE ~\E i \in DOMAIN batch : batch[i] = m
  <2>1. A = {} /\ m \notin got BY <1>4
  <2> HIDE DEF A, got
  <2>2. Cardinality(A) = 0 BY <2>1, FS_EmptySet
  <2> QED BY <1>2, <2>1, <2>2 DEF got
<1> QED BY <1>3, <1>4

\* What a step that moves, drops or writes copies has to keep.
LEMMA CopiesMoved ==
    ASSUME OneEach, UNCHANGED deliveries, IngestInv, IngestInv', DeliveriesLeft,
           \A m \in Msgs : written'[m] + Copies(m)' <= written[m] + Copies(m)
    PROVE  OneEach'
<1> SUFFICES ASSUME NEW m \in Msgs PROVE written'[m] + Copies(m)' <= deliveries'[m]
  BY DEF OneEach
<1>1. /\ Count(hand, m) \in Nat /\ Count(frames, m) \in Nat /\ Count(fanIn, m) \in Nat
      /\ Count(hand', m) \in Nat /\ Count(frames', m) \in Nat /\ Count(fanIn', m) \in Nat
  BY CountNat, Zenon DEF IngestInv, IngestTypeOK
<1>2. Copies(m) \in Nat /\ Copies(m)' \in Nat BY <1>1 DEF Copies, Count
<1>3. written[m] \in Nat /\ written'[m] \in Nat BY DEF IngestInv, IngestTypeOK
<1>4. deliveries[m] \in Nat BY MaxDeliverAssumption DEF DeliveriesLeft
<1>5. written[m] + Copies(m) <= deliveries[m] BY DEF OneEach
<1>6. written'[m] + Copies(m)' <= written[m] + Copies(m) OBVIOUS
<1> QED BY <1>2, <1>3, <1>4, <1>5, <1>6

\* Every step that is not a fetch moves copies, drops them or writes one of them.
LEMMA OneEachKept ==
    ASSUME IngestInv, DeliveriesLeft, OneEach, [IngestNext]_ingestVars
    PROVE  OneEach'
<1>1. IngestInv' BY IngestInvInductive
<1>2. /\ hand \in Seq(Msgs) /\ frames \in Seq(Msgs) /\ fanIn \in Seq(Msgs)
      /\ mid \in Msgs \cup {0} /\ written \in [Msgs -> Nat]
  BY DEF IngestInv, IngestTypeOK
<1>3. /\ hand' \in Seq(Msgs) /\ frames' \in Seq(Msgs) /\ fanIn' \in Seq(Msgs)
  BY <1>1 DEF IngestInv, IngestTypeOK
<1>4. ASSUME NEW m
      PROVE  /\ Copies(m)' = Count(hand', m) + Count(frames', m) + (IF mid' = m THEN 1 ELSE 0)
                             + Count(fanIn', m)
             /\ Count(hand, m) \in Nat /\ Count(frames, m) \in Nat /\ Count(fanIn, m) \in Nat
             /\ Count(hand', m) \in Nat /\ Count(frames', m) \in Nat /\ Count(fanIn', m) \in Nat
  <2>1. Copies(m)' = Count(hand', m) + Count(frames', m) + (IF mid' = m THEN 1 ELSE 0)
                     + Count(fanIn', m)
    BY DEF Copies, Count
  <2> QED BY <1>2, <1>3, <2>1, CountNat, Zenon
<1>5. ASSUME UNCHANGED <<hand, frames, mid, fanIn, written, deliveries>> PROVE OneEach'
  BY <1>5, Zenon DEF OneEach, Copies, Count
<1>6. CASE \E m \in Msgs : Publish(m) \/ AckWaitExpires(m)
  BY <1>5, <1>6 DEF Publish, AckWaitExpires
<1>7. CASE Stop \/ UNCHANGED ingestVars BY <1>5, <1>7 DEF Stop, ingestVars
<1>8. ASSUME NEW k \in 1..FetchBatch, NEW batch \in [1..k -> Msgs], Fetch(batch) PROVE OneEach'
  <2> SUFFICES ASSUME NEW m \in Msgs PROVE written'[m] + Copies(m)' <= deliveries'[m]
    BY DEF OneEach
  <2> DEFINE got == {batch[i] : i \in DOMAIN batch}
             one == IF m \in got THEN 1 ELSE 0
  <2>1. batch \in Seq(Msgs) BY FetchedSeq, FetchBatchAssumption
  <2>2. /\ hand = <<>> /\ hand' = batch /\ UNCHANGED <<frames, mid, fanIn, written>>
        /\ \A i, j \in DOMAIN batch : i < j => batch[i] < batch[j]
        /\ deliveries'[m] = deliveries[m] + one
    BY <1>8 DEF Fetch
  <2>3. Count(hand', m) <= one /\ Count(hand, m) = 0 BY <2>1, <2>2, CountFetched, CountEmpty
  <2>4. written[m] + Copies(m) <= deliveries[m] BY DEF OneEach
  <2>5. deliveries[m] \in Nat /\ written[m] \in Nat /\ one \in Nat
    BY <1>2, MaxDeliverAssumption DEF DeliveriesLeft
  <2> HIDE DEF one
  <2>6. Copies(m)' <= Copies(m) + one /\ Copies(m)' \in Nat /\ Copies(m) \in Nat
    <3>1. Copies(m) = Count(hand, m) + Count(frames, m) + (IF mid = m THEN 1 ELSE 0)
                      + Count(fanIn, m)
      BY DEF Copies
    <3>2. Copies(m)' = Count(hand', m) + Count(frames, m) + (IF mid = m THEN 1 ELSE 0)
                       + Count(fanIn, m)
      BY <1>4, <2>2
    <3>3. /\ Count(frames, m) \in Nat /\ Count(fanIn, m) \in Nat
          /\ Count(hand', m) \in Nat /\ Count(hand, m) \in Nat
      BY <1>4
    <3> QED BY <2>3, <2>5, <3>1, <3>2, <3>3
  <2>7. written'[m] = written[m] BY <2>2
  <2> QED BY <2>2, <2>4, <2>5, <2>6, <2>7
<1>9. ASSUME UNCHANGED <<deliveries, written>>, \A m \in Msgs : Copies(m)' <= Copies(m)
      PROVE  OneEach'
  <2> SUFFICES ASSUME NEW m \in Msgs PROVE written'[m] + Copies(m)' <= written[m] + Copies(m)
    BY <1>1, <1>9, CopiesMoved
  <2>1. Copies(m) \in Nat /\ Copies(m)' \in Nat BY <1>4 DEF Copies
  <2>2. written'[m] = written[m] /\ written[m] \in Nat BY <1>2, <1>9
  <2> QED BY <1>9, <2>1, <2>2
<1>10. CASE Reject \/ HandOn \/ NakOnStop
  <2> SUFFICES ASSUME NEW m \in Msgs PROVE Copies(m)' <= Copies(m)
    BY <1>9, <1>10 DEF Reject, HandOn, NakOnStop
  <2>1. hand # <<>> /\ UNCHANGED <<mid, fanIn>> /\ Head(hand) \in Msgs
    BY <1>2, <1>10 DEF Reject, HandOn, NakOnStop
  <2>2. Count(hand, m) = Count(Tail(hand), m) + (IF Head(hand) = m THEN 1 ELSE 0)
    BY <1>2, <2>1, CountTail
  <2>3. Tail(hand) \in Seq(Msgs) BY <1>2, <2>1
  <2>4. Count(Tail(hand), m) \in Nat BY <2>3, CountNat, Zenon
  <2>5. CASE Reject BY <1>4, <2>1, <2>2, <2>4, <2>5 DEF Reject, Copies
  <2>6. CASE HandOn
    <3>1. Count(frames', m) = Count(frames, m) + (IF Head(hand) = m THEN 1 ELSE 0)
      BY <1>2, <2>1, <2>6, CountAppend DEF HandOn
    <3>2. hand' = Tail(hand) BY <2>6 DEF HandOn
    <3> QED BY <1>4, <2>1, <2>2, <2>4, <3>1, <3>2 DEF Copies
  <2>7. CASE NakOnStop
    <3>1. hand' = <<>> /\ UNCHANGED frames BY <2>7 DEF NakOnStop
    <3>2. Count(hand', m) = 0 BY <3>1, CountEmpty
    <3> QED BY <1>4, <2>1, <3>1, <3>2 DEF Copies
  <2> QED BY <1>10, <2>5, <2>6, <2>7, Zenon
<1>11. CASE FanOutTake
  <2> SUFFICES ASSUME NEW m \in Msgs PROVE Copies(m)' <= Copies(m)
    BY <1>9, <1>11 DEF FanOutTake
  <2>1. /\ mid = 0 /\ frames # <<>> /\ mid' = Head(frames) /\ frames' = Tail(frames)
        /\ UNCHANGED <<hand, fanIn>>
    BY <1>11 DEF FanOutTake
  <2>2. Count(frames, m) = Count(frames', m) + (IF Head(frames) = m THEN 1 ELSE 0)
    BY <1>2, <2>1, CountTail
  <2>3. mid # m BY <2>1, MsgsAreNat
  <2> QED BY <1>4, <2>1, <2>2, <2>3 DEF Copies
<1>12. CASE FanOutPut
  <2> SUFFICES ASSUME NEW m \in Msgs PROVE Copies(m)' <= Copies(m)
    BY <1>9, <1>12 DEF FanOutPut
  <2>1. /\ mid # 0 /\ mid \in Msgs /\ mid' = 0 /\ fanIn' = Append(fanIn, mid)
        /\ UNCHANGED <<hand, frames>>
    BY <1>2, <1>12 DEF FanOutPut
  <2>2. Count(fanIn', m) = Count(fanIn, m) + (IF mid = m THEN 1 ELSE 0)
    BY <1>2, <2>1, CountAppend
  <2>3. mid' # m BY <2>1, MsgsAreNat
  <2> QED BY <1>4, <2>1, <2>2, <2>3 DEF Copies
<1>13. CASE Pump
  <2> SUFFICES ASSUME NEW m \in Msgs PROVE written'[m] + Copies(m)' <= written[m] + Copies(m)
    BY <1>1, <1>13, CopiesMoved DEF Pump, PumpDuplicate, PumpWriteFails, PumpWrites
  <2>1. /\ fanIn # <<>> /\ fanIn' = Tail(fanIn) /\ UNCHANGED <<hand, frames, mid>>
        /\ written' = written \/ written' = [written EXCEPT ![Head(fanIn)] = @ + 1]
    BY <1>13 DEF Pump, PumpDuplicate, PumpWriteFails, PumpWrites
  <2>2. Count(fanIn, m) = Count(fanIn', m) + (IF Head(fanIn) = m THEN 1 ELSE 0)
    BY <1>2, <2>1, CountTail
  <2>3. written'[m] <= written[m] + (IF Head(fanIn) = m THEN 1 ELSE 0)
    BY <1>2, <2>1
  <2>4. written[m] \in Nat /\ written'[m] \in Nat BY <1>1 DEF IngestInv, IngestTypeOK
  <2>5. Copies(m)' + (IF Head(fanIn) = m THEN 1 ELSE 0) = Copies(m)
    BY <1>4, <2>1, <2>2 DEF Copies
  <2>6. Copies(m) \in Nat /\ Copies(m)' \in Nat BY <1>4 DEF Copies
  <2> QED BY <2>3, <2>4, <2>5, <2>6
<1>14. CASE Exit \/ Crash
  <2>1. /\ hand' = <<>> /\ frames' = <<>> /\ mid' = 0 /\ fanIn' = <<>>
        /\ UNCHANGED <<deliveries, written>>
    BY <1>14 DEF Exit, Crash, Restarted
  <2> SUFFICES ASSUME NEW m \in Msgs PROVE Copies(m)' <= Copies(m) BY <1>9, <2>1
  <2>2. Copies(m)' = 0
    <3>1. Count(hand', m) = 0 /\ Count(frames', m) = 0 /\ Count(fanIn', m) = 0
      BY <2>1, CountEmpty
    <3>2. mid' # m BY <2>1, MsgsAreNat
    <3> QED BY <1>4, <3>1, <3>2
  <2>3. Copies(m) \in Nat BY <1>4 DEF Copies
  <2> QED BY <2>2, <2>3
<1> QED
  BY <1>6, <1>7, <1>8, <1>10, <1>11, <1>12, <1>13, <1>14, Zenon DEF IngestNext, Normalizer

\* The consumer.
LEMMA DeliveriesLeftKept ==
    ASSUME IngestInv, DeliveriesLeft, [IngestNext]_ingestVars
    PROVE  DeliveriesLeft'
<1>1. js \in [Msgs -> JsStates] /\ deliveries \in [Msgs -> 0..MaxDeliver]
  BY DEF IngestInv, IngestTypeOK, DeliveriesLeft
<1>2. ASSUME UNCHANGED deliveries,
             \A m \in Msgs : \/ js'[m] = js[m] \/ js'[m] \in {"acked", "termed", "dead"}
                             \/ js'[m] = "ready" /\ deliveries[m] < MaxDeliver
      PROVE  DeliveriesLeft'
  BY <1>2 DEF DeliveriesLeft
<1>3. ASSUME NEW m \in Msgs, Publish(m) PROVE DeliveriesLeft'
  BY <1>1, <1>2, <1>3, MaxDeliverAssumption DEF Publish, DeliveriesLeft
<1>4. ASSUME NEW m \in Msgs, AckWaitExpires(m) PROVE DeliveriesLeft'
  BY <1>1, <1>2, <1>4 DEF AckWaitExpires, Returned
<1>5. ASSUME NEW k \in 1..FetchBatch, NEW batch \in [1..k -> Msgs], Fetch(batch)
      PROVE  DeliveriesLeft'
  <2> DEFINE got == {batch[i] : i \in DOMAIN batch}
  <2>1. /\ \A m \in got : js[m] = "ready"
        /\ js' = [m \in Msgs |-> IF m \in got THEN "out" ELSE js[m]]
        /\ deliveries' = [m \in Msgs |-> deliveries[m] + (IF m \in got THEN 1 ELSE 0)]
    BY <1>5 DEF Fetch
  <2> HIDE DEF got
  <2>2. \A m \in Msgs : deliveries'[m] \in 0..MaxDeliver
    BY <1>1, <2>1, MaxDeliverAssumption DEF DeliveriesLeft
  <2>3. deliveries' \in [Msgs -> 0..MaxDeliver] BY <2>1, <2>2
  <2>4. \A m \in Msgs : js'[m] \in {"ready", "unpublished"} => js'[m] = js[m] /\ m \notin got
    BY <1>1, <2>1
  <2>5. \A m \in Msgs : m \notin got => deliveries'[m] = deliveries[m] BY <1>1, <2>1
  <2> QED BY <2>3, <2>4, <2>5, Zenon DEF DeliveriesLeft
<1>6. CASE Reject \/ PumpDuplicate \/ PumpWrites
  BY <1>1, <1>2, <1>6 DEF Reject, PumpDuplicate, PumpWrites, Term, Ack
<1>7. CASE NakOnStop \/ PumpWriteFails
  BY <1>1, <1>2, <1>7, Zenon DEF NakOnStop, PumpWriteFails, Nak, Returned
<1>8. CASE HandOn \/ FanOutTake \/ FanOutPut \/ Stop \/ Exit \/ Crash \/ UNCHANGED ingestVars
  BY <1>2, <1>8 DEF HandOn, FanOutTake, FanOutPut, Stop, Exit, Crash, Restarted, ingestVars
<1> QED
  BY <1>3, <1>4, <1>5, <1>6, <1>7, <1>8 DEF IngestNext, Normalizer, Pump

\* Duplicates are bounded: through lost acks, ack deadlines that pass while a copy is in
\* a channel, failed writes, messages without a sequence and restarts that forget the
\* window, a message never has more rows in the buffer than it had deliveries, and so
\* never more than the consumer's MaxDeliver (Normalizer.consume, the fan-out goroutine
\* and Pump.Run).
THEOREM DuplicatesAreBounded == IngestSpec => []RowsBounded
<1> DEFINE I == IngestInv /\ DeliveriesLeft /\ OneEach
<1>1. IngestInit => I
  <2> SUFFICES ASSUME IngestInit PROVE DeliveriesLeft /\ OneEach BY IngestInitially
  <2>1. DeliveriesLeft BY MaxDeliverAssumption DEF IngestInit, DeliveriesLeft
  <2>2. \A m \in Msgs : Copies(m) = 0
    BY CountEmpty, MsgsAreNat DEF IngestInit, Copies
  <2> QED BY <2>1, <2>2 DEF IngestInit, OneEach
<1>2. I /\ [IngestNext]_ingestVars => I'
  BY IngestInvInductive, DeliveriesLeftKept, OneEachKept
<1>3. I => RowsBounded
  <2> SUFFICES ASSUME I, NEW m \in Msgs
               PROVE  written[m] <= deliveries[m] /\ deliveries[m] <= MaxDeliver
    BY DEF RowsBounded
  <2>1. Count(hand, m) \in Nat /\ Count(frames, m) \in Nat /\ Count(fanIn, m) \in Nat
    BY CountNat, Zenon DEF IngestInv, IngestTypeOK
  <2>2. Copies(m) \in Nat BY <2>1 DEF Copies
  <2>3. written[m] \in Nat /\ deliveries[m] \in 0..MaxDeliver
    BY DEF IngestInv, IngestTypeOK, DeliveriesLeft
  <2> QED BY <2>2, <2>3, MaxDeliverAssumption DEF OneEach
<1> QED BY <1>1, <1>2, <1>3, PTL DEF IngestSpec
=============================================================================
