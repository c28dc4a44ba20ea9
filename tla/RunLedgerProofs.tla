--------------------------- MODULE RunLedgerProofs ---------------------------
(***************************************************************************)
(* The ledger's promises, for every set of contexts and every bound.       *)
(*                                                                         *)
(* The invariant is that a usable copy in memory equals the file; every    *)
(* write starts from that copy, so every write moves the file forward.     *)
(* The verdicts rest on what the worker, the receipts and the evidence of  *)
(* resets say of each event (AInv).                                        *)
(***************************************************************************)
EXTENDS RunLedger, TLAPS

\* A ledger, whatever runs it names as invalid.
IsLedger(l) ==
    /\ l = [ctx |-> l.ctx, committed |-> l.committed, applied |-> l.applied, invalid |-> l.invalid]
    /\ l.ctx \in Contexts \cup {NoContext} /\ l.committed \in Int /\ l.applied \in Int

\* A ledger the program may have written.
IsSound(l) == IsLedger(l) /\ Opens(l)

Shape ==
    /\ now \in Nat /\ IsSound(disk) /\ IsSound(mem)
    /\ work # NoWork => up

IInv == Shape /\ LedgerInSync

\* No context of an operator is the absent one.
LEMMA ContextsPresent == NoContext \notin Contexts
BY RunLedgerAssumption, Zenon DEF NoContext

\* The absent context has generation zero and no lifetime.
LEMMA NoContextFields == NoContext.gen = 0 /\ NoContext.until = 0
BY DEF NoContext

\* A context has an integral generation and a run.
LEMMA ContextFields ==
    ASSUME NEW c \in Contexts
    PROVE  /\ c.gen \in Nat /\ c.issued \in Nat /\ c.until \in Nat
           /\ c.run \in Runs
BY RunLedgerAssumption

\* Absent or not, the generation of a ledger's context is a natural number.
LEMMA GenerationIsNat ==
    ASSUME NEW l, IsLedger(l)
    PROVE  l.ctx.gen \in Nat
<1>1. CASE l.ctx \in Contexts BY <1>1, ContextFields
<1>2. CASE l.ctx = NoContext BY <1>2, NoContextFields
<1> QED BY <1>1, <1>2 DEF IsLedger

\* A commit gives a ledger that opens, of a higher generation, with no run less
\* invalidated.
LEMMA CommittedForward ==
    ASSUME Shape, NEW c \in Contexts, Accepts(disk, c)
    PROVE  /\ IsSound(Committed(disk, c))
           /\ Committed(disk, c).ctx.gen >= disk.ctx.gen
           /\ disk.invalid \subseteq Committed(disk, c).invalid
<1>1. /\ Committed(disk, c).ctx = c /\ Committed(disk, c).committed = now
      /\ Committed(disk, c).applied = None
      /\ Committed(disk, c).invalid
           = disk.invalid \cup (IF c.status = "revoked" THEN {c.run} ELSE {})
  BY DEF Committed
<1>2. /\ c.gen \in Nat /\ c.issued \in Nat /\ c.until \in Nat /\ c.run \in Runs
  BY ContextFields
<1>3. IsLedger(Committed(disk, c))
  BY <1>2 DEF Committed, IsLedger, Shape, None
<1>4. c.gen >= disk.ctx.gen
  <2>1. CASE disk.ctx = NoContext BY <1>2, <2>1, NoContextFields
  <2>2. CASE disk.ctx # NoContext
    BY <1>2, <2>2, GenerationIsNat DEF Accepts, Shape, IsSound
  <2> QED BY <2>1, <2>2
<1>5. Opens(Committed(disk, c))
  BY <1>1, <1>2, ContextsPresent DEF Opens, Accepts
<1> QED BY <1>1, <1>3, <1>4, <1>5 DEF IsSound

\* A write that changes only the apply receipt or adds an invalid run moves the
\* file forward, whether it succeeds or fails.
LEMMA WriteForward ==
    ASSUME IInv, up, ~failed, NEW next, IsSound(next),
           next.ctx = mem.ctx, mem.invalid \subseteq next.invalid,
           now' = now, up' = up, (work # NoWork => up)',
           Persisted(next) \/ PersistFails(next)
    PROVE  /\ IInv'
           /\ disk'.ctx.gen >= disk.ctx.gen /\ disk.invalid \subseteq disk'.invalid
<1>1. disk' \in {disk, next} /\ mem = disk
  BY DEF Persisted, PersistFails, IInv, LedgerInSync
<1>2. disk.ctx.gen \in Int
  BY GenerationIsNat DEF IInv, Shape, IsSound
<1>3. disk'.ctx.gen >= disk.ctx.gen /\ disk.invalid \subseteq disk'.invalid
  BY <1>1, <1>2
<1>4. Shape'
  BY <1>1 DEF Persisted, PersistFails, IInv, Shape
<1>5. LedgerInSync'
  BY DEF Persisted, PersistFails, LedgerInSync
<1> QED BY <1>3, <1>4, <1>5 DEF IInv

\* Every step keeps the invariant and moves the file forward.
LEMMA LedgerStep ==
    ASSUME IInv, [RunNext]_runVars
    PROVE  /\ IInv'
           /\ disk'.ctx.gen >= disk.ctx.gen /\ disk.invalid \subseteq disk'.invalid
<1> DEFINE Forward == disk'.ctx.gen >= disk.ctx.gen /\ disk.invalid \subseteq disk'.invalid
<1>0. ASSUME UNCHANGED disk PROVE Forward
  <2>1. disk.ctx.gen \in Int
    BY GenerationIsNat DEF IInv, Shape, IsSound
  <2> QED BY <1>0, <2>1
<1>a. ASSUME UNCHANGED <<disk, mem, failed, up>>, now' \in Nat, (work # NoWork => up)'
      PROVE  IInv' /\ Forward
  <2>1. IInv' BY <1>a DEF IInv, Shape, LedgerInSync, IsSound, IsLedger, Opens
  <2> QED BY <2>1, <1>a, <1>0
<1>1. ASSUME NEW c \in Contexts, Boot(c) PROVE IInv' /\ Forward
  <2>0. now' = now /\ (work # NoWork => up)'
    BY <1>1 DEF Boot, workVars, IInv, Shape
  <2>1. CASE UNCHANGED disk
    <3>1. IInv' BY <1>1, <2>0, <2>1 DEF Boot, IInv, Shape, LedgerInSync
    <3> QED BY <3>1, <2>1, <1>0
  <2>2. CASE Accepts(disk, c) /\ disk' = Committed(disk, c)
    <3>1. Forward /\ IsSound(disk') BY <2>2, CommittedForward DEF IInv
    <3>2. IInv' BY <1>1, <2>0, <3>1 DEF Boot, IInv, Shape, LedgerInSync
    <3> QED BY <3>1, <3>2
  <2> QED BY <1>1, <2>1, <2>2 DEF Boot
<1>2. ASSUME Apply PROVE IInv' /\ Forward
  <2> DEFINE next == [mem EXCEPT !.applied = now]
  <2>1. IsLedger(next) /\ next.ctx = mem.ctx /\ next.invalid = mem.invalid
        /\ next.committed = mem.committed /\ next.applied = now
    BY DEF IInv, Shape, IsSound, IsLedger
  <2> HIDE DEF next
  <2>2. Opens(next)
    <3>1. CASE mem.ctx = NoContext
      BY <1>2, <3>1, NoContextFields DEF Apply, Applicable, IInv, Shape
    <3>2. CASE mem.ctx # NoContext
      BY <1>2, <3>2, <2>1 DEF Apply, Applicable, IInv, Shape, IsSound, Opens
    <3> QED BY <3>1, <3>2
  <2>3. Persisted(next) \/ PersistFails(next) BY <1>2 DEF Apply, next
  <2>4. up /\ ~failed /\ now' = now /\ up' = up /\ (work # NoWork => up)'
    BY <1>2 DEF Apply, workVars, IInv, Shape
  <2> QED BY <2>1, <2>2, <2>3, <2>4, WriteForward DEF IsSound
<1>3. ASSUME Bind PROVE IInv' /\ Forward
  <2> DEFINE next == Invalidated(archives[events[work.id].session])
  <2>0. up /\ up' = up /\ now' = now
    BY <1>3 DEF Bind, WorkerKeeps, NoWork, IInv, Shape
  <2>1. CASE UNCHANGED <<disk, mem, failed>>
    BY <2>0, <2>1, <1>a DEF IInv, Shape
  <2>2. CASE ~failed /\ (Persisted(next) \/ PersistFails(next))
    <3>1. IsLedger(next) /\ next.ctx = mem.ctx /\ mem.invalid \subseteq next.invalid
          /\ next.committed = mem.committed /\ next.applied = mem.applied
      BY DEF Invalidated, IInv, Shape, IsSound, IsLedger
    <3> HIDE DEF next
    <3>2. IsSound(next) BY <3>1 DEF IInv, Shape, IsSound, Opens
    <3> QED BY <2>0, <2>2, <3>1, <3>2, WriteForward, Zenon
  <2> QED BY <1>3, <2>1, <2>2 DEF Bind
<1>4. ASSUME GatewayEnds PROVE IInv' /\ Forward
  <2>1. IInv' BY <1>4 DEF GatewayEnds, IInv, Shape, LedgerInSync, IsSound, IsLedger, Opens
  <2> QED BY <2>1, <1>4, <1>0 DEF GatewayEnds
<1>5. ASSUME Take \/ Quarantine \/ Judge \/ Write \/ Refuse PROVE IInv' /\ Forward
  <2>1. UNCHANGED <<disk, mem, failed, up, now>>
    BY <1>5 DEF Take, Quarantine, Judge, Write, Refuse, WorkerKeeps
  <2>2. up
    BY <1>5 DEF Take, Quarantine, Judge, Write, Refuse, NoWork, IInv, Shape
  <2> QED BY <2>1, <2>2, <1>a DEF IInv, Shape
<1>6. ASSUME Activate \/ PollStarts \/ ProducerStops PROVE IInv' /\ Forward
  <2>1. UNCHANGED <<disk, mem, failed, up, now, work>>
    BY <1>6 DEF Activate, PollStarts, ProducerStops, ledgerVars, workVars
  <2> QED BY <2>1, <1>a DEF IInv, Shape
<1>7. ASSUME PollEnds PROVE IInv' /\ Forward
  <2>1. UNCHANGED <<disk, mem, failed, up, now, work>>
    BY <1>7 DEF PollEnds, ledgerVars
  <2> QED BY <2>1, <1>a DEF IInv, Shape
<1>8. ASSUME Clock PROVE IInv' /\ Forward
  <2>1. UNCHANGED <<disk, mem, failed, up, work>> /\ now' \in Nat
    BY <1>8 DEF Clock, ledgerVars, workVars, IInv, Shape
  <2> QED BY <2>1, <1>a DEF IInv, Shape
<1>9. ASSUME UNCHANGED runVars PROVE IInv' /\ Forward
  <2>1. UNCHANGED <<disk, mem, failed, up, now, work>>
    BY <1>9 DEF runVars, ledgerVars, workVars
  <2> QED BY <2>1, <1>a DEF IInv, Shape
<1> QED BY <1>1, <1>2, <1>3, <1>4, <1>5, <1>6, <1>7, <1>8, <1>9 DEF RunNext

\* The invariant holds at the start and always.
LEMMA LedgerInvariant == RunSpec => []IInv
<1>1. RunInit => IInv
  BY DEF RunInit, IInv, Shape, LedgerInSync, IsSound, IsLedger, Opens, None
<1>2. IInv /\ [RunNext]_runVars => IInv'
  BY LedgerStep
<1> QED BY <1>1, <1>2, PTL DEF RunSpec

\* A usable ledger in memory always equals its file (persist, Open).
THEOREM LedgerAlwaysInSync == RunSpec => []LedgerInSync
BY LedgerInvariant, PTL DEF IInv

\* The archives are a sequence, of some set or other, of ledgers that open.
Archived == (\E S : archives \in Seq(S)) /\ \A s \in DOMAIN archives : Opens(archives[s])

\* An activation archives a ledger that opens; no other step touches the archives.
LEMMA ArchivedStep ==
    ASSUME IInv, Archived, [RunNext]_runVars
    PROVE  Archived'
<1>1. ASSUME UNCHANGED archives PROVE Archived'
  BY <1>1 DEF Archived, Opens, Wellformed
<1>2. ASSUME Activate PROVE Archived'
  <2> DEFINE l == [mem EXCEPT !.applied = now]
  <2>1. Opens(l)
    <3>1. l.ctx = mem.ctx /\ l.committed = mem.committed /\ l.applied = now
      BY DEF IInv, Shape, IsSound, IsLedger
    <3>2. CASE mem.ctx = NoContext
      BY <1>2, <3>2, NoContextFields DEF Activate, Applicable, IInv, Shape
    <3>3. CASE mem.ctx # NoContext
      BY <1>2, <3>1, <3>3 DEF Activate, SessionArchive, Applicable, IInv, Shape, IsSound, Opens
    <3> QED BY <3>2, <3>3
  <2> HIDE DEF l
  <2>2. archives' = Append(archives, l) BY <1>2 DEF Activate, SessionArchive, l
  <2>3. PICK S : archives \in Seq(S) BY DEF Archived
  <2>4. archives \in Seq(S \cup {l}) BY <2>3
  <2>5. archives' \in Seq(S \cup {l}) BY <2>2, <2>4
  <2>6. ASSUME NEW s \in DOMAIN archives' PROVE archives'[s] = l \/ (s \in DOMAIN archives /\ archives'[s] = archives[s])
    BY <2>2, <2>4
  <2>7. \A s \in DOMAIN archives' : Opens(archives'[s])
    BY <2>1, <2>6 DEF Archived
  <2> QED BY <2>5, <2>7 DEF Archived, Opens, Wellformed
<1>3. ASSUME NEW c \in Contexts, Boot(c) PROVE UNCHANGED archives
  BY <1>3 DEF Boot
<1>4. ASSUME Apply \/ PollStarts \/ PollEnds \/ ProducerStops \/ GatewayEnds \/ Clock
      PROVE  UNCHANGED archives
  BY <1>4 DEF Apply, PollStarts, PollEnds, ProducerStops, GatewayEnds, Clock, ledgerVars
<1>5. ASSUME Take \/ Quarantine \/ Bind \/ Judge \/ Write \/ Refuse
      PROVE  UNCHANGED archives
  BY <1>5 DEF Take, Quarantine, Bind, Judge, Write, Refuse, WorkerKeeps
<1>6. ASSUME UNCHANGED runVars PROVE UNCHANGED archives
  BY <1>6 DEF runVars, ledgerVars
<1> QED BY <1>1, <1>2, <1>3, <1>4, <1>5, <1>6 DEF RunNext

\* No restart is refused by a ledger or an archive the program wrote (Open).
THEOREM LedgerAlwaysReopens == RunSpec => []LedgerReopens
<1>1. RunInit => Archived
  <2>1. ASSUME RunInit PROVE archives \in Seq({}) /\ DOMAIN archives = {}
    BY <2>1 DEF RunInit
  <2> QED BY <2>1 DEF Archived
<1>2. IInv /\ Archived /\ [RunNext]_runVars => Archived'
  BY ArchivedStep
<1>3. IInv /\ Archived => LedgerReopens
  BY DEF IInv, Shape, IsSound, Archived, LedgerReopens
<1> QED BY <1>1, <1>2, <1>3, LedgerInvariant, PTL DEF RunSpec

\* The ledger file only moves forward: no rollback of generations, no run
\* rehabilitated, across failed writes, crashes and restarts.
THEOREM LedgerAlwaysRatchets == RunSpec => LedgerRatchets
<1>1. IInv /\ [RunNext]_runVars
        => [disk'.ctx.gen >= disk.ctx.gen /\ disk.invalid \subseteq disk'.invalid]_runVars
  BY LedgerStep
<1> QED BY <1>1, LedgerInvariant, PTL DEF RunSpec, LedgerRatchets

-----------------------------------------------------------------------------
(* The verdicts.  The worker judges an event at most once, because the     *)
(* receipt is on disk before the frame; a reset is in the ledger before    *)
(* the event that carries it is judged or acknowledged; and a session      *)
(* opens only once the events of the one before are dealt with.            *)

Stages == {"idle", "bind", "judge", "write"}
EventsUpTo(n) == [session : 1..n, start : Times, end : Times, reset : BOOLEAN]

\* The types, and what the session, the poll and the worker stand for.
WorkerShape ==
    /\ RunTypeOK
    /\ Len(events) <= MaxEvents
    /\ producer # NoProducer => producer.session = Len(archives) /\ Len(archives) # 0
    /\ producer.start # None => Len(events) < MaxEvents
    /\ work \in [id : Nat, stage : Stages]
    /\ work # NoWork => work.id \in pending /\ work.stage # "idle"
    /\ \A s \in DOMAIN archives : archives[s].ctx \in Contexts

\* A receipt is written once, for a published event, and decides the frame.
Verdicts ==
    /\ \A e \in EventIds : e > Len(events) => receipt[e] = "none"
    /\ work.stage = "judge" => receipt[work.id] = "none"
    /\ work.stage = "write" => receipt[work.id] # "none"
    /\ \A b \in buffer : b.id \in EventIds /\ b.verdict = receipt[b.id] /\ b.verdict # "none"

RunOf(x) == archives[events[x].session].ctx.run

\* A reset stays latched for the rest of its session, the pending events are of
\* the last session, and a reset that is judged or about to be is in the file.
Evidence ==
    /\ \A x, y \in DOMAIN events : x <= y =>
        /\ events[x].session <= events[y].session
        /\ events[x].session = events[y].session /\ events[x].reset => events[y].reset
    /\ \A x \in DOMAIN events :
        events[x].session = producer.session /\ events[x].reset => producer.latched
    /\ \A p \in pending : events[p].session = Len(archives)
    /\ \A x \in DOMAIN events \ (pending \cup aside) : receipt[x] # "none"
    /\ \A x \in DOMAIN events :
        events[x].reset /\ (receipt[x] # "none" \/ (work.stage = "judge" /\ work.id = x))
          => RunOf(x) \in disk.invalid

AInv == IInv /\ WorkerShape /\ Verdicts /\ Evidence

LEMMA Bounds ==
    {MaxTime, MaxSessions, MaxEvents, MaxFaults, MaxEnds} \subseteq Nat
    /\ MaxTime \in Nat /\ MaxSessions \in Nat /\ MaxEvents \in Nat
BY RunLedgerAssumption

LEMMA SeqMono ==
    ASSUME NEW S, NEW T, S \subseteq T, NEW q \in Seq(S)
    PROVE  q \in Seq(T)
OBVIOUS

\* The facts about types that the steps below use.
LEMMA WorkerTypes ==
    ASSUME WorkerShape
    PROVE  /\ now \in Times /\ now \in Nat /\ disk \in Ledgers /\ mem \in Ledgers
           /\ archives \in Seq(Ledgers) /\ Len(archives) \in Nat
           /\ DOMAIN archives = 1..Len(archives)
           /\ events \in Seq(EventsUpTo(Len(archives))) /\ Len(events) \in Nat
           /\ DOMAIN events = 1..Len(events) /\ DOMAIN events \subseteq EventIds
           /\ \A x \in DOMAIN events :
                /\ events[x] \in EventsUpTo(Len(archives))
                /\ events[x].session \in DOMAIN archives
           /\ pending \subseteq DOMAIN events
           /\ work # NoWork => work.id \in DOMAIN events
<1>1. now \in Times /\ disk \in Ledgers /\ mem \in Ledgers
      /\ archives \in Seq(Ledgers) /\ events \in Seq(EventsUpTo(Len(archives)))
      /\ pending \subseteq 1..Len(events)
  BY DEF WorkerShape, RunTypeOK, EventsUpTo
<1>2. now \in Nat
  BY <1>1, Bounds DEF Times
<1>3. Len(archives) \in Nat /\ DOMAIN archives = 1..Len(archives)
      /\ Len(events) \in Nat /\ DOMAIN events = 1..Len(events)
  BY <1>1
<1>4. DOMAIN events \subseteq EventIds
  BY <1>3, Bounds DEF WorkerShape, EventIds
<1>5. ASSUME NEW x \in DOMAIN events
      PROVE  events[x] \in EventsUpTo(Len(archives)) /\ events[x].session \in DOMAIN archives
  <2>1. events[x] \in EventsUpTo(Len(archives))
    BY <1>1, <1>3
  <2> QED
    BY <2>1, <1>3 DEF EventsUpTo
<1>6. work # NoWork => work.id \in DOMAIN events
  BY <1>1, <1>3 DEF WorkerShape
<1> QED
  BY <1>1, <1>2, <1>3, <1>4, <1>5, <1>6

\* What the ledger's writes give.
LEMMA LedgerWrites ==
    ASSUME now \in Times, disk \in Ledgers, mem \in Ledgers
    PROVE  /\ [mem EXCEPT !.applied = now] \in Ledgers
           /\ SessionArchive.ctx = mem.ctx
           /\ \A l \in Ledgers : l.ctx \in Contexts => Invalidated(l) \in Ledgers
           /\ \A c \in Contexts : Committed(disk, c) \in Ledgers
<1>1. [mem EXCEPT !.applied = now] \in Ledgers /\ SessionArchive.ctx = mem.ctx
  BY DEF Ledgers, SessionArchive
<1>2. ASSUME NEW l \in Ledgers, l.ctx \in Contexts PROVE Invalidated(l) \in Ledgers
  <2>1. l.ctx.run \in Runs
    BY <1>2, ContextFields
  <2> QED
    BY <2>1 DEF Ledgers, Invalidated
<1>3. ASSUME NEW c \in Contexts PROVE Committed(disk, c) \in Ledgers
  <2>1. c.run \in Runs
    BY ContextFields
  <2> QED
    BY <2>1 DEF Ledgers, Committed
<1> QED
  BY <1>1, <1>2, <1>3

\* A usable ledger that applies has a context.
LEMMA ApplicableHasContext ==
    ASSUME WorkerShape, IInv, Applicable
    PROVE  mem.ctx \in Contexts
<1>1. mem.ctx # NoContext
  <2>1. mem.committed \in Int /\ now \in Nat /\ now < mem.ctx.until
    BY WorkerTypes DEF Applicable, IInv, Shape, IsSound, IsLedger
  <2> QED
    BY <2>1, NoContextFields
<1> QED
  BY <1>1 DEF IInv, Shape, IsSound, IsLedger

\* A step that leaves the sessions, the poll and the stream alone and moves the
\* ledger, the clock or the worker.
LEMMA WorkerMoves ==
    ASSUME WorkerShape, UNCHANGED <<archives, producer, events, pending>>,
           now' \in Times, disk' \in Ledgers, mem' \in Ledgers,
           work' = NoWork
             \/ (work' \in [id : Nat, stage : Stages]
                 /\ work'.id \in pending /\ work'.stage # "idle"),
           receipt' \in [EventIds -> {"none", "valid", "invalid", "unverified"}]
    PROVE  WorkerShape'
<1>1. work' \in [id : Nat, stage : Stages] /\ work'.id \in pending \cup {0}
  BY DEF NoWork, Stages
<1>2. work'.stage \in Stages
  BY <1>1
<1>3. RunTypeOK'
  BY <1>1, <1>2 DEF WorkerShape, RunTypeOK, Stages
<1>4. work' # NoWork => work'.id \in pending' /\ work'.stage # "idle"
  OBVIOUS
<1> QED
  BY <1>1, <1>3, <1>4 DEF WorkerShape

\* A boundary read changes the latch only upwards and keeps session and start.
LEMMA BoundaryFields ==
    ASSUME WorkerShape, NEW lower \in BOOLEAN, NEW ok \in BOOLEAN
    PROVE  /\ Boundary(lower, ok) \in [session : 0..Len(archives), seen : BOOLEAN,
                                       latched : BOOLEAN, start : Times \cup {None}]
           /\ Boundary(lower, ok).session = producer.session
           /\ producer.latched => Boundary(lower, ok).latched
<1>1. producer \in [session : 0..Len(archives), seen : BOOLEAN, latched : BOOLEAN,
                    start : Times \cup {None}]
  BY DEF WorkerShape, RunTypeOK
<1> DEFINE l == producer.latched \/ (ok /\ producer.seen /\ lower)
           s == producer.seen \/ ok
<1>2. l \in BOOLEAN /\ s \in BOOLEAN
  BY Zenon
<1>3. Boundary(lower, ok) = [producer EXCEPT !.latched = l, !.seen = s]
  BY DEF Boundary
<1>4. producer.latched => l
  OBVIOUS
<1> HIDE DEF l, s
<1> QED
  BY <1>1, <1>2, <1>3, <1>4, Zenon

\* What the two ends of a poll do to the producer.
LEMMA PollFields ==
    ASSUME WorkerShape, NEW t \in Times \cup {None},
           \E lower, ok \in BOOLEAN : producer' = [Boundary(lower, ok) EXCEPT !.start = t]
    PROVE  /\ producer' \in [session : 0..Len(archives), seen : BOOLEAN,
                             latched : BOOLEAN, start : Times \cup {None}]
           /\ producer'.session = producer.session /\ producer'.start = t
           /\ producer.latched => producer'.latched
<1>1. PICK lower, ok \in BOOLEAN : producer' = [Boundary(lower, ok) EXCEPT !.start = t]
  OBVIOUS
<1>2. /\ Boundary(lower, ok) \in [session : 0..Len(archives), seen : BOOLEAN,
                                  latched : BOOLEAN, start : Times \cup {None}]
      /\ Boundary(lower, ok).session = producer.session
      /\ producer.latched => Boundary(lower, ok).latched
  BY BoundaryFields
<1> QED
  BY <1>1, <1>2, Zenon

LEMMA ShapeStep ==
    ASSUME AInv, [RunNext]_runVars
    PROVE  WorkerShape'
<1> USE DEF AInv
<1>0. /\ now \in Times /\ now \in Nat /\ disk \in Ledgers /\ mem \in Ledgers
      /\ archives \in Seq(Ledgers) /\ Len(archives) \in Nat
      /\ DOMAIN archives = 1..Len(archives)
      /\ events \in Seq(EventsUpTo(Len(archives))) /\ Len(events) \in Nat
      /\ DOMAIN events = 1..Len(events) /\ DOMAIN events \subseteq EventIds
      /\ \A x \in DOMAIN events :
           /\ events[x] \in EventsUpTo(Len(archives))
           /\ events[x].session \in DOMAIN archives
      /\ pending \subseteq DOMAIN events
      /\ work # NoWork => work.id \in DOMAIN events
      /\ receipt \in [EventIds -> {"none", "valid", "invalid", "unverified"}]
  BY WorkerTypes DEF WorkerShape, RunTypeOK
<1>w. \/ work = NoWork
      \/ work \in [id : Nat, stage : Stages] /\ work.id \in pending /\ work.stage # "idle"
  BY DEF WorkerShape
<1>1. ASSUME NEW c \in Contexts, Boot(c) PROVE WorkerShape'
  <2>1. UNCHANGED <<now, archives, producer, events, pending, work, receipt>>
    BY <1>1 DEF Boot, producerVars, workVars
  <2>2. disk' \in Ledgers /\ mem' \in Ledgers
    BY <1>1, <1>0, LedgerWrites DEF Boot
  <2> QED
    BY <2>1, <2>2, <1>0, <1>w, WorkerMoves
<1>2. ASSUME Apply PROVE WorkerShape'
  <2>1. UNCHANGED <<now, archives, producer, events, pending, work, receipt>>
    BY <1>2 DEF Apply, producerVars, workVars
  <2>2. disk' \in Ledgers /\ mem' \in Ledgers
    BY <1>2, <1>0, LedgerWrites DEF Apply, Persisted, PersistFails
  <2> QED
    BY <2>1, <2>2, <1>0, <1>w, WorkerMoves
<1>3. ASSUME Activate PROVE WorkerShape'
  <2>1. /\ producer = NoProducer /\ Len(archives) < MaxSessions
        /\ archives' = Append(archives, SessionArchive)
        /\ producer' = [NoProducer EXCEPT !.session = Len(archives) + 1]
        /\ UNCHANGED <<now, disk, mem, events, pending, work, receipt>>
    BY <1>3 DEF Activate, workVars
  <2>2. SessionArchive \in Ledgers /\ SessionArchive.ctx = mem.ctx /\ mem.ctx \in Contexts
    BY <1>3, <1>0, LedgerWrites, ApplicableHasContext DEF Activate, SessionArchive
  <2>3. archives' \in Seq(Ledgers) /\ Len(archives') = Len(archives) + 1
        /\ \A s \in DOMAIN archives' :
             archives'[s] = SessionArchive \/ (s \in DOMAIN archives /\ archives'[s] = archives[s])
    BY <2>1, <2>2, <1>0
  <2>4. EventsUpTo(Len(archives)) \subseteq EventsUpTo(Len(archives'))
    BY <2>3, <1>0 DEF EventsUpTo
  <2>5. events' \in Seq(EventsUpTo(Len(archives')))
    BY <2>1, <2>4, <1>0, SeqMono
  <2>6. /\ producer' \in [session : 0..Len(archives'), seen : BOOLEAN, latched : BOOLEAN,
                          start : Times \cup {None}]
        /\ producer'.session = Len(archives') /\ producer'.start = None
    <3>1. producer' = [session |-> Len(archives) + 1, seen |-> FALSE, latched |-> FALSE,
                       start |-> None]
      BY <2>1, Zenon DEF NoProducer
    <3>2. FALSE \in BOOLEAN /\ Len(archives) + 1 \in 0..Len(archives')
      BY <2>3, <1>0
    <3> QED
      BY <3>1, <3>2, <2>3
  <2>7. Len(archives') <= MaxSessions
    BY <2>1, <2>3, <1>0, Bounds
  <2>8. RunTypeOK'
    BY <2>1, <2>3, <2>5, <2>6, <2>7 DEF WorkerShape, RunTypeOK, EventsUpTo
  <2>9. \A s \in DOMAIN archives' : archives'[s].ctx \in Contexts
    BY <2>2, <2>3 DEF WorkerShape
  <2> QED
    BY <2>1, <2>3, <2>6, <2>8, <2>9, <1>0 DEF WorkerShape
<1>4. ASSUME PollStarts PROVE WorkerShape'
  <2>1. /\ producer # NoProducer /\ Len(events) < MaxEvents
        /\ \E lower, ok \in BOOLEAN : producer' = [Boundary(lower, ok) EXCEPT !.start = now]
        /\ UNCHANGED <<now, disk, mem, archives, events, pending, work, receipt>>
    BY <1>4 DEF PollStarts, ledgerVars, workVars
  <2>2. /\ producer' \in [session : 0..Len(archives), seen : BOOLEAN,
                          latched : BOOLEAN, start : Times \cup {None}]
        /\ producer'.session = producer.session
    BY <2>1, <1>0, PollFields, Zenon
  <2>3. RunTypeOK'
    BY <2>1, <2>2 DEF WorkerShape, RunTypeOK
  <2> QED
    BY <2>1, <2>2, <2>3 DEF WorkerShape
<1>5. ASSUME PollEnds PROVE WorkerShape'
  <2>1. /\ producer.start # None
        /\ \E lower, ok \in BOOLEAN : producer' = [Boundary(lower, ok) EXCEPT !.start = None]
        /\ UNCHANGED <<now, disk, mem, archives, work, receipt>>
    BY <1>5 DEF PollEnds, ledgerVars
  <2>2. /\ producer' \in [session : 0..Len(archives), seen : BOOLEAN,
                          latched : BOOLEAN, start : Times \cup {None}]
        /\ producer'.session = producer.session /\ producer'.start = None
    BY <2>1, PollFields, Zenon
  <2>3. producer # NoProducer /\ producer.session = Len(archives) /\ Len(archives) # 0
        /\ producer.start \in Times /\ Len(events) < MaxEvents
    BY <2>1 DEF WorkerShape, RunTypeOK, NoProducer
  <2>4. CASE UNCHANGED <<events, pending>>
    <3>1. RunTypeOK'
      BY <2>1, <2>2, <2>4 DEF WorkerShape, RunTypeOK
    <3> QED
      BY <3>1, <2>1, <2>2, <2>3, <2>4 DEF WorkerShape
  <2> DEFINE e == [session |-> producer.session, start |-> producer.start,
                   end |-> now, reset |-> producer'.latched]
  <2>5. CASE events' = Append(events, e) /\ pending' = pending \cup {Len(events) + 1}
    <3>1. producer'.latched \in BOOLEAN
      BY <2>2
    <3>2. e \in EventsUpTo(Len(archives))
      BY <3>1, <2>3, <1>0 DEF EventsUpTo
    <3> HIDE DEF e
    <3>3. events' \in Seq(EventsUpTo(Len(archives))) /\ Len(events') = Len(events) + 1
      BY <3>2, <2>5, <1>0
    <3>4. Len(events') <= MaxEvents
      BY <3>3, <2>3, <1>0, Bounds
    <3>5. pending' \subseteq 1..Len(events') /\ pending \subseteq pending'
      BY <3>3, <2>5, <1>0
    <3>6. RunTypeOK'
      BY <3>3, <3>5, <2>1, <2>2, Zenon DEF WorkerShape, RunTypeOK, EventsUpTo
    <3> QED
      BY <3>4, <3>5, <3>6, <2>1, <2>2, <2>3 DEF WorkerShape
  <2> QED
    BY <1>5, <2>4, <2>5 DEF PollEnds
<1>6. ASSUME ProducerStops PROVE WorkerShape'
  <2>1. producer' = NoProducer
        /\ UNCHANGED <<now, disk, mem, archives, events, pending, work, receipt>>
    BY <1>6 DEF ProducerStops, ledgerVars, workVars
  <2>2. producer' \in [session : 0..Len(archives), seen : BOOLEAN, latched : BOOLEAN,
                       start : Times \cup {None}] /\ producer'.start = None
    BY <2>1, <1>0 DEF NoProducer
  <2>3. RunTypeOK'
    BY <2>1, <2>2, Zenon DEF WorkerShape, RunTypeOK
  <2> QED
    BY <2>1, <2>2, <2>3 DEF WorkerShape
<1>7. ASSUME Take PROVE WorkerShape'
  <2>1. PICK id \in pending : work' = [id |-> id, stage |-> "bind"]
    BY <1>7 DEF Take
  <2>2. id \in Nat
    BY <1>0
  <2>3. work' \in [id : Nat, stage : Stages] /\ work'.id \in pending /\ work'.stage # "idle"
    BY <2>1, <2>2 DEF Stages
  <2> QED
    BY <2>3, <1>7, <1>0, WorkerMoves DEF Take, WorkerKeeps, producerVars
<1>8. ASSUME Bind PROVE WorkerShape'
  <2>0. work # NoWork
    BY <1>8 DEF Bind, NoWork
  <2>1. work' = NoWork \/ work' \in {[work EXCEPT !.stage = "write"],
                                     [work EXCEPT !.stage = "judge"]}
    BY <1>8 DEF Bind
  <2>2. work' = NoWork
          \/ (work' \in [id : Nat, stage : Stages]
              /\ work'.id \in pending /\ work'.stage # "idle")
    BY <2>0, <2>1, <1>w DEF Stages
  <2>3. disk' \in Ledgers /\ mem' \in Ledgers
    <3>1. events[work.id].session \in DOMAIN archives
      BY <2>0, <1>0
    <3>2. archives[events[work.id].session] \in Ledgers
          /\ archives[events[work.id].session].ctx \in Contexts
      BY <3>1, <1>0 DEF WorkerShape
    <3>3. Invalidated(archives[events[work.id].session]) \in Ledgers
      BY <3>2, <1>0, LedgerWrites
    <3> QED
      BY <3>3, <1>0, <1>8 DEF Bind, Persisted, PersistFails
  <2> QED
    BY <2>2, <2>3, <1>8, <1>0, WorkerMoves DEF Bind, WorkerKeeps, producerVars
<1>9. ASSUME Judge PROVE WorkerShape'
  <2>0. work # NoWork
    BY <1>9 DEF Judge, NoWork
  <2>1. work' = NoWork
          \/ (work' \in [id : Nat, stage : Stages]
              /\ work'.id \in pending /\ work'.stage # "idle")
    BY <2>0, <1>9, <1>w, Zenon DEF Judge, Stages
  <2>2. Verdict(events[work.id]) \in {"valid", "invalid", "unverified"}
    BY DEF Verdict, Evaluate
  <2>3. receipt' \in [EventIds -> {"none", "valid", "invalid", "unverified"}]
    BY <2>2, <1>9, <1>0 DEF Judge
  <2> QED
    BY <2>1, <2>3, <1>9, <1>0, WorkerMoves DEF Judge, WorkerKeeps, producerVars
<1>10. ASSUME Quarantine \/ Write PROVE WorkerShape'
  <2>1. /\ UNCHANGED <<now, disk, mem, archives, producer, events, receipt>>
        /\ pending' \subseteq pending /\ work' = NoWork
    BY <1>10 DEF Quarantine, Write, WorkerKeeps, producerVars
  <2>2. work' \in [id : Nat, stage : Stages] /\ work'.id = 0 /\ work'.stage = "idle"
    BY <2>1 DEF NoWork, Stages
  <2>3. RunTypeOK'
    BY <2>1, <2>2, Zenon DEF WorkerShape, RunTypeOK
  <2> QED
    BY <2>1, <2>2, <2>3 DEF WorkerShape
<1>11. ASSUME Refuse PROVE WorkerShape'
  BY <1>11, <1>0, WorkerMoves DEF Refuse, WorkerKeeps, producerVars
<1>12. ASSUME GatewayEnds PROVE WorkerShape'
  BY <1>12, <1>0, WorkerMoves DEF GatewayEnds, producerVars
<1>13. ASSUME Clock PROVE WorkerShape'
  <2>1. now' \in Times
    BY <1>13, <1>0, Bounds DEF Clock, Times
  <2> QED
    BY <2>1, <1>13, <1>0, <1>w, WorkerMoves, Zenon DEF Clock, ledgerVars, producerVars, workVars
<1>14. ASSUME UNCHANGED runVars PROVE WorkerShape'
  BY <1>14, <1>0, <1>w, WorkerMoves DEF runVars, ledgerVars, producerVars, workVars
<1> QED
  BY <1>1, <1>2, <1>3, <1>4, <1>5, <1>6, <1>7, <1>8, <1>9, <1>10, <1>11, <1>12, <1>13,
     <1>14 DEF RunNext

\* Receipts are written once, and by Judge only.
LEMMA VerdictsStep ==
    ASSUME AInv, [RunNext]_runVars
    PROVE  /\ Verdicts'
           /\ \A e \in EventIds : receipt[e] # "none" => receipt'[e] = receipt[e]
<1> USE DEF AInv
<1>0. /\ Len(events) \in Nat /\ DOMAIN events = 1..Len(events)
      /\ DOMAIN events \subseteq EventIds /\ EventIds \subseteq Int
      /\ work # NoWork => work.id \in DOMAIN events
      /\ receipt \in [EventIds -> {"none", "valid", "invalid", "unverified"}]
      /\ work \in [id : Nat, stage : Stages]
  BY WorkerTypes, Bounds, SMTT(20), Zenon DEF WorkerShape, RunTypeOK, EventIds
<1>1. ASSUME UNCHANGED <<receipt, buffer>>, Len(events') \in Nat,
             Len(events') >= Len(events),
             work' = work \/ work'.stage \in {"idle", "bind"}
      PROVE  Verdicts' /\ \A e \in EventIds : receipt[e] # "none" => receipt'[e] = receipt[e]
  <2>1. \A e \in EventIds : e > Len(events') => receipt'[e] = "none"
    BY <1>0, <1>1 DEF Verdicts
  <2> QED
    BY <2>1, <1>1 DEF Verdicts
<1>n. NoWork.stage = "idle"
  BY DEF NoWork
<1>2. ASSUME NEW c \in Contexts, Boot(c)
      PROVE  UNCHANGED <<receipt, buffer, events, work>>
  BY <1>2 DEF Boot, producerVars, workVars
<1>3. ASSUME Apply \/ Activate \/ PollStarts \/ ProducerStops \/ Clock \/ UNCHANGED runVars
      PROVE  UNCHANGED <<receipt, buffer, events, work>>
  BY <1>3 DEF Apply, Activate, PollStarts, ProducerStops, Clock, runVars, producerVars, workVars
<1>4. CASE PollEnds
  <2>1. UNCHANGED <<receipt, buffer, work>>
    BY <1>4 DEF PollEnds
  <2>2. Len(events') \in Nat /\ Len(events') >= Len(events)
    <3>1. events \in Seq(EventsUpTo(Len(archives)))
      BY WorkerTypes
    <3>2. events' = events \/ \E e : events' = Append(events, e)
      BY <1>4 DEF PollEnds
    <3>3. CASE events' = events
      BY <3>3, <1>0
    <3>4. CASE \E e : events' = Append(events, e)
      <4>1. PICK e : events' = Append(events, e)
        BY <3>4
      <4>2. events \in Seq(EventsUpTo(Len(archives)) \cup {e})
        BY <3>1, SeqMono
      <4>3. Len(events') = Len(events) + 1
        BY <4>1, <4>2
      <4> QED
        BY <4>3, <1>0
    <3> QED
      BY <3>2, <3>3, <3>4
  <2> QED
    BY <2>1, <2>2, <1>1
<1>5. CASE Take \/ Quarantine \/ Refuse \/ GatewayEnds
  <2>1. UNCHANGED <<receipt, buffer, events>>
    BY <1>5 DEF Take, Quarantine, Refuse, GatewayEnds, WorkerKeeps, producerVars
  <2>2. work'.stage \in {"idle", "bind"}
    BY <1>5, <1>n DEF Take, Quarantine, Refuse, GatewayEnds
  <2> QED
    BY <2>1, <2>2, <1>0, <1>1
<1>6. CASE Bind
  <2>1. UNCHANGED <<receipt, buffer, events>>
    BY <1>6 DEF Bind, WorkerKeeps, producerVars
  <2>2. \/ work' = [work EXCEPT !.stage = "write"] /\ Known(work.id)
        \/ work' = [work EXCEPT !.stage = "judge"] /\ ~Known(work.id)
        \/ work' = NoWork
    BY <1>6 DEF Bind
  <2>3. CASE work' = NoWork
    BY <2>1, <2>3, <1>0, <1>1, <1>n
  <2>4. CASE work' = [work EXCEPT !.stage = "write"] /\ Known(work.id)
    <3>1. work'.id = work.id /\ work'.stage = "write" /\ receipt[work.id] # "none"
      BY <2>4, <1>0 DEF Known
    <3> QED
      BY <3>1, <2>1 DEF Verdicts
  <2>5. CASE work' = [work EXCEPT !.stage = "judge"] /\ ~Known(work.id)
    <3>1. work'.id = work.id /\ work'.stage = "judge" /\ receipt[work.id] = "none"
      BY <2>5, <1>0 DEF Known
    <3> QED
      BY <3>1, <2>1 DEF Verdicts
  <2> QED
    BY <2>2, <2>3, <2>4, <2>5
<1>7. CASE Judge
  <2>1. UNCHANGED <<buffer, events>> /\ work # NoWork /\ work.stage = "judge"
    BY <1>7 DEF Judge, WorkerKeeps, producerVars, NoWork
  <2>2. CASE work' = NoWork /\ UNCHANGED receipt
    BY <2>1, <2>2, <1>0, <1>1, <1>n
  <2>3. CASE /\ receipt' = [receipt EXCEPT ![work.id] = Verdict(events[work.id])]
             /\ work' = [work EXCEPT !.stage = "write"]
    <3>1. Verdict(events[work.id]) \in {"valid", "invalid", "unverified"}
      BY DEF Verdict, Evaluate
    <3>2. work.id \in DOMAIN events /\ work.id \in EventIds /\ receipt[work.id] = "none"
      BY <2>1, <1>0 DEF Verdicts
    <3>3. work'.id = work.id /\ work'.stage = "write" /\ receipt'[work.id] # "none"
      BY <3>1, <3>2, <2>3, <1>0
    <3>4. \A e \in EventIds : e # work.id => receipt'[e] = receipt[e]
      BY <2>3, <1>0
    <3>5. \A e \in EventIds : e > Len(events) => e # work.id
      BY <3>2, <1>0
    <3>6. \A b \in buffer : b.id # work.id
      BY <3>2 DEF Verdicts
    <3> QED
      BY <3>2, <3>3, <3>4, <3>5, <3>6, <2>1 DEF Verdicts
  <2> QED
    BY <1>7, <2>2, <2>3 DEF Judge
<1>8. CASE Write
  <2>1. /\ UNCHANGED <<receipt, events>> /\ work' = NoWork /\ work.stage = "write"
        /\ buffer' = buffer \cup {[id |-> work.id, verdict |-> receipt[work.id]]}
    BY <1>8 DEF Write, WorkerKeeps, producerVars
  <2>2. work # NoWork
    BY <2>1 DEF NoWork
  <2>3. work.id \in EventIds /\ receipt[work.id] # "none"
    BY <2>1, <2>2, <1>0 DEF Verdicts
  <2>4. \A b \in buffer' : b.id \in EventIds /\ b.verdict = receipt[b.id] /\ b.verdict # "none"
    BY <2>1, <2>3 DEF Verdicts
  <2> QED
    BY <2>1, <2>4, <1>n, Zenon DEF Verdicts
<1> QED
  BY <1>0, <1>1, <1>2, <1>3, <1>4, <1>5, <1>6, <1>7, <1>8 DEF RunNext

\* A step that publishes no event and opens no session keeps the evidence when
\* it takes nothing out of the file, acknowledges only judged events and judges
\* only what was ready to be judged.
LEMMA EvidenceKeeps ==
    ASSUME AInv, UNCHANGED <<archives, events>>, disk.invalid \subseteq disk'.invalid,
           pending' \subseteq pending,
           producer' = NoProducer
             \/ (producer'.session = producer.session
                 /\ (producer.latched => producer'.latched)),
           \A x \in DOMAIN events \ (pending' \cup aside') : receipt'[x] # "none",
           \A x \in DOMAIN events :
             receipt'[x] # "none"
               => receipt[x] # "none" \/ (work.stage = "judge" /\ work.id = x),
           work'.stage = "judge"
             => work' = work \/ (events[work'.id].reset => RunOf(work'.id) \in disk'.invalid)
    PROVE  Evidence'
<1> USE DEF AInv
<1>1. \A x \in DOMAIN events : events[x].session # 0
  BY WorkerTypes DEF EventsUpTo
<1>2. \A x \in DOMAIN events :
        events[x].session = producer'.session /\ events[x].reset => producer'.latched
  BY <1>1 DEF Evidence, NoProducer
<1>3. \A x \in DOMAIN events : RunOf(x)' = RunOf(x)
  BY Zenon DEF RunOf
<1>4. \A x \in DOMAIN events :
        events[x].reset /\ (receipt'[x] # "none" \/ (work'.stage = "judge" /\ work'.id = x))
          => RunOf(x) \in disk'.invalid
  BY DEF Evidence
<1> QED
  BY <1>2, <1>3, <1>4, Zenon DEF Evidence

LEMMA EvidenceStep ==
    ASSUME AInv, [RunNext]_runVars
    PROVE  Evidence'
<1> USE DEF AInv
<1>0. /\ archives \in Seq(Ledgers) /\ Len(archives) \in Nat
      /\ DOMAIN archives = 1..Len(archives)
      /\ events \in Seq(EventsUpTo(Len(archives))) /\ Len(events) \in Nat
      /\ DOMAIN events = 1..Len(events) /\ DOMAIN events \subseteq EventIds
      /\ \A x \in DOMAIN events :
           /\ events[x] \in EventsUpTo(Len(archives))
           /\ events[x].session \in DOMAIN archives
      /\ pending \subseteq DOMAIN events
      /\ work # NoWork => work.id \in DOMAIN events
      /\ work \in [id : Nat, stage : Stages]
  BY WorkerTypes DEF WorkerShape
<1>d. disk.invalid \subseteq disk'.invalid
  BY LedgerStep, Zenon
<1>n. NoWork.stage = "idle"
  BY DEF NoWork
<1>s. ASSUME UNCHANGED <<archives, events, producer, pending, aside, receipt>>,
             work' = work \/ work'.stage # "judge"
      PROVE  Evidence'
  BY <1>s, <1>d, EvidenceKeeps, SMTT(20), Zenon DEF Evidence
<1>1. ASSUME NEW c \in Contexts, Boot(c) PROVE Evidence'
  BY <1>1, <1>s, Zenon DEF Boot, producerVars, workVars
<1>2. CASE Apply \/ Clock \/ UNCHANGED runVars
  BY <1>2, <1>s DEF Apply, Clock, runVars, ledgerVars, producerVars, workVars
<1>3. CASE Take \/ Refuse \/ GatewayEnds
  <2>1. work'.stage # "judge"
    BY <1>3, <1>n DEF Take, Refuse, GatewayEnds
  <2> QED
    BY <2>1, <1>3, <1>s DEF Take, Refuse, GatewayEnds, WorkerKeeps, producerVars
<1>4. CASE Activate
  <2>1. /\ pending = {} /\ archives' = Append(archives, SessionArchive)
        /\ producer' = [NoProducer EXCEPT !.session = Len(archives) + 1]
        /\ UNCHANGED <<disk, events, pending, work, receipt, aside>>
    BY <1>4 DEF Activate, workVars
  <2>2. \A s \in DOMAIN archives : archives'[s] = archives[s]
    <3>1. archives \in Seq(Ledgers \cup {SessionArchive})
      BY <1>0, SeqMono
    <3> QED
      BY <3>1, <2>1, <1>0
  <2>3. \A x \in DOMAIN events : RunOf(x)' = RunOf(x)
    BY <2>1, <2>2, <1>0 DEF RunOf
  <2>4. producer'.session = Len(archives) + 1
    BY <2>1 DEF NoProducer
  <2>5. \A x \in DOMAIN events : events[x].session # producer'.session
    BY <2>4, <1>0
  <2>6. \A x \in DOMAIN events :
          events[x].reset /\ (receipt'[x] # "none" \/ (work'.stage = "judge" /\ work'.id = x))
            => RunOf(x)' \in disk'.invalid
    BY <2>1, <2>3, Zenon DEF Evidence
  <2> QED
    BY <2>1, <2>5, <2>6 DEF Evidence
<1>5. CASE PollStarts
  <2>1. UNCHANGED <<archives, events, pending, aside, receipt, work>>
    BY <1>5, Zenon DEF PollStarts, ledgerVars, workVars
  <2>2. now \in Times
    BY WorkerTypes
  <2>3. producer'.session = producer.session /\ (producer.latched => producer'.latched)
    BY <1>5, <2>2, PollFields DEF PollStarts
  <2> QED
    BY <2>1, <2>3, <1>d, EvidenceKeeps DEF Evidence
<1>6. CASE PollEnds
  <2>1. /\ producer.start # None /\ UNCHANGED <<archives, disk, receipt, aside, work>>
        /\ \E lower, ok \in BOOLEAN : producer' = [Boundary(lower, ok) EXCEPT !.start = None]
    BY <1>6 DEF PollEnds, ledgerVars
  <2>2. producer'.session = producer.session /\ (producer.latched => producer'.latched)
        /\ producer'.latched \in BOOLEAN
    BY <2>1, PollFields, Zenon
  <2>3. producer.session = Len(archives)
    BY <2>1 DEF WorkerShape, NoProducer
  <2>4. CASE UNCHANGED <<events, pending>>
    BY <2>1, <2>2, <2>4, <1>d, EvidenceKeeps DEF Evidence
  <2> DEFINE e == [session |-> producer.session, start |-> producer.start,
                   end |-> now, reset |-> producer'.latched]
             n == Len(events) + 1
  <2>5. CASE events' = Append(events, e) /\ pending' = pending \cup {n}
    <3>1. e.session = Len(archives) /\ e.reset = producer'.latched
      BY <2>3
    <3> HIDE DEF e
    <3>2. events \in Seq(EventsUpTo(Len(archives)) \cup {e})
      BY <1>0, SeqMono
    <3>3. /\ DOMAIN events' = DOMAIN events \cup {n} /\ n \notin DOMAIN events
          /\ \A x \in DOMAIN events : events'[x] = events[x] /\ x < n
          /\ events'[n] = e
      BY <3>2, <2>5, <1>0
    <3>4. \A x \in DOMAIN events : events[x].session <= Len(archives)
      BY <1>0
    <3>5. n \in EventIds /\ receipt[n] = "none" /\ Len(events) < MaxEvents
      <4>1. Len(events) < MaxEvents
        BY <2>1 DEF WorkerShape
      <4>2. n \in EventIds
        BY <4>1, <1>0, Bounds DEF EventIds
      <4> QED
        BY <4>1, <4>2, <1>0 DEF Verdicts
    <3>6. work.id # n
      BY <3>3, <1>0, Bounds DEF NoWork
    <3>7. \A x \in DOMAIN events : RunOf(x)' = RunOf(x)
      BY <3>3, <2>1, Zenon DEF RunOf
    <3>a. \A x, y \in DOMAIN events' : x <= y =>
            /\ events'[x].session <= events'[y].session
            /\ events'[x].session = events'[y].session /\ events'[x].reset => events'[y].reset
      <4> SUFFICES ASSUME NEW x \in DOMAIN events', NEW y \in DOMAIN events', x <= y
                   PROVE  /\ events'[x].session <= events'[y].session
                          /\ events'[x].session = events'[y].session /\ events'[x].reset
                               => events'[y].reset
        OBVIOUS
      <4>1. CASE y \in DOMAIN events
        <5>1. x \in DOMAIN events
          BY <4>1, <3>3, <1>0
        <5> QED
          BY <5>1, <4>1, <3>3, Zenon DEF Evidence
      <4>2. CASE y = n /\ x = n
        <5>1. events'[n].session <= events'[n].session
          BY <3>1, <3>3, <1>0
        <5> QED
          BY <5>1, <4>2, Zenon
      <4>3. CASE y = n /\ x \in DOMAIN events
        <5>1. events'[x] = events[x] /\ events'[y] = e
          BY <4>3, <3>3, Zenon
        <5>2. events[x].session = producer.session /\ events[x].reset => producer'.latched
          BY <4>3, <2>2, Zenon DEF Evidence
        <5> QED
          BY <5>1, <5>2, <4>3, <3>1, <3>4, <2>3
      <4> QED
        BY <4>1, <4>2, <4>3, <3>3, Zenon
    <3>b. \A x \in DOMAIN events' :
            events'[x].session = producer'.session /\ events'[x].reset => producer'.latched
      BY <3>1, <3>3, <2>2 DEF Evidence
    <3>c. \A p \in pending' : events'[p].session = Len(archives')
      BY <3>1, <3>3, <2>1, <2>5, <1>0 DEF Evidence
    <3>d. \A x \in DOMAIN events' \ (pending' \cup aside') : receipt'[x] # "none"
      BY <3>3, <2>1, <2>5, Zenon DEF Evidence
    <3>e. \A x \in DOMAIN events' :
            events'[x].reset
              /\ (receipt'[x] # "none" \/ (work'.stage = "judge" /\ work'.id = x))
                => RunOf(x)' \in disk'.invalid
      <4> SUFFICES ASSUME NEW x \in DOMAIN events', events'[x].reset,
                          receipt[x] # "none" \/ (work.stage = "judge" /\ work.id = x)
                   PROVE  RunOf(x)' \in disk.invalid
        BY <2>1, Zenon
      <4>1. x \in DOMAIN events
        BY <3>3, <3>5, <3>6, Zenon
      <4> QED
        BY <4>1, <3>3, <3>7 DEF Evidence
    <3> QED
      BY <3>a, <3>b, <3>c, <3>d, <3>e DEF Evidence
  <2> QED
    BY <1>6, <2>4, <2>5 DEF PollEnds
<1>7. CASE ProducerStops
  BY <1>7, <1>d, EvidenceKeeps, Zenon DEF ProducerStops, ledgerVars, workVars, Evidence
<1>8. CASE Quarantine
  <2>1. /\ UNCHANGED <<archives, events, producer, receipt>> /\ work' = NoWork
        /\ pending' = pending \ {work.id} /\ aside' = aside \cup {work.id}
    BY <1>8 DEF Quarantine, WorkerKeeps, producerVars
  <2> QED
    BY <2>1, <1>d, <1>n, EvidenceKeeps, Zenon DEF Evidence
<1>9. CASE Bind
  <2>1. UNCHANGED <<archives, events, producer, pending, aside, receipt>>
        /\ work # NoWork
    BY <1>9 DEF Bind, WorkerKeeps, producerVars, NoWork
  <2> DEFINE l == archives[events[work.id].session]
  <2>2. \/ work'.stage # "judge"
        \/ work' = [work EXCEPT !.stage = "judge"] /\ ~events[work.id].reset
        \/ work' = [work EXCEPT !.stage = "judge"] /\ disk' = Invalidated(l)
    BY <1>9, <1>n, <1>0 DEF Bind, Persisted
  <2>3. CASE work'.stage # "judge"
    BY <2>1, <2>3, <1>s
  <2>4. CASE work' = [work EXCEPT !.stage = "judge"] /\ ~events[work.id].reset
    <3>1. work'.id = work.id
      BY <2>4, <1>0, Zenon
    <3> QED
      BY <3>1, <2>1, <2>4, <1>d, EvidenceKeeps DEF Evidence
  <2>5. CASE work' = [work EXCEPT !.stage = "judge"] /\ disk' = Invalidated(l)
    <3>1. work'.id = work.id
      BY <2>5, <1>0, Zenon
    <3>2. l.ctx.run \in disk'.invalid
      <4>1. mem \in Ledgers
        BY WorkerTypes
      <4>2. Invalidated(l).invalid = mem.invalid \cup {l.ctx.run}
        BY <4>1, Zenon DEF Invalidated, Ledgers
      <4> QED
        BY <4>2, <2>5, Zenon
    <3>3. RunOf(work'.id) \in disk'.invalid
      BY <3>1, <3>2, SMTT(20), Zenon DEF RunOf
    <3> QED
      BY <3>3, <2>1, <1>d, EvidenceKeeps DEF Evidence
  <2> QED
    BY <2>2, <2>3, <2>4, <2>5
<1>10. CASE Judge
  <2>1. UNCHANGED <<archives, events, producer, pending, aside>>
        /\ work # NoWork /\ work.stage = "judge"
    BY <1>10 DEF Judge, WorkerKeeps, producerVars, NoWork
  <2>2. work'.stage # "judge"
    BY <1>10, <1>n, <1>0 DEF Judge
  <2>3. \A x \in DOMAIN events : x # work.id => receipt'[x] = receipt[x]
    BY <1>10, <1>0, Zenon DEF Judge, WorkerShape, RunTypeOK
  <2>4. \A x \in DOMAIN events : receipt[x] # "none" => receipt'[x] # "none"
    BY <1>0, VerdictsStep, SMTT(20), Zenon
  <2> QED
    BY <2>1, <2>2, <2>3, <2>4, <1>d, EvidenceKeeps DEF Evidence
<1>11. CASE Write
  <2>1. /\ UNCHANGED <<archives, events, producer, receipt, aside>> /\ work' = NoWork
        /\ pending' \subseteq pending /\ pending \subseteq pending' \cup {work.id}
        /\ receipt[work.id] # "none"
    BY <1>11 DEF Write, WorkerKeeps, producerVars, Verdicts
  <2> QED
    BY <2>1, <1>d, <1>n, EvidenceKeeps, Zenon DEF Evidence
<1> QED
  BY <1>1, <1>2, <1>3, <1>4, <1>5, <1>6, <1>7, <1>8, <1>9, <1>10, <1>11, Zenon DEF RunNext

LEMMA WorkerInvariant == RunSpec => []AInv
<1>1. RunInit => WorkerShape
  <2> SUFFICES ASSUME RunInit PROVE WorkerShape
    OBVIOUS
  <2>1. now \in Times /\ None \notin Times /\ 0 <= MaxEvents /\ 0 <= MaxSessions
    BY Bounds DEF RunInit, Times, None
  <2>2. disk \in Ledgers /\ mem \in Ledgers
    BY DEF RunInit, Ledgers
  <2>3. archives = << >> /\ events = << >> /\ Len(<< >>) = 0 /\ DOMAIN << >> = {}
        /\ archives \in Seq(Ledgers) /\ events \in Seq(EventsUpTo(Len(archives)))
    BY DEF RunInit
  <2>4. producer \in [session : 0..Len(archives), seen : BOOLEAN, latched : BOOLEAN,
                      start : Times \cup {None}] /\ producer.start = None
    <3>1. 0 \in 0..Len(archives) /\ FALSE \in BOOLEAN
      BY <2>3
    <3> QED
      BY <3>1 DEF RunInit, NoProducer
  <2>5. work = NoWork /\ work \in [id : Nat, stage : Stages]
        /\ work.id = 0 /\ work.stage = "idle"
    BY DEF RunInit, NoWork, Stages
  <2>6. receipt \in [EventIds -> {"none", "valid", "invalid", "unverified"}]
    BY DEF RunInit
  <2>7. pending = {} /\ producer = NoProducer
    BY DEF RunInit
  <2>8. Len(archives) <= MaxSessions
    BY <2>1, <2>3
  <2>9. RunTypeOK
    BY <2>1, <2>2, <2>3, <2>4, <2>5, <2>6, <2>7, <2>8, Zenon DEF RunTypeOK, EventsUpTo
  <2> QED
    BY <2>1, <2>3, <2>4, <2>5, <2>7, <2>9 DEF WorkerShape
<1>2. RunInit => Verdicts /\ Evidence
  <2> SUFFICES ASSUME RunInit PROVE Verdicts /\ Evidence
    OBVIOUS
  <2>1. DOMAIN events = {} /\ pending = {} /\ buffer = {} /\ work.stage = "idle"
        /\ receipt = [e \in EventIds |-> "none"]
    BY DEF RunInit, NoWork
  <2> QED
    BY <2>1 DEF Verdicts, Evidence
<1>3. RunInit => IInv
  BY DEF RunInit, IInv, Shape, LedgerInSync, IsSound, IsLedger, Opens, None
<1>4. AInv /\ [RunNext]_runVars => AInv'
  BY LedgerStep, ShapeStep, VerdictsStep, EvidenceStep DEF AInv
<1> QED
  BY <1>1, <1>2, <1>3, <1>4, PTL DEF RunSpec, AInv

\* The types hold, and an event that is delivered again, after whatever crash,
\* reset, expiry, failed write or newer run, is buffered with the verdict it had
\* (bindRunFrame, the receipt before the frame).
THEOREM EventJudgedOnce == RunSpec => []OneVerdict
<1>1. AInv => OneVerdict
  BY Zenon DEF AInv, WorkerShape, Verdicts, OneVerdict
<1> QED
  BY <1>1, WorkerInvariant, PTL

\* What every step keeps of the published events, their archives, their receipts
\* and the quarantine.
LEMMA HistoryKept ==
    ASSUME AInv, [RunNext]_runVars
    PROVE  /\ \A x \in DOMAIN events :
                /\ x \in DOMAIN events' /\ events'[x] = events[x]
                /\ archives'[events[x].session] = archives[events[x].session]
           /\ \A y \in DOMAIN events' \ DOMAIN events : receipt'[y] = "none"
           /\ \A y \in DOMAIN events, x \in DOMAIN events' : x <= y => x \in DOMAIN events
           /\ aside \subseteq aside'
           /\ receipt' = receipt \/ Judge
<1> USE DEF AInv
<1>0. /\ archives \in Seq(Ledgers) /\ Len(archives) \in Nat
      /\ DOMAIN archives = 1..Len(archives)
      /\ events \in Seq(EventsUpTo(Len(archives))) /\ Len(events) \in Nat
      /\ DOMAIN events = 1..Len(events)
      /\ \A x \in DOMAIN events : events[x].session \in DOMAIN archives
  BY WorkerTypes
<1>1. ASSUME UNCHANGED <<events, archives>>
      PROVE  /\ \A x \in DOMAIN events :
                  /\ x \in DOMAIN events' /\ events'[x] = events[x]
                  /\ archives'[events[x].session] = archives[events[x].session]
             /\ \A y \in DOMAIN events' \ DOMAIN events : receipt'[y] = "none"
             /\ \A y \in DOMAIN events, x \in DOMAIN events' : x <= y => x \in DOMAIN events
  BY <1>1, Zenon
<1>2. ASSUME NEW c \in Contexts, Boot(c)
      PROVE  UNCHANGED <<events, archives, aside, receipt>>
  BY <1>2, Zenon DEF Boot, producerVars, workVars
<1>3. CASE Apply \/ PollStarts \/ ProducerStops \/ Clock \/ UNCHANGED runVars
  <2>1. UNCHANGED <<events, archives, aside, receipt>>
    BY <1>3 DEF Apply, PollStarts, ProducerStops, Clock, runVars, ledgerVars, producerVars, workVars
  <2> QED
    BY <2>1, <1>1
<1>4. CASE Take \/ Quarantine \/ Bind \/ Write \/ Refuse \/ GatewayEnds \/ Judge
  <2>1. UNCHANGED <<events, archives>> /\ aside \subseteq aside'
    BY <1>4, Zenon DEF Take, Quarantine, Bind, Write, Refuse, GatewayEnds, Judge, WorkerKeeps, producerVars
  <2>2. receipt' = receipt \/ Judge
    BY <1>4, Zenon DEF Take, Quarantine, Bind, Write, Refuse, GatewayEnds
  <2> QED
    BY <2>1, <2>2, <1>1
<1>5. CASE Activate
  <2>1. archives' = Append(archives, SessionArchive) /\ UNCHANGED <<events, aside, receipt>>
    BY <1>5 DEF Activate, workVars
  <2>2. archives \in Seq(Ledgers \cup {SessionArchive})
    BY <1>0, SeqMono
  <2>3. \A s \in DOMAIN archives : archives'[s] = archives[s]
    BY <2>1, <2>2, <1>0
  <2> QED
    BY <2>1, <2>3, <1>0
<1>6. CASE PollEnds
  <2>1. UNCHANGED <<archives, aside, receipt>>
    BY <1>6, Zenon DEF PollEnds, ledgerVars
  <2>2. CASE UNCHANGED events
    BY <2>1, <2>2, <1>1, Zenon
  <2>3. CASE \E e : events' = Append(events, e)
    <3> DEFINE n == Len(events) + 1
    <3>1. PICK e : events' = Append(events, e)
      BY <2>3
    <3>2. events \in Seq(EventsUpTo(Len(archives)) \cup {e})
      BY <1>0, SeqMono
    <3>3. /\ DOMAIN events' = 1..n
          /\ \A x \in DOMAIN events : events'[x] = events[x]
      BY <3>1, <3>2, <1>0
    <3>4. receipt[n] = "none"
      <4>1. Len(events) < MaxEvents
        BY <1>6 DEF PollEnds, WorkerShape
      <4>2. n \in EventIds /\ n > Len(events)
        BY <4>1, <1>0, Bounds DEF EventIds
      <4> QED
        BY <4>2 DEF Verdicts
    <3>5. \A y \in DOMAIN events' : y \in DOMAIN events \/ y = n
      BY <3>3, <1>0
    <3>6. \A x \in DOMAIN events : x \in DOMAIN events'
      BY <3>3, <1>0
    <3>7. \A y \in DOMAIN events, x \in DOMAIN events' : x <= y => x \in DOMAIN events
      BY <3>3, <1>0
    <3> QED
      BY <3>3, <3>4, <3>5, <3>6, <3>7, <2>1, Zenon
  <2> QED
    BY <1>6, <2>2, <2>3 DEF PollEnds
<1> QED
  BY <1>1, <1>2, <1>3, <1>4, <1>5, <1>6, Zenon DEF RunNext

\* Evidence of a reset precedes every later verdict of its run: whichever event
\* the worker takes next, and whatever crashes between the reset's publication
\* and its record, no event published after it is judged valid for that run
\* (bindRunFrame, InvalidateContext, the drain before the next session).
THEOREM ResetAlwaysSticks == RunSpec => []ResetSticks
<1>1. RunInit => ResetSticks
  <2>1. RunInit => DOMAIN events = {}
    BY DEF RunInit
  <2> QED
    BY <2>1 DEF ResetSticks
<1>2. ASSUME AInv, ResetSticks, [RunNext]_runVars PROVE ResetSticks'
  <2> USE <1>2 DEF AInv
  <2> SUFFICES ASSUME NEW x \in DOMAIN events', NEW y \in DOMAIN events',
                      x <= y, events'[x].reset, x \notin aside',
                      archives'[events'[x].session].ctx.run
                        = archives'[events'[y].session].ctx.run,
                      receipt'[y] = "valid"
               PROVE  FALSE
    BY Zenon DEF ResetSticks
  <2>1. y \in DOMAIN events /\ x \in DOMAIN events
    BY HistoryKept, Zenon
  <2>2. /\ events[x].reset /\ x \notin aside /\ RunOf(x) = RunOf(y)
    BY <2>1, HistoryKept DEF RunOf
  <2>3. receipt' = receipt \/ Judge
    BY HistoryKept, Zenon
  <2>4. CASE receipt' = receipt
    BY <2>1, <2>2, <2>4 DEF ResetSticks, RunOf
  <2>5. CASE Judge /\ receipt' # receipt
    <3>0. /\ DOMAIN events = 1..Len(events) /\ Len(events) \in Nat
          /\ \A z \in DOMAIN events : events[z].session \in DOMAIN archives
          /\ DOMAIN archives = 1..Len(archives) /\ Len(archives) \in Nat
          /\ DOMAIN events \subseteq EventIds
          /\ receipt \in [EventIds -> {"none", "valid", "invalid", "unverified"}]
      BY WorkerTypes, Zenon DEF WorkerShape, RunTypeOK
    <3>1. work.stage = "judge" /\ ~failed
          /\ receipt' = [receipt EXCEPT ![work.id] = Verdict(events[work.id])]
      BY <2>5 DEF Judge
    <3>2. work # NoWork /\ work.id \in pending
      BY <3>1, SMTT(20), Zenon DEF NoWork, WorkerShape
    <3>3. mem = disk
      BY <3>1, <3>2, Zenon DEF IInv, Shape, LedgerInSync
    <3>4. CASE y # work.id
      <4>1. receipt'[y] = receipt[y]
        BY <3>4, <3>1, <3>0, <2>1
      <4> QED
        BY <4>1, <2>1, <2>2, Zenon DEF ResetSticks, RunOf
    <3>5. CASE y = work.id
      <4>1. receipt'[y] = Verdict(events[y])
        BY <3>5, <3>1, <3>0, <2>1, Zenon
      <4>2. RunOf(y) \in disk.invalid
        <5>1. CASE events[x].session = events[y].session
          <6>1. events[y].reset
            BY <5>1, <2>1, <2>2, Zenon DEF Evidence
          <6> QED
            BY <6>1, <3>1, <3>5, <2>1, Zenon DEF Evidence
        <5>2. CASE events[x].session # events[y].session
          <6>1. events[y].session = Len(archives)
            BY <3>2, <3>5, Zenon DEF Evidence
          <6>2. x \notin pending
            BY <6>1, <5>2, Zenon DEF Evidence
          <6>3. receipt[x] # "none"
            BY <6>2, <2>1, <2>2 DEF Evidence
          <6> QED
            BY <6>3, <2>1, <2>2, Zenon DEF Evidence
        <5> QED
          BY <5>1, <5>2, Zenon
      <4>3. archives[events[y].session].ctx.run \in mem.invalid
        BY <4>2, <3>3 DEF RunOf
      <4>4. Verdict(events[y]) \in {"invalid", "unverified"}
        BY <4>3 DEF Verdict
      <4> QED
        BY <4>1, <4>4, Zenon
    <3> QED
      BY <3>4, <3>5, Zenon
  <2> QED
    BY <2>3, <2>4, <2>5, Zenon
<1>3. AInv /\ ResetSticks /\ [RunNext]_runVars => ResetSticks'
  BY <1>2, Zenon
<1> QED
  BY <1>1, <1>3, WorkerInvariant, PTL DEF RunSpec

\* A valid verdict of the archive, taken apart.
LEMMA ValidMeans ==
    ASSUME NEW e, Verdict(e) = "valid"
    PROVE  LET l == archives[e.session] IN
           /\ ~(e.end < e.start)
           /\ l.ctx.status # "revoked"
           /\ ~(e.start < l.ctx.from) /\ ~(e.end >= l.ctx.until)
           /\ l.applied # None /\ ~(e.start < l.applied)
<1> DEFINE l == archives[e.session]
<1>1. Evaluate(l, e) = "valid"
  BY DEF Verdict
<1> HIDE DEF l
<1>2. /\ ~(e.end < e.start)
      /\ l.ctx.status # "revoked"
      /\ ~(e.start < l.ctx.from) /\ ~(e.end >= l.ctx.until)
      /\ l.applied # None /\ ~(e.start < l.applied)
  BY <1>1, Zenon DEF Evaluate
<1> QED
  BY <1>2 DEF l

\* A valid verdict covers the whole poll, for every context and clock, the wall
\* clock set back included: the poll began after the activation of its session,
\* and every moment of it lies in the context's lifetime (Evaluate, Archive).
THEOREM ValidAlwaysCovers == RunSpec => []ValidCoversPoll
<1> DEFINE Covers(x) ==
             LET e == events[x]  l == archives[e.session] IN
             /\ l.ctx.status = "active" /\ l.applied <= e.start
             /\ \A t \in e.start..e.end : l.ctx.from <= t /\ t < l.ctx.until
<1>1. RunInit => ValidCoversPoll
  <2>1. RunInit => DOMAIN events = {}
    BY DEF RunInit
  <2> QED
    BY <2>1, Zenon DEF ValidCoversPoll
<1>2. ASSUME AInv, ValidCoversPoll, [RunNext]_runVars PROVE ValidCoversPoll'
  <2> USE <1>2 DEF AInv
  <2> SUFFICES ASSUME NEW x \in DOMAIN events', receipt'[x] = "valid"
               PROVE  LET e == events'[x]  l == archives'[e.session] IN
                      /\ l.ctx.status = "active" /\ l.applied <= e.start
                      /\ \A t \in e.start..e.end : l.ctx.from <= t /\ t < l.ctx.until
    BY SMTT(20), Zenon DEF ValidCoversPoll
  <2>1. x \in DOMAIN events /\ events'[x] = events[x]
        /\ archives'[events[x].session] = archives[events[x].session]
    BY HistoryKept, Zenon
  <2>2. SUFFICES Covers(x)
    BY <2>1, Zenon
  <2>3. receipt' = receipt \/ Judge
    BY HistoryKept, Zenon
  <2>4. CASE receipt[x] = "valid"
    BY <2>1, <2>4, Zenon DEF ValidCoversPoll
  <2>5. CASE Judge /\ receipt[x] # "valid"
    <3>1. DOMAIN events \subseteq EventIds
          /\ receipt \in [EventIds -> {"none", "valid", "invalid", "unverified"}]
          /\ archives \in Seq(Ledgers)
          /\ events[x] \in EventsUpTo(Len(archives))
          /\ events[x].session \in DOMAIN archives
      BY <2>1, WorkerTypes, Zenon DEF WorkerShape, RunTypeOK
    <3>2. Verdict(events[x]) = "valid"
      BY <3>1, <2>1, <2>5 DEF Judge
    <3> DEFINE e == events[x]
               l == archives[e.session]
    <3>3. l \in Ledgers /\ l.ctx \in Contexts
      BY <3>1 DEF WorkerShape
    <3>4. /\ l.ctx.from \in Nat /\ l.ctx.until \in Nat
          /\ l.ctx.status \in {"active", "revoked"}
      BY <3>3, RunLedgerAssumption, Zenon
    <3>5. e.start \in Nat /\ e.end \in Nat
      <4>1. e.start \in Times /\ e.end \in Times
        BY <3>1 DEF EventsUpTo
      <4> QED
        BY <4>1, Bounds DEF Times
    <3>6. l.applied \in Int
      <4>1. l.applied \in Times \cup {None}
        BY <3>3, Zenon DEF Ledgers
      <4> QED
        BY <4>1, Bounds DEF Times, None
    <3>7. /\ l.ctx.status # "revoked"
          /\ ~(e.start < l.ctx.from) /\ ~(e.end >= l.ctx.until)
          /\ ~(e.start < l.applied)
      BY <3>2, ValidMeans, Zenon
    <3> HIDE DEF e, l
    <3>8. /\ l.ctx.status = "active" /\ l.applied <= e.start
          /\ \A t \in e.start..e.end : l.ctx.from <= t /\ t < l.ctx.until
      BY <3>4, <3>5, <3>6, <3>7
    <3> QED
      BY <3>8, Zenon DEF e, l
  <2> QED
    BY <2>3, <2>4, <2>5
<1>3. AInv /\ ValidCoversPoll /\ [RunNext]_runVars => ValidCoversPoll'
  BY <1>2
<1> QED
  BY <1>1, <1>3, WorkerInvariant, PTL DEF RunSpec

=============================================================================
