----------------------------- MODULE RunLedger ------------------------------
(***************************************************************************)
(* The run-context ledger (internal/runcontext), its binding to the        *)
(* managed sessions and frames (internal/clocksync/run_context.go), and    *)
(* the clocked poll that finds resets (connector/bacnet connector.py).     *)
(*                                                                         *)
(* A ledger is a file and its copy in memory.  Every session archives the  *)
(* ledger of its activation; every event is judged once, and the verdict   *)
(* is on disk before the frame is buffered.                                *)
(***************************************************************************)
EXTENDS Integers, Sequences, FiniteSets

CONSTANTS
    Runs,         \* run identifiers
    Contexts,     \* the run contexts an operator may place before a start
    Revision,     \* the provisioning revision the snapshots have
    MaxTime,      \* bound: the wall clock
    MaxSessions, MaxEvents,  \* bounds
    MaxFaults,    \* bound: failed writes, backward steps of the wall clock
    MaxEnds       \* bound: ends of the gateway process

None == -1
Times == 0..MaxTime
NoContext == [gen |-> 0, run |-> "no run", status |-> "none", issued |-> 0, from |-> 0,
              until |-> 0, rev |-> 0]

ASSUME RunLedgerAssumption ==
    /\ {MaxTime, MaxSessions, MaxEvents, MaxFaults, MaxEnds} \subseteq Nat
    /\ Contexts \subseteq [gen : Nat, run : Runs, status : {"active", "revoked"}, issued : Nat,
                            from : Nat, until : Nat, rev : Nat]

VARIABLES
    now,       \* the wall clock
    disk,      \* the ledger file
    mem,       \* Ledger.data of the process
    failed,    \* Ledger.failed: a write failed
    up,        \* the gateway process runs with the run context bound
    archives,  \* on disk: the ledger archived at each session's activation
    producer,  \* the session that polls, and its state; session 0 is none
    events,    \* every event published
    pending,   \* the events not acknowledged
    work,      \* the event the worker processes, and how far it is
    receipt,   \* on disk: the verdict on each event
    buffer,    \* the frames written: event and verdict
    aside,     \* the events in quarantine
    faults, ends

producerVars == <<producer, events>>
workVars == <<pending, work, receipt, buffer, aside>>
ledgerVars == <<disk, mem, failed, up, archives>>
runVars == <<now, ledgerVars, producerVars, workVars, faults, ends>>

Ledgers == [ctx : Contexts \cup {NoContext}, committed : Times \cup {None},
            applied : Times \cup {None}, invalid : SUBSET Runs]
NoProducer == [session |-> 0, seen |-> FALSE, latched |-> FALSE, start |-> None]
NoWork == [id |-> 0, stage |-> "idle"]
EventIds == 1..MaxEvents

RunTypeOK ==
    /\ now \in Times
    /\ disk \in Ledgers /\ mem \in Ledgers
    /\ archives \in Seq(Ledgers) /\ Len(archives) <= MaxSessions
    /\ producer \in [session : 0..Len(archives), seen : BOOLEAN, latched : BOOLEAN,
                     start : Times \cup {None}]
    /\ events \in Seq([session : 1..Len(archives), start : Times, end : Times, reset : BOOLEAN])
    /\ pending \subseteq 1..Len(events)
    /\ work.id \in pending \cup {0}
    /\ work.stage \in {"idle", "bind", "judge", "write"}
    /\ receipt \in [EventIds -> {"none", "valid", "invalid", "unverified"}]

RunInit ==
    /\ now = 0
    /\ disk = [ctx |-> NoContext, committed |-> None, applied |-> None, invalid |-> {}]
    /\ mem = disk /\ failed = FALSE /\ up = FALSE
    /\ archives = << >> /\ producer = NoProducer /\ events = << >>
    /\ pending = {} /\ work = NoWork
    /\ receipt = [e \in EventIds |-> "none"] /\ buffer = {} /\ aside = {}
    /\ faults = 0 /\ ends = 0

Fault == faults < MaxFaults /\ faults' = faults + 1

-----------------------------------------------------------------------------
(* The ledger.                                                             *)

\* verify: the contract of a context.
Wellformed(c) ==
    /\ c.gen >= 1 /\ c.status \in {"active", "revoked"}
    /\ c.issued <= c.from /\ c.from < c.until

\* Open: what a ledger file must satisfy.
Opens(l) ==
    IF l.ctx # NoContext
    THEN /\ Wellformed(l.ctx)
         /\ l.ctx.issued <= l.committed /\ l.committed < l.ctx.until
         /\ l.applied # None => l.committed <= l.applied /\ l.applied < l.ctx.until
    ELSE l.committed = None /\ l.applied = None

\* persist: the file, then the copy in memory.  After a failure the file is the
\* old or the new one and the ledger is unusable until the next process.
Persisted(next) == disk' = next /\ mem' = next /\ UNCHANGED <<failed, faults>>
ForgivesFailure(next) == disk' \in {disk, next} /\ UNCHANGED <<mem, failed>> /\ Fault  \* faulty
PersistFails(next) == disk' \in {disk, next} /\ failed' = TRUE /\ UNCHANGED mem /\ Fault

AcceptsAny(l, c) ==  \* faulty: an older generation is accepted
    /\ Wellformed(c) /\ c.issued <= now /\ now < c.until
\* Commit: which contexts may follow.
Accepts(l, c) ==
    /\ Wellformed(c) /\ c.issued <= now /\ now < c.until
    /\ IF l.ctx = NoContext THEN c.gen = 1 ELSE c.gen > l.ctx.gen

Committed(l, c) ==
    [ctx |-> c, committed |-> now, applied |-> None,
     invalid |-> l.invalid \cup (IF c.status = "revoked" THEN {c.run} ELSE {})]

\* EnableRunContextFile: the process opens the ledger and commits the context; the
\* same context again changes nothing.  Otherwise it does not start.
Boot(c) ==
    /\ ~up /\ Opens(disk)
    /\ \/ /\ c = disk.ctx /\ now < c.until /\ c.issued <= now
          /\ mem' = disk /\ failed' = FALSE /\ up' = TRUE
          /\ UNCHANGED <<disk, faults>>
       \/ /\ Accepts(disk, c)
          /\ \/ /\ disk' = Committed(disk, c) /\ mem' = disk' /\ failed' = FALSE
                /\ up' = TRUE /\ UNCHANGED faults
             \/ /\ disk' = Committed(disk, c) /\ Fault
                /\ UNCHANGED <<mem, failed, up>>
    /\ UNCHANGED <<now, archives, producerVars, workVars, ends>>

ApplicableAny == now < mem.ctx.until  \* faulty: the clock stepped back is not seen
Applicable == mem.committed <= now /\ now < mem.ctx.until

\* activateRunSession: Apply records the first activation of this context.
Apply ==
    /\ up /\ ~failed /\ Applicable
    /\ mem.applied = None
    /\ LET next == [mem EXCEPT !.applied = now] IN Persisted(next) \/ PersistFails(next)
    /\ UNCHANGED <<now, up, archives, producerVars, workVars, ends>>

\* Archive: the ledger of this moment, with this session's activation.
SessionArchive == [mem EXCEPT !.applied = now]

\* validateRunSnapshot.
SnapshotMatches == mem.ctx.rev = Revision

\* Then Archive, and the producer may poll.  The stream is empty: the drain comes
\* before the session.
Activate ==
    /\ up /\ ~failed /\ Applicable
    /\ mem.applied # None /\ SnapshotMatches
    /\ producer = NoProducer /\ pending = {} /\ Len(archives) < MaxSessions
    /\ archives' = Append(archives, SessionArchive)
    /\ producer' = [NoProducer EXCEPT !.session = Len(archives) + 1]
    /\ UNCHANGED <<now, disk, mem, failed, up, events, workVars, faults, ends>>

EvaluateEnd(l, e) ==  \* faulty: the poll's start is not looked at
    CASE e.end < e.start -> "invalid"
      [] l.ctx.rev # Revision \/ l.ctx.status = "revoked" -> "invalid"
      [] e.end < l.ctx.from \/ e.end >= l.ctx.until -> "invalid"
      [] l.applied = None -> "unverified"
      [] e.end < l.applied \/ l.ctx.run \in l.invalid -> "invalid"
      [] OTHER -> "valid"
\* Evaluate: the whole acquisition interval against the archived context.
Evaluate(l, e) ==
    CASE e.end < e.start -> "invalid"
      [] l.ctx.rev # Revision \/ l.ctx.status = "revoked" -> "invalid"
      [] e.start < l.ctx.from \/ e.end >= l.ctx.until -> "invalid"
      [] l.applied = None -> "unverified"
      [] e.start < l.applied \/ l.ctx.run \in l.invalid -> "invalid"
      [] OTHER -> "valid"

-----------------------------------------------------------------------------
(* The clocked poll.                                                       *)

\* A boundary read that sees a lower value than the one before latches the reset
\* for the producer's lifetime; a read may also fail.
Boundary(lower, ok) ==
    [producer EXCEPT !.latched = @ \/ (ok /\ producer.seen /\ lower), !.seen = @ \/ ok]

PollStarts ==
    /\ producer # NoProducer /\ producer.start = None /\ Len(events) < MaxEvents
    /\ \E lower, ok \in BOOLEAN : producer' = [Boundary(lower, ok) EXCEPT !.start = now]
    /\ UNCHANGED <<now, ledgerVars, events, workVars, faults, ends>>

\* The last boundary read, then the publication, which may fail.
PollEnds ==
    /\ producer.start # None
    /\ \E lower, ok \in BOOLEAN : producer' = [Boundary(lower, ok) EXCEPT !.start = None]
    /\ \/ /\ events' = Append(events, [session |-> producer.session, start |-> producer.start,
                                       end |-> now, reset |-> producer'.latched])
          /\ pending' = pending \cup {Len(events) + 1}
          /\ UNCHANGED faults
       \/ Fault /\ UNCHANGED <<events, pending>>
    /\ UNCHANGED <<now, ledgerVars, work, receipt, buffer, aside, ends>>

\* The switch, a rollback or the next process stops the producer.
ProducerStops ==
    /\ producer # NoProducer /\ producer' = NoProducer
    /\ UNCHANGED <<now, ledgerVars, events, workVars, faults, ends>>

-----------------------------------------------------------------------------
(* bindRunFrame, and the worker around it.                                 *)

WorkerKeeps == UNCHANGED <<now, up, archives, producerVars, ends>>

Take ==
    /\ up /\ work = NoWork
    /\ \E id \in pending : work' = [id |-> id, stage |-> "bind"]
    /\ WorkerKeeps /\ UNCHANGED <<disk, mem, failed, pending, receipt, buffer, aside, faults>>

\* An impossible interval sets the event aside.
Quarantine ==
    LET e == events[work.id] IN
    /\ work.stage = "bind" /\ (e.end < e.start \/ e.end > now)
    /\ pending' = pending \ {work.id} /\ aside' = aside \cup {work.id} /\ work' = NoWork
    /\ WorkerKeeps /\ UNCHANGED <<disk, mem, failed, receipt, buffer, faults>>

KnownNever(id) == FALSE  \* faulty: an event delivered again is judged again
Known(id) == receipt[id] # "none"

InvalidateNot(l) == mem  \* faulty: evidence of a reset is not kept
\* InvalidateContext: the run of the archived context, current or not.
Invalidated(l) == [mem EXCEPT !.invalid = @ \cup {l.ctx.run}]

\* A receipt decides; evidence of a reset is in the ledger before the verdict.
Bind ==
    LET e == events[work.id]
        next == Invalidated(archives[e.session]) IN
    /\ work.stage = "bind" /\ ~(e.end < e.start \/ e.end > now)
    /\ \/ /\ Known(work.id)
          /\ work' = [work EXCEPT !.stage = "write"] /\ UNCHANGED <<disk, mem, failed, faults>>
       \/ /\ ~Known(work.id) /\ ~e.reset
          /\ work' = [work EXCEPT !.stage = "judge"] /\ UNCHANGED <<disk, mem, failed, faults>>
       \/ /\ ~Known(work.id) /\ e.reset
          /\ ~failed /\ archives[e.session].ctx.gen <= mem.ctx.gen
          /\ \/ Persisted(next) /\ work' = [work EXCEPT !.stage = "judge"]
             \/ PersistFails(next) /\ work' = NoWork
    /\ WorkerKeeps /\ UNCHANGED <<pending, receipt, buffer, aside>>

\* The archive's verdict, unless the run has been invalidated or replaced since.
Verdict(e) ==
    LET l == archives[e.session] IN
    CASE l.ctx.run \in mem.invalid -> "invalid"
      [] l.ctx.run # mem.ctx.run -> "unverified"
      [] OTHER -> Evaluate(l, e)

Judge ==
    /\ work.stage = "judge" /\ ~failed
    /\ \/ /\ receipt' = [receipt EXCEPT ![work.id] = Verdict(events[work.id])]
          /\ work' = [work EXCEPT !.stage = "write"] /\ UNCHANGED faults
       \/ Fault /\ work' = NoWork /\ UNCHANGED receipt
    /\ WorkerKeeps /\ UNCHANGED <<disk, mem, failed, pending, buffer, aside>>

\* The frame is in the buffer before the acknowledgement, which may be lost.
Write ==
    /\ work.stage = "write"
    /\ buffer' = buffer \cup {[id |-> work.id, verdict |-> receipt[work.id]]}
    /\ \/ pending' = pending \ {work.id} /\ UNCHANGED faults
       \/ Fault /\ UNCHANGED pending
    /\ work' = NoWork
    /\ WorkerKeeps /\ UNCHANGED <<disk, mem, failed, receipt, aside>>

\* With a failed ledger the event is refused and comes again.
Refuse ==
    /\ failed /\ work.stage \in {"bind", "judge"}
    /\ work' = NoWork
    /\ WorkerKeeps /\ UNCHANGED <<disk, mem, failed, pending, receipt, buffer, aside, faults>>

\* The process ends at any moment; the producer's container and the files remain.
GatewayEnds ==
    /\ up /\ ends < MaxEnds /\ ends' = ends + 1
    /\ up' = FALSE /\ work' = NoWork
    /\ UNCHANGED <<now, disk, mem, failed, archives, producerVars, pending, receipt, buffer, aside, faults>>

\* Time passes; the wall clock may be set back.
Clock ==
    /\ \/ now < MaxTime /\ now' = now + 1 /\ UNCHANGED faults
       \/ now > 0 /\ now' = now - 1 /\ Fault
    /\ UNCHANGED <<ledgerVars, producerVars, workVars, ends>>

RunNext ==
    \/ \E c \in Contexts : Boot(c)
    \/ Apply \/ Activate \/ PollStarts \/ PollEnds \/ ProducerStops
    \/ Take \/ Quarantine \/ Bind \/ Judge \/ Write \/ Refuse
    \/ GatewayEnds \/ Clock

RunSpec == RunInit /\ [][RunNext]_runVars

-----------------------------------------------------------------------------
(* Properties.                                                             *)

\* What the process believes is what a restart would read: a usable ledger
\* (Ledger.failed is false) has the contents of its file.
LedgerInSync == up /\ ~failed => mem = disk

\* The ledger file only moves forward: generations never roll back and an
\* invalidated or revoked run never becomes valid again, whatever fails and
\* restarts in between.
LedgerRatchets ==
    [][disk'.ctx.gen >= disk.ctx.gen /\ disk.invalid \subseteq disk'.invalid]_runVars

\* No restart is refused by a file the program itself wrote: Open accepts the
\* ledger and every archive, also when the wall clock was set back.
LedgerReopens == Opens(disk) /\ \A s \in DOMAIN archives : Opens(archives[s])

\* One event, one verdict: an event delivered again, after a crash, a reset, an
\* expiry or a newer run, is buffered with the verdict it had.
OneVerdict ==
    /\ RunTypeOK
    /\ \A x, y \in buffer : x.id = y.id => x.verdict = y.verdict

\* Evidence of a reset comes before later telemetry: once an event that carries it
\* is in the stream (and not set aside for an impossible interval), no event published
\* from then on is judged valid for that run, in this session or a later one.
ResetSticks ==
    \A x, y \in DOMAIN events :
       /\ x <= y /\ events[x].reset /\ x \notin aside
       /\ archives[events[x].session].ctx.run = archives[events[y].session].ctx.run
       => receipt[y] # "valid"

\* A valid verdict covers the whole poll: it began after this session's activation
\* and inside the context's lifetime, and ended inside it.
ValidCoversPoll ==
    \A x \in DOMAIN events : receipt[x] = "valid" =>
       LET e == events[x]  l == archives[e.session] IN
       /\ l.ctx.status = "active" /\ l.applied <= e.start
       /\ \A t \in e.start..e.end : l.ctx.from <= t /\ t < l.ctx.until
=============================================================================
