----------------------------- MODULE ClockSync ------------------------------
(***************************************************************************)
(* Managed clock provisioning: the controller's apply transaction          *)
(* (internal/clocksync), the admission gate and worker of the gateway, the *)
(* exclusively owned BACnet container (internal/lifecycle), and the paused *)
(* producer inside it (connector/bacnet managed.py).                       *)
(*                                                                         *)
(* A configuration is named by its revision.  A session is one start of    *)
(* the producer; session n is sess[n], whose files are on disk before the  *)
(* container starts.  Every step of the controller may fail or time out.   *)
(***************************************************************************)
EXTENDS Integers, Sequences

CONSTANTS
    MaxRevs,      \* bound: revisions Building OS publishes
    MaxEvents,    \* bound: events published
    MaxFaults,    \* bound: steps that fail or time out
    MaxEnds,      \* bound: crashes of the gateway process
    ForeignBox,   \* a container of the same name that is not ours exists
    Stoppable     \* SIGTERM may arrive

Revisions == 1..MaxRevs

ASSUME ClockBoundsAssumption ==
    /\ MaxRevs \in Nat \ {0} /\ {MaxEvents, MaxFaults, MaxEnds} \subseteq Nat
    /\ {ForeignBox, Stoppable} \subseteq BOOLEAN

VARIABLES
    ri,         \* the newest revision published
    sess,       \* on disk: the revision of each session, and its receipt
    active,     \* on disk: active.json, the session last resumed
    box,        \* the container, with the producer's state
    cmd,        \* a command on its way through the gateway to the device
    pending,    \* events in the stream, not acknowledged
    events,     \* bound: events published so far
    worker,     \* the event the worker processes
    placed,     \* the last event placed: where, its session, the mapping used
    desired, applied, good,  \* the controller's snapshots; 0 is none
    mode, todo, \* what the controller does, and its remaining steps
    spent,      \* the context of a recovery or of the shutdown is done
    initialized,
    held,       \* the gate is closed
    barrier,    \* ResolverRuntime's flags
    resolver,   \* the revision of the resolver's mapping
    record, started, discovered, \* managedConnector
    own,        \* Exclusive knows the container's id
    stopping,   \* RequestStop was called
    faults, ends

diskVars == <<sess, active>>
busVars == <<pending, events, worker, placed>>
ctlVars == <<desired, applied, good, mode, todo, spent, initialized>>
coreVars == <<held, barrier, resolver, record, started, discovered, own>>
boundVars == <<faults, ends>>
clockVars == <<ri, diskVars, box, cmd, busVars, ctlVars, coreVars, stopping, boundVars>>

NoBox == [session |-> 0, up |-> FALSE, active |-> FALSE, lock |-> "free", owned |-> TRUE]
Stranger == [NoBox EXCEPT !.up = TRUE, !.owned = FALSE]
NoCmd == [at |-> "none", rev |-> 0, to |-> 0, waiting |-> FALSE]
NoBarrier == [held |-> FALSE, stopped |-> FALSE, drained |-> FALSE, verified |-> FALSE,
              conf |-> 0]
RevOf(s) == IF s = 0 THEN 0 ELSE sess[s].rev

HoldSteps == <<"hold", "settle", "discover", "quiesce", "paused">>
ClearSteps == HoldSteps \o <<"stop", "drain", "drained">>
InstallUncommitted == <<"configure", "start", "verify", "resume", "open", "commit">>  \* faulty
InstallSteps == <<"configure", "start", "verify", "resume", "commit", "open">>
Steps == {HoldSteps[i] : i \in DOMAIN HoldSteps} \cup {"stop", "drain", "drained"}
         \cup {InstallSteps[i] : i \in DOMAIN InstallSteps}

ClockTypeOK ==
    /\ ri \in Revisions
    /\ sess \in Seq([rev : Revisions, verified : BOOLEAN])
    /\ active \in 0..Len(sess) /\ record \in 0..Len(sess)
    /\ box \in [session : 0..Len(sess), up : BOOLEAN, active : BOOLEAN,
                lock : {"free", "poll", "write"}, owned : BOOLEAN]
    /\ cmd \in [at : {"none", "core", "found", "wire", "writing", "replied"}, rev : 0..MaxRevs,
                to : 0..Len(sess), waiting : BOOLEAN]
    /\ {desired, applied, good, resolver} \subseteq 0..MaxRevs
    /\ mode \in {"idle", "first", "apply", "rollback", "restore", "fail", "shutdown",
                "stopped", "exited"}
    /\ todo \in Seq(Steps)
    /\ worker \subseteq pending /\ \A d, e \in worker : d = e

\* A process begins with the gate closed and nothing confirmed.
ClockInit ==
    /\ ri = 1 /\ sess = << >> /\ active = 0
    /\ box \in {NoBox} \cup (IF ForeignBox THEN {Stranger} ELSE {})
    /\ cmd = NoCmd /\ pending = {} /\ events = 0
    /\ placed = [to |-> "nowhere", session |-> 0, rev |-> 0]
    /\ desired = 0 /\ applied = 0 /\ good = 0
    /\ mode = "idle" /\ todo = << >> /\ spent = FALSE /\ initialized = FALSE
    /\ held = TRUE /\ barrier = NoBarrier /\ resolver = 0
    /\ record = 0 /\ started = FALSE /\ discovered = FALSE /\ own = FALSE
    /\ stopping = FALSE /\ worker = {}
    /\ faults = 0 /\ ends = 0

-----------------------------------------------------------------------------
(* The producer.                                                           *)

\* ManagedRuntime.run: a poll of the points under the lock, its events
\* acknowledged by the stream.
PollBegins ==
    /\ box.up /\ box.owned /\ box.active /\ box.lock = "free"
    /\ events < MaxEvents
    /\ box' = [box EXCEPT !.lock = "poll"]
    /\ UNCHANGED <<ri, diskVars, cmd, busVars, ctlVars, coreVars, stopping, boundVars>>

PollPublishes ==
    /\ box.lock = "poll"
    /\ box' = [box EXCEPT !.lock = "free"]
    /\ events' = events + 1
    /\ pending' = pending \cup {[n |-> events', session |-> box.session]}
    /\ UNCHANGED <<ri, diskVars, cmd, worker, placed, ctlVars, coreVars,
                   stopping, boundVars>>

\* The process in the container exits; nothing restarts it.
BoxExits ==
    /\ box.up /\ box.owned
    /\ faults < MaxFaults /\ faults' = faults + 1
    /\ box' = [box EXCEPT !.up = FALSE, !.active = FALSE, !.lock = "free"]
    /\ UNCHANGED <<ri, diskVars, cmd, busVars, ctlVars, coreVars, stopping, ends>>

-----------------------------------------------------------------------------
(* Commands.                                                               *)

CmdStep == UNCHANGED <<ri, diskVars, busVars, ctlVars, coreVars, stopping, boundVars>>

EnterAlways ==  \* faulty: commands pass a closed gate
    /\ cmd = NoCmd
    /\ cmd' = [NoCmd EXCEPT !.at = "core", !.waiting = TRUE]
    /\ CmdStep /\ UNCHANGED box
Enter ==
    /\ cmd = NoCmd
    /\ ~held
    /\ cmd' = [NoCmd EXCEPT !.at = "core", !.waiting = TRUE]
    /\ CmdStep /\ UNCHANGED box

LookupReleases ==  \* faulty: the gate is left once the address is known
    /\ cmd.at = "core"
    /\ cmd' = [cmd EXCEPT !.at = IF resolver # 0 THEN "found" ELSE "replied", !.rev = resolver,
                          !.waiting = FALSE]
    /\ CmdStep /\ UNCHANGED box
\* ResolveControl, then a request to whoever is subscribed.
Lookup ==
    /\ cmd.at = "core"
    /\ cmd' = [cmd EXCEPT !.at = IF resolver # 0 THEN "found" ELSE "replied", !.rev = resolver]
    /\ CmdStep /\ UNCHANGED box

Send ==
    /\ cmd.at = "found"
    /\ cmd' = IF box.up /\ box.owned
              THEN [cmd EXCEPT !.at = "wire", !.to = box.session]
              ELSE [cmd EXCEPT !.at = "replied"]
    /\ CmdStep /\ UNCHANGED box

\* ManagedRuntime.command: under the lock, refused while paused.
Deliver ==
    /\ cmd.at = "wire"
    /\ box.up /\ box.session = cmd.to
    /\ box.lock = "free"
    /\ cmd' = [cmd EXCEPT !.at = IF box.active THEN "writing" ELSE "replied"]
    /\ box' = [box EXCEPT !.lock = IF box.active THEN "write" ELSE "free"]
    /\ CmdStep

WriteDone ==
    /\ cmd.at = "writing"
    /\ box.up /\ box.session = cmd.to
    /\ cmd' = [cmd EXCEPT !.at = "replied"]
    /\ box' = [box EXCEPT !.lock = "free"]
    /\ CmdStep

\* The dispatcher's timeout: it leaves the gate, the command goes on.
CmdTimeout ==
    /\ cmd.waiting /\ cmd.at \in {"wire", "writing"}
    /\ cmd' = [cmd EXCEPT !.waiting = FALSE]
    /\ CmdStep /\ UNCHANGED box

\* The reply arrives, or the command is gone with its producer.
CmdEnds ==
    /\ \/ cmd.at = "replied"
       \/ cmd.at \in {"wire", "writing"} /\ ~cmd.waiting
          /\ ~(box.up /\ box.session = cmd.to)
    /\ cmd' = NoCmd
    /\ CmdStep /\ UNCHANGED box

-----------------------------------------------------------------------------
(* The worker.                                                             *)

At(step) == todo # << >> /\ Head(todo) = step

\* The gate is open, or a drain goes on.
Allowed == ~held \/ At("drained")

WorkerTakes ==
    /\ mode \notin {"stopped", "exited"}
    /\ worker = {} /\ Allowed
    /\ \E e \in pending : worker' = {e}
    /\ UNCHANGED <<ri, diskVars, box, cmd, pending, events, placed, ctlVars,
                   coreVars, stopping, boundVars>>

MappingCurrent(e) == resolver  \* faulty: today's mapping is used
\* The mapping of the event's own session.
Mapping(e) == RevOf(e.session)

\* Stored or set aside, then acknowledged; without the acknowledgement the event
\* comes again.
WorkerDone ==
    /\ \E e \in worker :
         /\ placed' = IF sess[e.session].verified
                      THEN [to |-> "buffer", session |-> e.session, rev |-> Mapping(e)]
                      ELSE [to |-> "quarantine", session |-> e.session, rev |-> 0]
         /\ \/ pending' = pending \ {e} /\ UNCHANGED faults
            \/ faults < MaxFaults /\ faults' = faults + 1 /\ UNCHANGED pending
    /\ worker' = {}
    /\ UNCHANGED <<ri, diskVars, box, cmd, events, ctlVars, coreVars, stopping, ends>>

-----------------------------------------------------------------------------
(* The controller.                                                         *)

\* What a failed step leads to.  The rollback has a context of its own.
OnFail == [
    first    |-> [mode |-> "idle", todo |-> << >>],
    apply    |-> [mode |-> "rollback", todo |-> ClearSteps],
    rollback |-> [mode |-> "fail", todo |-> HoldSteps \o <<"stop">>],
    restore  |-> [mode |-> "fail", todo |-> HoldSteps \o <<"stop">>],
    fail     |-> IF todo = <<"stop">> THEN [mode |-> "idle", todo |-> << >>]
                 ELSE [mode |-> "fail", todo |-> <<"stop">>],
    shutdown |-> IF Len(todo) > 3 THEN [mode |-> "shutdown", todo |-> <<"stop", "drain", "drained">>]
                 ELSE [mode |-> "exited", todo |-> << >>]]

\* The step fails; when its time is up, so is that of the whole recovery.
Fail(timeUp) ==
    LET next == OnFail[mode] IN
    /\ mode' = next.mode /\ todo' = next.todo
    /\ spent' = (mode \in {"rollback", "restore", "fail", "shutdown"} /\ next.mode # "idle"
                 /\ (spent \/ timeUp))
    /\ UNCHANGED <<desired, applied, good, initialized>>

Restorable == good # 0

\* The step succeeds.  The last one ends what the controller does.
Done ==
    /\ UNCHANGED desired
    /\ IF Len(todo) > 1
       THEN /\ todo' = Tail(todo) /\ UNCHANGED <<applied, good, mode, spent, initialized>>
       ELSE /\ IF mode = "rollback" /\ Restorable
               THEN mode' = "restore" /\ todo' = InstallSteps /\ UNCHANGED spent
               ELSE /\ mode' = IF mode = "shutdown" THEN "stopped" ELSE "idle"
                    /\ todo' = << >> /\ spent' = FALSE
            /\ good' = IF mode = "apply" THEN desired ELSE good
            /\ applied' = CASE mode = "apply" -> desired [] mode = "restore" -> good [] OTHER -> applied
            /\ initialized' = (initialized \/ mode = "first")

\* The revision the transaction installs.
Wanted == IF mode = "apply" THEN desired ELSE good

\* A context that is done: every call that looks at it fails.
NoTime == spent \/ (stopping /\ mode \in {"first", "apply"})

Fault == faults < MaxFaults /\ faults' = faults + 1
Answers == box.up /\ box.owned /\ box.session = record

DueOnNew == desired # ri  \* faulty: an unchanged revision acknowledges a failed apply
Due == applied # ri

\* Sync, when idle: the first Hold, then a fetch (which may bring nothing new),
\* then the transaction, unless the desired revision is already confirmed.
FirstHold ==
    /\ mode = "idle" /\ ~stopping /\ ~initialized
    /\ mode' = "first" /\ todo' = HoldSteps
    /\ UNCHANGED <<ri, diskVars, box, cmd, busVars, desired, applied, good, spent, initialized,
                   coreVars, stopping, boundVars>>

Sync ==
    /\ mode = "idle" /\ ~stopping /\ initialized
    /\ Due
    /\ desired' = ri
    /\ applied' = 0
    /\ mode' = "apply" /\ todo' = ClearSteps \o InstallSteps
    /\ UNCHANGED <<ri, diskVars, box, cmd, busVars, good, spent, initialized, coreVars,
                   stopping, boundVars>>

\* Building OS publishes another revision.
Publish ==
    /\ ri < MaxRevs /\ ri' = ri + 1
    /\ UNCHANGED <<diskVars, box, cmd, busVars, ctlVars, coreVars, stopping, boundVars>>

-----------------------------------------------------------------------------
(* The steps: Exclusive, managedConnector, ResolverRuntime, Gateway.       *)

StepKeeps == UNCHANGED <<ri, stopping, ends>>

Hold ==
    /\ At("hold") /\ StepKeeps
    /\ held' = TRUE /\ Done
    /\ UNCHANGED <<diskVars, box, cmd, busVars, barrier, resolver, record, started,
                   discovered, own, faults>>

\* The worker and the commands inside the gate finish, or the time is up.
Settle ==
    LET idle == worker = {} /\ ~cmd.waiting IN
    /\ At("settle") /\ StepKeeps
    /\ \/ idle /\ Done /\ UNCHANGED faults
       \/ ~idle /\ Fail(TRUE) /\ (Fault \/ (NoTime /\ UNCHANGED faults))
    /\ UNCHANGED <<diskVars, box, cmd, busVars, held, barrier, resolver, record, started,
                   discovered, own>>

\* Exclusive.Stop: the container of this name, if it is ours, is stopped and
\* removed.  A failure may leave it running, or stopped and not removed.
Ours == box.owned
StopOk ==
    /\ Ours /\ ~NoTime
    /\ box' = NoBox /\ own' = FALSE /\ started' = FALSE /\ discovered' = TRUE
    /\ Done /\ UNCHANGED faults
StopFails ==
    /\ \/ /\ ~Ours \/ NoTime
          /\ Fail(NoTime) /\ UNCHANGED <<box, own, faults>>
       \/ /\ Ours /\ ~NoTime /\ Fault
          /\ \E late \in BOOLEAN : Fail(late)
          /\ own' = (own \/ box.session # 0)
          /\ box' \in {box, [box EXCEPT !.up = FALSE, !.active = FALSE, !.lock = "free"]}
    /\ UNCHANGED <<started, discovered>>

\* A process that has not looked yet stops what an earlier one left.
Discover ==
    /\ At("discover") /\ StepKeeps
    /\ \/ discovered /\ Done /\ UNCHANGED <<box, own, started, discovered, faults>>
       \/ ~discovered /\ (StopOk \/ StopFails)
    /\ UNCHANGED <<diskVars, cmd, busVars, held, barrier, resolver, record>>

\* The producer closes first, then lets go of the lock.  One that does not
\* answer is asked until the time is up, and the Stop that follows has none left.
Quiesce ==
    /\ At("quiesce") /\ StepKeeps
    /\ \/ ~started /\ Done /\ UNCHANGED <<box, faults>>
       \/ /\ started /\ Answers /\ ~NoTime
          /\ box' = [box EXCEPT !.active = FALSE]
          /\ Done /\ UNCHANGED faults
       \/ started /\ (~Answers \/ NoTime) /\ Fail(TRUE) /\ UNCHANGED <<box, faults>>
    /\ UNCHANGED <<diskVars, cmd, busVars, coreVars>>

Paused ==
    /\ At("paused") /\ StepKeeps
    /\ \/ /\ ~started \/ (Answers /\ box.lock = "free" /\ ~NoTime)
          /\ barrier' = [barrier EXCEPT !.held = @ \/ mode # "shutdown"]
          /\ Done /\ UNCHANGED faults
       \/ /\ started /\ Fail(TRUE) /\ UNCHANGED barrier
          /\ Fault \/ ((~Answers \/ NoTime) /\ UNCHANGED faults)
    /\ UNCHANGED <<diskVars, box, cmd, busVars, held, resolver, record, started, discovered, own>>

\* Shutdown calls the producer and the gate directly, past the barrier's flags.
Stop ==
    /\ At("stop") /\ StepKeeps
    /\ \/ /\ barrier.held /\ mode # "shutdown" /\ StopOk
          /\ barrier' = [barrier EXCEPT !.stopped = TRUE, !.drained = FALSE, !.verified = FALSE]
       \/ mode = "shutdown" /\ StopOk /\ UNCHANGED barrier
       \/ (barrier.held \/ mode = "shutdown") /\ StopFails /\ UNCHANGED barrier
       \/ /\ ~barrier.held /\ mode # "shutdown"
          /\ Fail(FALSE) /\ UNCHANGED <<box, own, started, discovered, barrier, faults>>
    /\ UNCHANGED <<diskVars, cmd, busVars, held, resolver, record>>

Drain ==
    /\ At("drain") /\ StepKeeps
    /\ IF mode = "shutdown" \/ (barrier.held /\ barrier.stopped) THEN Done ELSE Fail(FALSE)
    /\ UNCHANGED <<diskVars, box, cmd, busVars, coreVars, faults>>

BacklogEmpty == pending = {} /\ worker = {}
Drained ==
    /\ At("drained") /\ StepKeeps
    /\ \/ /\ BacklogEmpty /\ ~NoTime
          /\ barrier' = [barrier EXCEPT !.drained = @ \/ mode # "shutdown"]
          /\ Done /\ UNCHANGED faults
       \/ /\ Fail(TRUE) /\ UNCHANGED barrier
          /\ Fault \/ (NoTime /\ UNCHANGED faults)
    /\ UNCHANGED <<diskVars, box, cmd, busVars, held, resolver, record, started, discovered, own>>

\* atomicFile: one that fails leaves the old contents or the new.
AtomicFile(old, new) == {old, new}

NewSession == Append(sess, [rev |-> Wanted, verified |-> FALSE])

\* The session is on disk before anything else; then the barrier is asked.
Configure ==
    LET ready == barrier.held /\ barrier.stopped /\ barrier.drained /\ ~own IN
    /\ At("configure") /\ StepKeeps
    /\ \/ /\ sess' = NewSession
          /\ record' = Len(sess) + 1
          /\ IF ready
             THEN /\ resolver' = Wanted
                  /\ barrier' = [barrier EXCEPT !.conf = Wanted, !.verified = FALSE]
                  /\ Done
             ELSE Fail(FALSE) /\ UNCHANGED <<resolver, barrier>>
          /\ UNCHANGED faults
       \/ /\ Fault /\ Fail(FALSE) /\ UNCHANGED <<resolver, barrier>>
          /\ sess' \in AtomicFile(sess, NewSession)
          /\ record' \in {record, Len(sess) + 1}
          /\ record' <= Len(sess')
    /\ UNCHANGED <<active, box, cmd, busVars, held, started, discovered, own>>

\* started is set first.  A failure may leave no container, one that is created
\* (known or not), or one that runs.
Start ==
    LET new(up) == [NoBox EXCEPT !.session = record, !.up = up]
        ready == barrier.held /\ barrier.stopped /\ barrier.drained /\ barrier.conf # 0 IN
    /\ At("start") /\ StepKeeps
    /\ barrier' = IF ready THEN [barrier EXCEPT !.stopped = FALSE, !.drained = FALSE] ELSE barrier
    /\ started' = (started \/ (ready /\ ~stopping))
    /\ IF ~ready \/ stopping \/ own \/ NoTime \/ box # NoBox
       THEN Fail(FALSE) /\ UNCHANGED <<box, own, faults>>
       ELSE \/ box' = new(TRUE) /\ own' = TRUE /\ Done /\ UNCHANGED faults
            \/ /\ Fault /\ \E late \in BOOLEAN : Fail(late)
               /\ \/ own' = FALSE /\ box' \in {NoBox, new(FALSE)}
                  \/ own' = TRUE /\ box' \in {new(FALSE), new(TRUE)}
    /\ UNCHANGED <<diskVars, cmd, busVars, held, resolver, record, discovered>>

\* The running producer names its session and revision, paused; the receipt is
\* on disk before the step succeeds.
Receipt == sess' = [sess EXCEPT ![record].verified = TRUE]
Verify ==
    /\ At("verify") /\ StepKeeps
    /\ \/ /\ barrier.held /\ ~barrier.stopped /\ Answers /\ ~box.active /\ ~NoTime
          /\ \/ /\ Receipt /\ UNCHANGED faults
                /\ IF RevOf(record) = Wanted /\ Wanted = barrier.conf
                   THEN barrier' = [barrier EXCEPT !.verified = TRUE] /\ Done
                   ELSE barrier' = [barrier EXCEPT !.verified = FALSE] /\ Fail(FALSE)
             \/ /\ Fault /\ (Receipt \/ UNCHANGED sess)
                /\ \E late \in BOOLEAN : Fail(late)
                /\ barrier' = [barrier EXCEPT !.verified = FALSE]
       \/ /\ ~(barrier.held /\ ~barrier.stopped) \/ ~Answers \/ box.active \/ NoTime
          /\ Fail(~Answers)
          /\ barrier' = [barrier EXCEPT !.verified = FALSE] /\ UNCHANGED <<sess, faults>>
    /\ UNCHANGED <<active, box, cmd, busVars, held, resolver, record, started, discovered, own>>

\* The producer polls again.  Its answer may be lost.
Resume ==
    LET ready == barrier.held /\ ~barrier.stopped /\ barrier.verified IN
    /\ At("resume") /\ StepKeeps
    /\ \/ /\ ready /\ ~stopping /\ Answers /\ ~NoTime
          /\ box' = [box EXCEPT !.active = TRUE]
          /\ (Done /\ UNCHANGED faults) \/ (Fault /\ Fail(TRUE))
       \/ /\ ~ready \/ stopping \/ ~Answers \/ NoTime
          /\ Fail(~Answers) /\ UNCHANGED <<box, faults>>
    /\ UNCHANGED <<diskVars, cmd, busVars, coreVars>>

\* active.json names the session.
Commit ==
    /\ At("commit") /\ StepKeeps
    /\ \/ ~stopping /\ active' = record /\ Done /\ UNCHANGED faults
       \/ ~stopping /\ active' \in AtomicFile(active, record) /\ Fault /\ Fail(FALSE)
       \/ stopping /\ Fail(FALSE) /\ UNCHANGED <<active, faults>>
    /\ UNCHANGED <<sess, box, cmd, busVars, coreVars>>

OpenAnyway ==  \* faulty: a stop that came meanwhile is not seen
    /\ At("open") /\ StepKeeps
    /\ held' = FALSE /\ barrier' = [barrier EXCEPT !.held = FALSE] /\ Done
    /\ UNCHANGED <<diskVars, box, cmd, busVars, resolver, record, started, discovered, own, faults>>
Open ==
    /\ At("open") /\ StepKeeps
    /\ \/ ~stopping /\ held' = FALSE /\ barrier' = [barrier EXCEPT !.held = FALSE] /\ Done
       \/ stopping /\ Fail(FALSE) /\ UNCHANGED <<held, barrier>>
    /\ UNCHANGED <<diskVars, box, cmd, busVars, resolver, record, started, discovered, own, faults>>

-----------------------------------------------------------------------------
(* The process.                                                            *)

\* SIGTERM: RequestStop closes the gate for good and cancels the controller.
RequestStop ==
    /\ Stoppable /\ ~stopping
    /\ stopping' = TRUE /\ held' = TRUE
    /\ UNCHANGED <<ri, diskVars, box, cmd, busVars, ctlVars, barrier, resolver, record,
                   started, discovered, own, boundVars>>

ShutdownSteps == ClearSteps

\* Once the controller has let go of the lease, or without it when the time is up.
Shutdown ==
    /\ stopping /\ mode = "idle"
    /\ mode' = "shutdown" /\ todo' = ShutdownSteps
    /\ UNCHANGED <<ri, diskVars, box, cmd, busVars, desired, applied, good, spent, initialized,
                   coreVars, stopping, boundVars>>

LeaseExpires ==
    /\ stopping /\ mode \notin {"shutdown", "stopped", "exited"} /\ Fault
    /\ mode' = "exited" /\ todo' = << >>
    /\ UNCHANGED <<ri, diskVars, box, cmd, busVars, desired, applied, good, spent, initialized,
                   coreVars, stopping, ends>>

\* The revision active.json leads to.
LastGood == RevOf(active)

\* The process ends, at any moment, and another begins: openSessions, Claim,
\* RestoreLastGood.  The container and a command it has go on.
GatewayEnds ==
    /\ ends < MaxEnds /\ ends' = ends + 1
    /\ desired' = 0 /\ applied' = 0 /\ good' = LastGood
    /\ mode' = "idle" /\ todo' = << >> /\ spent' = FALSE /\ initialized' = FALSE
    /\ held' = TRUE /\ barrier' = NoBarrier /\ resolver' = 0
    /\ record' = 0 /\ started' = FALSE /\ discovered' = FALSE /\ own' = FALSE
    /\ stopping' = FALSE /\ worker' = {}
    /\ cmd' = IF cmd.at \in {"wire", "writing"} THEN [cmd EXCEPT !.waiting = FALSE] ELSE NoCmd
    /\ UNCHANGED <<ri, diskVars, box, pending, events, placed, faults>>

ProducerNext == PollBegins \/ PollPublishes \/ BoxExits
CommandNext == Enter \/ Lookup \/ Send \/ Deliver \/ WriteDone \/ CmdTimeout \/ CmdEnds
WorkerNext == WorkerTakes \/ WorkerDone
ControllerNext ==
    FirstHold \/ Sync \/ Hold \/ Settle \/ Discover \/ Quiesce \/ Paused \/ Stop \/ Drain
    \/ Drained \/ Configure \/ Start \/ Verify \/ Resume \/ Commit \/ Open \/ Shutdown

ClockNext ==
    \/ ProducerNext \/ CommandNext \/ WorkerNext \/ ControllerNext
    \/ Publish \/ RequestStop \/ LeaseExpires \/ GatewayEnds

\* Every goroutine, task and container that can go on does.
ClockFairness ==
    /\ WF_clockVars(PollPublishes) /\ WF_clockVars(WorkerNext) /\ WF_clockVars(ControllerNext)
    /\ WF_clockVars(Lookup \/ Send \/ Deliver \/ WriteDone \/ CmdEnds)

ClockSpec == ClockInit /\ [][ClockNext]_clockVars /\ ClockFairness

-----------------------------------------------------------------------------
(* Properties.                                                             *)

\* The journal a restart reads is sound: active.json names a session whose receipt is
\* on disk, so that lastGood never refuses to start the gateway.
JournalSound == active # 0 => sess[active].verified

\* Core telemetry and command admission is open (Gateway.held is false) only over
\* one coherent configuration: the resolver, the producer's record, the last-good
\* pointer on disk and the container that runs all have the same revision, and
\* the session's receipt is on disk.  Open or closed, the journal is sound.
OpenIsCoherent ==
    /\ ClockTypeOK
    /\ JournalSound
    /\ ~held =>
          /\ record # 0 /\ active = record /\ sess[record].verified
          /\ resolver = RevOf(record)
          /\ box # NoBox => box.session = record

\* A frame in the buffer was resolved with the mapping of the session that
\* published it, whatever was applied, rolled back or restarted since, and no
\* event of a managed producer is set aside: it can publish only after its
\* receipt is on disk (Gateway.process).
EventsKeepTheirMapping ==
    /\ placed.to # "quarantine"
    /\ placed.rev = RevOf(placed.session)

\* The resolver's mapping is replaced only with the gate closed, no producer, no
\* event of an earlier session still in the stream and no command inside the gate.
ReplacedBehindBarrier ==
    [][resolver' \notin {resolver, 0} =>
         held /\ box = NoBox /\ pending = {} /\ worker = {} /\ ~cmd.waiting]_clockVars

\* A stop is final and clean: once it is requested admission does not open again in
\* this process, whatever step of an apply it meets, and a shutdown that reports no
\* error leaves no container of ours running and nothing in the stream.
CleanShutdown ==
    /\ stopping => held
    /\ mode = "stopped" => ~(box.up /\ box.owned) /\ pending = {}

\* The equipment sees whole configurations: a write in progress on the device has
\* the revision of the producer that carries it out, and one producer is gone before
\* the next one starts.
inForce == INSTANCE Switchover WITH
    force <- IF box.up THEN RevOf(box.session) ELSE 0,
    busy <- IF cmd.at = "writing" /\ box.up /\ box.session = cmd.to THEN {cmd.rev} ELSE {}
ImplementsSwitchover == inForce!SwitchSpec

\* The newest revision is applied in the end, as the controller polls and retries
\* (Controller.Run), unless the process is stopped, a foreign container is in the
\* way, or the producer it counts as started does not run.
Converges ==
    \/ <>[](applied = ri)
    \/ <>stopping
    \/ <>[](~box.owned \/ (started /\ ~box.up))
=============================================================================
