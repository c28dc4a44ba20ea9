----------------------------- MODULE Lifecycle ------------------------------
(***************************************************************************)
(* Connector containers: the Manager's operations (internal/lifecycle) and *)
(* their callers, the Admin API, the catalog Updater and Watch.            *)
(*                                                                         *)
(* One connector, since its lock, its registry entry and its container     *)
(* name "nexus-<id>" are its own.  An operation holds the lock and goes    *)
(* through its calls of the container daemon one by one.  A manifest is    *)
(* named by the image it lists; the permissions it declares are data.      *)
(***************************************************************************)
EXTENDS Integers, Sequences

CONSTANTS
    Images,       \* digest-pinned references
    Signed,       \* references whose signature cosign accepts
    Crashing,     \* images whose process may exit by itself
    Tag,          \* the image by its tag, perhaps available locally
    Manifests,    \* what the catalog may serve
    AdhocUpgrade, \* --allow-adhoc-upgrade
    MaxBoxes,     \* bound: containers created
    MaxFaults,    \* bound: failures of the daemon
    MaxEnds       \* bound: ends of the gateway process

None == "none"
Refs == Images \cup {Tag}

ASSUME ImagesAssumption == Tag \notin Images /\ None \notin Refs /\ Signed \subseteq Refs
ASSUME ManifestsAssumption ==
    Manifests \subseteq [image : Images, valid : BOOLEAN, required : BOOLEAN]
ASSUME LifecycleBoundsAssumption == {MaxBoxes, MaxFaults, MaxEnds} \subseteq Nat

VARIABLES
    boxes,    \* the daemon's containers named "nexus-<id>": none or one
    made,     \* containers created so far; the last one's id
    entry,    \* the registry's entry
    job,      \* the operation that holds the connector's lock
    polled,   \* the Updater saw the connector running and fetches
    watch,    \* the container Watch looks at, and whether it saw it down
    upgraded, \* history: images an operator named to Upgrade
    faults,   \* bound: daemon failures so far
    ends      \* bound: process ends so far

lifecycleVars == <<boxes, made, entry, job, polled, watch, upgraded, faults, ends>>

NoSpec == [image |-> None, prev |-> None]
NoEntry == [spec |-> NoSpec, cid |-> 0, running |-> FALSE]
NoJob == [op |-> "none", todo |-> << >>, cid |-> 0, spec |-> NoSpec, old |-> None]
NoWatch == [cid |-> 0, down |-> FALSE]

AnyRef == Refs \cup {None}
Specs == [image : AnyRef, prev : AnyRef]
Calls == {"create", "start", "stop", "halt", "remove", "discard", "pull", "verify",
          "register", "restore", "soak"}

LifecycleTypeOK ==
    /\ boxes \subseteq [cid : 1..MaxBoxes, image : Refs, up : BOOLEAN]
    /\ \A b, c \in boxes : b = c
    /\ made \in 0..MaxBoxes
    /\ entry \in [spec : Specs, cid : 0..MaxBoxes, running : BOOLEAN]
    /\ job.op \in {"none", "start", "stop", "restart", "upgrade", "update", "undo",
                   "rollback", "install", "watch"}
    /\ job.todo \in Seq(Calls) /\ job.spec \in Specs
    /\ (job.op = "none") <=> (job.todo = << >>)
    /\ watch \in [cid : 0..MaxBoxes, down : BOOLEAN]
    /\ polled \in BOOLEAN /\ upgraded \subseteq Images
    /\ faults \in 0..MaxFaults /\ ends \in 0..MaxEnds

LifecycleInit ==
    /\ boxes = {} /\ made = 0 /\ entry = NoEntry /\ job = NoJob
    /\ polled = FALSE /\ watch = NoWatch /\ upgraded = {}
    /\ faults = 0 /\ ends = 0

-----------------------------------------------------------------------------
(* The operations take the lock.                                           *)

Idle == job = NoJob
Known == entry # NoEntry

Begin(op, todo, spec) ==
    job' = [op |-> op, todo |-> todo, cid |-> entry.cid, spec |-> spec,
            old |-> entry.spec.image]

\* doStart: create, then start.
DoStart == <<"create", "start">>

AdminOnly == UNCHANGED <<boxes, made, entry, polled, watch, faults, ends>>

Start ==
    /\ Idle /\ Known
    /\ Begin("start", DoStart, NoSpec)
    /\ AdminOnly /\ UNCHANGED upgraded

Stop ==
    /\ Idle /\ Known
    /\ entry.cid # 0
    /\ Begin("stop", <<"stop">>, NoSpec)
    /\ AdminOnly /\ UNCHANGED upgraded

Restart ==
    /\ Idle /\ Known
    /\ Begin("restart", (IF entry.cid # 0 THEN <<"halt", "discard">> ELSE << >>) \o DoStart,
             NoSpec)
    /\ AdminOnly /\ UNCHANGED upgraded

UpgradeStopsFirst ==  \* faulty: the pull comes after the stop
    <<"stop", "remove", "pull", "register">> \o DoStart
\* "Pull new image before stopping to minimise downtime."
UpgradeCalls == <<"pull", "stop", "remove", "register">> \o DoStart

Upgrade ==
    /\ AdhocUpgrade
    /\ Idle /\ Known
    /\ \E image \in Images :
         /\ Begin("upgrade", UpgradeCalls,
                  [image |-> image, prev |-> entry.spec.image])
         /\ upgraded' = upgraded \cup {image}
    /\ AdminOnly

Rollback ==
    /\ Idle /\ Known
    /\ entry.spec.prev # None
    /\ Begin("rollback", <<"stop", "remove", "register">> \o DoStart,
             [image |-> entry.spec.prev, prev |-> entry.spec.image])
    /\ AdminOnly /\ UNCHANGED upgraded

\* The manifests that pass Validate: digest, registry, gateway version.
Validated == {m \in Manifests : m.valid}

VerifySkipped(m) == << >>  \* faulty: signature_required is ignored
\* The signature is verified if the manifest asks for it.
Verify(m) == IF m.required THEN <<"verify">> ELSE << >>

UpdateCalls(m) ==
    <<"pull">> \o Verify(m) \o <<"stop", "remove", "register">> \o DoStart \o <<"soak">>

\* Update with any manifest the catalog served, perhaps an old one.
Update ==
    /\ Idle /\ Known
    /\ \E m \in Validated :
         /\ entry.spec.image # m.image
         /\ Begin("update", UpdateCalls(m),
                  [image |-> m.image, prev |-> entry.spec.image])

AdminUpdate == Update /\ AdminOnly /\ UNCHANGED upgraded

\* POST /connectors/{id}/{action}.
AdminAction == Start \/ Stop \/ Restart \/ Upgrade \/ Rollback \/ AdminUpdate

\* Updater.poll: the connector is running when listed; the rest comes later.
Poll ==
    /\ entry.running
    /\ ~polled /\ polled' = TRUE
    /\ UNCHANGED <<boxes, made, entry, job, watch, upgraded, faults, ends>>

\* The fetch fails, the manifest is refused, or Update runs.
PollUpdate ==
    /\ polled /\ polled' = FALSE
    /\ Update \/ UNCHANGED job
    /\ UNCHANGED <<boxes, made, entry, watch, upgraded, faults, ends>>

\* An image found locally by its tag is used as it is.
Install ==
    /\ Idle
    /\ \E m \in Validated, ref \in Refs :
         /\ ref \in {m.image, Tag}
         /\ Begin("install", (IF ref = Tag THEN << >> ELSE <<"pull">>) \o Verify(m)
                             \o <<"register">> \o DoStart,
                  [image |-> ref, prev |-> None])
    /\ AdminOnly /\ UNCHANGED upgraded

\* Watch lists the running connectors, inspects a container without the lock,
\* and restarts the connector if it gets the lock at once.
WatchList ==
    /\ watch = NoWatch
    /\ entry.running /\ entry.cid # 0
    /\ watch' = [cid |-> entry.cid, down |-> FALSE]
    /\ UNCHANGED <<boxes, made, entry, job, polled, upgraded, faults, ends>>

WatchInspect ==
    /\ watch.cid # 0 /\ ~watch.down
    /\ watch' = IF \E b \in boxes : b.cid = watch.cid /\ ~b.up
                THEN [watch EXCEPT !.down = TRUE]
                ELSE NoWatch
    /\ UNCHANGED <<boxes, made, entry, job, polled, upgraded, faults, ends>>

WatchRestart ==
    /\ watch.down
    /\ watch' = NoWatch
    /\ IF Idle /\ Known
       THEN /\ entry' = [entry EXCEPT !.cid = 0, !.running = FALSE]
            /\ job' = [NoJob EXCEPT !.op = "watch", !.todo = DoStart]
       ELSE UNCHANGED <<entry, job>>
    /\ UNCHANGED <<boxes, made, polled, upgraded, faults, ends>>

-----------------------------------------------------------------------------
(* The calls of the operation that holds the lock.                         *)

Call == IF Idle THEN "none" ELSE Head(job.todo)

\* The container the call is about.
Target == CASE Call \in {"stop", "halt", "soak"} -> entry.cid
            [] Call \in {"remove", "discard"}    -> job.cid
            [] Call = "start"                    -> made
            [] OTHER                             -> 0

\* Calls about a container that was never there are not made.
Skipped == Call \in {"stop", "remove"} /\ Target = 0

\* The daemon: whether the call succeeds, and the containers after it.
Succeeds ==
    \/ Skipped
    \/ Call \in {"pull", "register", "restore"}
    \/ Call = "verify" /\ job.spec.image \in Signed
    \/ Call = "create" /\ boxes = {} /\ Known
    \/ Call \in {"start", "stop", "halt"} /\ \E b \in boxes : b.cid = Target
    \/ Call \in {"remove", "discard"} /\ \E b \in boxes : b.cid = Target /\ ~b.up
    \/ Call = "soak" /\ \E b \in boxes : b.cid = Target /\ b.up

\* The container the registered spec asks for; env, mounts and network are data.
Created == [cid |-> made + 1, image |-> entry.spec.image, up |-> FALSE]

Daemon ==
    /\ boxes' = IF Skipped THEN boxes
                ELSE CASE Call = "create" -> {Created}
                       [] Call \in {"start", "stop", "halt"} ->
                            {[b EXCEPT !.up = (Call = "start")] : b \in boxes}
                       [] Call \in {"remove", "discard"} -> {}
                       [] OTHER -> boxes
    /\ made' = IF Call = "create" THEN made + 1 ELSE made

Advance == job' = IF Len(job.todo) = 1 THEN NoJob ELSE [job EXCEPT !.todo = Tail(@)]

\* What the operation does to the registry after a call that succeeded.
Registered ==
    CASE Call = "start" -> [entry EXCEPT !.cid = made, !.running = TRUE]
      [] Call \in {"stop", "discard"} -> [entry EXCEPT !.cid = 0, !.running = FALSE]
      [] Call = "register" -> [entry EXCEPT !.spec = job.spec]
      [] Call = "restore" -> [entry EXCEPT !.spec.image = job.old]
      [] OTHER -> entry

CallSucceeds ==
    /\ Succeeds
    /\ Call = "create" => made < MaxBoxes
    /\ Daemon
    /\ entry' = Registered
    /\ Advance

\* Errors of these calls are only logged.
Tolerated == \/ Call = "remove"
             \/ Call = "stop" /\ job.op = "undo"

UndoKeeps == <<"stop", "restore">> \o DoStart  \* faulty: the failed container stays
\* rollback: stop and remove the failed container, start the previous image.
UndoCalls == <<"stop", "remove", "restore">> \o DoStart

ForgetNot == FALSE  \* faulty: a connector that failed to start stays registered
\* Install takes the connector out of the registry again.
Forget == job.op = "install" /\ Call \in {"create", "start"}

\* What the operation does about a call that failed.
Error ==
    /\ CASE Tolerated -> Advance
         [] job.op = "update" /\ Call \in {"create", "start", "soak"} ->
              job' = [job EXCEPT !.op = "undo", !.todo = UndoCalls, !.cid = entry.cid]
         [] OTHER -> job' = NoJob
    /\ entry' = IF Forget THEN NoEntry ELSE entry

\* The soak also ends when the caller's context does.
CallFails ==
    /\ ~Succeeds \/ Call = "soak"
    /\ Error
    /\ UNCHANGED <<boxes, made>>

Step ==
    /\ ~Idle
    /\ CallSucceeds \/ CallFails
    /\ UNCHANGED <<polled, watch, upgraded, faults, ends>>

\* The daemon does not answer, whether or not it did what was asked.
DaemonFails ==
    /\ ~Idle /\ ~Skipped /\ Call \notin {"register", "restore"}
    /\ faults < MaxFaults
    /\ faults' = faults + 1
    /\ Error
    /\ \/ UNCHANGED <<boxes, made>>
       \/ Succeeds /\ (Call = "create" => made < MaxBoxes) /\ Daemon
    /\ UNCHANGED <<polled, watch, upgraded, ends>>

\* The process in a container exits.
Exit ==
    /\ \E b \in boxes : b.up /\ b.image \in Crashing
    /\ boxes' = {[b EXCEPT !.up = FALSE] : b \in boxes}
    /\ UNCHANGED <<made, entry, job, polled, watch, upgraded, faults, ends>>

\* The gateway ends and starts again with an empty registry.
GatewayEnds ==
    /\ ends < MaxEnds
    /\ ends' = ends + 1
    /\ entry' = NoEntry /\ job' = NoJob /\ polled' = FALSE /\ watch' = NoWatch
    /\ UNCHANGED <<boxes, made, upgraded, faults>>

LifecycleNext ==
    \/ AdminAction \/ Install
    \/ Poll \/ PollUpdate \/ WatchList \/ WatchInspect \/ WatchRestart
    \/ Step \/ DaemonFails \/ Exit \/ GatewayEnds

LifecycleSpec == LifecycleInit /\ [][LifecycleNext]_lifecycleVars

-----------------------------------------------------------------------------
(* Health.                                                                 *)

\* Probe: the container's state overrides the registry's Running flag.
Probe == IF entry.cid = 0 THEN entry.running
         ELSE \E b \in boxes : b.cid = entry.cid /\ b.up

-----------------------------------------------------------------------------
(* Properties.                                                             *)

\* "An unsigned image never runs" (ADR-0006): whatever succession of installs,
\* updates, restarts and rollbacks, failed or not, a container is only made from
\* an image whose manifest passed, or which an operator named to Upgrade.
VerifiedImages ==
    \A b \in boxes :
        \/ b.image \in upgraded
        \/ \E m \in Validated : /\ b.image \in {m.image, Tag}
                                /\ m.required => b.image \in Signed

\* What the gateway says of a connector is so.  No orphaned IDs: while the daemon does
\* what it is asked, a connector the registry calls running has the container and the
\* image the registry names.  And /health never calls a connector running whose
\* container is not, whatever exits and failures have left in the registry.
RegistryNamesBox ==
    /\ LifecycleTypeOK
    /\ Idle /\ entry.running /\ faults = 0 =>
          \E b \in boxes : b.cid = entry.cid /\ b.image = entry.spec.image
    /\ Probe => \E b \in boxes : b.up

\* "If container exits -> rollback": an update whose new container exits in the
\* soak window, or whose caller goes away meanwhile, ends with the previous image
\* running.
RollbackRestores ==
    [][job.op = "undo" /\ job' = NoJob /\ ends' = ends /\ faults' = 0 /\ job.cid # 0 =>
         /\ entry'.running /\ entry'.spec.image = job.old
         /\ \E b \in boxes' : b.cid = entry'.cid /\ b.up /\ b.image = job.old]_lifecycleVars

\* "Cosign verify before touching the running container", and the pull: no
\* operation takes a running container down while it may still turn back for
\* want of the new image.
DownOnlyWhenReady ==
    [][(\E b \in boxes : b.up) /\ (\A b \in boxes' : ~b.up) /\ job' # job =>
         \A i \in DOMAIN job.todo : job.todo[i] \notin {"pull", "verify"}]_lifecycleVars
=============================================================================
