----------------------------- MODULE PointSync ------------------------------
(***************************************************************************)
(* The Point List: Building OS publishes revisions, the sync loop          *)
(* (internal/pointsync) fetches full lists or diffs through the            *)
(* FallbackClient (internal/provisioning) and swaps them into the          *)
(* SyncedResolver (internal/pointlist), which it also persists.            *)
(*                                                                         *)
(* A list maps each of its points to a native address, or to Release for a *)
(* release point, which has none.  The ETag of revision n is n.            *)
(***************************************************************************)
EXTENDS Integers, Sequences, FiniteSets, Functions, TLC

CONSTANTS
    Points, Locals,  \* point_ids; (connector_id, local_id) pairs
    FileList,        \* the list in the bootstrap file
    Fallback,        \* provisioning mode fallback (else url)
    Takeover,        \* a point may get the address another point gives up
    Unreachable,     \* the provisioning API may fail
    Ticker,          \* the poll interval elapses
    MaxRevs,         \* bound: revisions Building OS publishes
    MaxRestarts      \* bound: ends of the gateway process

Release == "release"

\* Lists Building OS can hold: an address belongs to one point.
Lists ==
    {f \in UNION {[S -> Locals \cup {Release}] : S \in SUBSET Points} :
        \A p, q \in DOMAIN f : f[p] = f[q] /\ f[p] # Release => p = q}

NoTag == 0     \* the empty ETag
FileTag == -1  \* the ETag of the file, its content hash
Empty == << >>

ASSUME FileAssumption == FileList \in Lists /\ IsFiniteSet(Points)
ASSUME ModesAssumption == {Fallback, Takeover, Unreachable, Ticker} \subseteq BOOLEAN
ASSUME SyncBoundsAssumption == MaxRevs \in Nat \ {0} /\ MaxRestarts \in Nat

VARIABLES
    revs,      \* the revisions Building OS published
    notices,   \* PointListUpdate messages on the Egress stream
    signal,    \* one waits in revalidatePL (capacity 1)
    pc,        \* where Run is; "off" without a process
    ready,     \* Ready() is closed
    started,   \* the Normalizer runs
    promoted,  \* FallbackClient.promoted
    etag,      \* syncState.etag
    entries,   \* syncState.entries
    applied,   \* Loop.appliedETag
    resolver,  \* the list of the resolver's index
    disk,      \* the persisted snapshot, with its origin
    origin,    \* history: the ETag the resolver's list came with
    restarts   \* bound: process ends so far

loopVars == <<pc, ready, promoted, etag, entries, applied, resolver, origin>>
bosVars == <<revs, notices>>
syncVars == <<loopVars, bosVars, signal, started, disk, restarts>>

Current == Len(revs)
Tags == {FileTag} \cup 0..MaxRevs
AnyList == UNION {[S -> Locals \cup {Release}] : S \in SUBSET Points}
Absent == [list |-> Empty, origin |-> NoTag, ok |-> TRUE]

PointSyncTypeOK ==
    /\ revs \in Seq(Lists) /\ notices \in 0..MaxRevs
    /\ signal \in BOOLEAN /\ ready \in BOOLEAN /\ started \in BOOLEAN
    /\ promoted \in BOOLEAN
    /\ pc \in {"off", "load", "sync", "updated", "truncate", "write", "idle"}
    /\ etag \in Tags /\ applied \in Tags /\ origin \in Tags
    /\ entries \in AnyList /\ resolver \in AnyList
    /\ disk \in [list : AnyList, origin : Tags, ok : BOOLEAN]
    /\ restarts \in 0..MaxRestarts

PointSyncInit ==
    /\ revs \in {<<f>> : f \in Lists}
    /\ notices = 0 /\ signal = FALSE
    /\ pc = "load" /\ ready = FALSE /\ started = FALSE
    /\ promoted = FALSE /\ etag = NoTag /\ entries = Empty /\ applied = NoTag
    /\ resolver = Empty /\ origin = NoTag
    /\ disk = Absent
    /\ restarts = 0

-----------------------------------------------------------------------------
(* Building OS.                                                            *)

\* A point that keeps its id does not get an address another one gives up.
Calm(old, new) ==
    \A p, o \in DOMAIN old \cap DOMAIN new :
        new[p] # old[p] /\ new[p] # Release /\ o # p => old[o] # new[p]

\* A new revision, announced on the Egress stream if it is up.
Publish ==
    /\ Current < MaxRevs
    /\ \E new \in Lists :
         /\ new # revs[Current]
         /\ Takeover \/ \A n \in 1..Current : Calm(revs[n], new)
         /\ revs' = Append(revs, new)
    /\ notices' = IF pc = "off" THEN 0 ELSE notices + 1
    /\ UNCHANGED <<loopVars, signal, started, disk, restarts>>

\* A point that takes over the address of a removed one may be reported as
\* changed, in place of the removal (TestLoop_AppliesDiff).
Renames(old, new) ==
    {q \in DOMAIN new \ DOMAIN old :
        new[q] # Release /\ \E p \in DOMAIN old \ DOMAIN new : old[p] = new[q]}

Diff(old, new, renamed) ==
    [added   |-> Restrict(new, (DOMAIN new \ DOMAIN old) \ renamed),
     removed |-> {p \in DOMAIN old \ DOMAIN new :
                    \A q \in renamed : old[p] # new[q]},
     changed |-> Restrict(new, renamed \cup
                    {p \in DOMAIN old \cap DOMAIN new : old[p] # new[p]})]

-----------------------------------------------------------------------------
(* The sync loop.                                                          *)

\* The orders in which the entries of S may be listed.
Orders(S) == {order \in [1..Cardinality(S) -> S] : Range(order) = S}

\* The points the list gives the address of a changed entry to, other than its own.
HolderKept(cur, p, local) == {}  \* faulty: a rename leaves the old point
Holder(cur, p, local) ==
    IF local = Release THEN {} ELSE {o \in DOMAIN cur : cur[o] = local} \ {p}

\* Removed, then added, then the changed entries in the order they are listed: each
\* deletes the holder of its address and is set, so a deleted point stays deleted
\* unless an entry after it sets it.  byLocal is built from the current list and not
\* maintained.
ApplyDiff(cur, d, order) ==
    LET byID == (DOMAIN cur \ d.removed) \cup DOMAIN d.added \cup DOMAIN d.changed
        deleted == {q \in DOMAIN cur :
                      \E j \in DOMAIN order :
                        /\ q \in Holder(cur, order[j], d.changed[order[j]])
                        /\ \A i \in DOMAIN order : order[i] = q => i < j}
    IN  [p \in byID \ deleted |-> IF p \in DOMAIN d.changed THEN d.changed[p]
                                ELSE IF p \in DOMAIN d.added THEN d.added[p] ELSE cur[p]]

\* Run restores the persisted snapshot; one that does not parse is ignored.
Load ==
    /\ pc = "load"
    /\ pc' = "sync"
    /\ resolver' = IF disk.ok THEN disk.list ELSE resolver
    /\ origin' = IF disk.ok THEN disk.origin ELSE origin
    /\ UNCHANGED <<ready, promoted, etag, entries, applied, bosVars, signal, started,
                   disk, restarts>>

\* Faulty: the next diff is applied to the list before this one.
TakeForgets(list, tag) ==
    /\ resolver' = list
    /\ etag' = tag
    /\ origin' = tag
    /\ pc' = "updated"
    /\ UNCHANGED <<entries, ready, applied>>
\* Fetch returned a list: syncState and the resolver take it.
Take(list, tag) ==
    /\ entries' = list
    /\ resolver' = list
    /\ etag' = tag
    /\ origin' = tag
    /\ pc' = "updated"
    /\ UNCHANGED <<ready, applied>>

\* sync returns without a change; Run closes Ready after the first one.
NoChange ==
    /\ pc' = "idle"
    /\ ready' = TRUE
    /\ UNCHANGED <<etag, entries, applied, resolver, origin>>

\* The ETag the primary is asked with: none before the promotion.
KnownETag == IF Fallback /\ ~promoted THEN NoTag ELSE etag

\* The provisioning API answers: 304, the full list, or the difference.
FetchPrimary ==
    /\ pc = "sync"
    /\ promoted' = Fallback
    /\ \/ KnownETag = Current /\ NoChange
       \/ KnownETag # Current /\ Take(revs[Current], Current)
       \/ /\ KnownETag \in 1..(Current - 1)
          /\ \E renamed \in SUBSET Renames(revs[KnownETag], revs[Current]) :
               LET d == Diff(revs[KnownETag], revs[Current], renamed)
               IN  \E order \in Orders(DOMAIN d.changed) :
                     Take(ApplyDiff(entries, d, order), Current)
    /\ UNCHANGED <<bosVars, signal, started, disk, restarts>>

FetchFails ==
    /\ pc = "sync"
    /\ Unreachable
    /\ NoChange
    /\ UNCHANGED <<promoted, bosVars, signal, started, disk, restarts>>

\* The primary fails before it ever answered: the file is read.
BeforePromotionAlways == TRUE  \* faulty: every failure falls back
BeforePromotion == ~promoted

FetchSecondary ==
    /\ pc = "sync"
    /\ Fallback /\ Unreachable
    /\ BeforePromotion
    /\ IF etag = FileTag THEN NoChange ELSE Take(FileList, FileTag)
    /\ UNCHANGED <<promoted, bosVars, signal, started, disk, restarts>>

\* appliedETag follows the resolver under its own lock.
SetApplied ==
    /\ pc = "updated"
    /\ applied' = etag
    /\ pc' = "truncate"
    /\ UNCHANGED <<ready, promoted, etag, entries, resolver, origin, bosVars, signal,
                   started, disk, restarts>>

\* Persist: os.WriteFile truncates the file and writes the snapshot.
Truncate ==
    /\ pc = "truncate"
    /\ disk' = [disk EXCEPT !.ok = FALSE]
    /\ pc' = "write"
    /\ UNCHANGED <<ready, promoted, etag, entries, applied, resolver, origin, bosVars,
                   signal, started, restarts>>

Write ==
    /\ pc = "write"
    /\ disk' = [list |-> resolver, origin |-> origin, ok |-> TRUE]
    /\ pc' = "idle"
    /\ ready' = TRUE
    /\ UNCHANGED <<promoted, etag, entries, applied, resolver, origin, bosVars, signal,
                   started, restarts>>

\* The Egress agent receives the notice; a full channel drops the signal.
NoticeWhenIdle ==  \* faulty: the channel has no buffer
    /\ notices > 0
    /\ notices' = notices - 1
    /\ signal' = (signal \/ pc = "idle")
    /\ UNCHANGED <<loopVars, revs, started, disk, restarts>>
Notice ==
    /\ notices > 0
    /\ notices' = notices - 1
    /\ signal' = TRUE
    /\ UNCHANGED <<loopVars, revs, started, disk, restarts>>

Resync ==
    /\ pc = "idle"
    /\ pc' = "sync"
    /\ \/ signal /\ signal' = FALSE
       \/ Ticker /\ UNCHANGED signal
    /\ UNCHANGED <<ready, promoted, etag, entries, applied, resolver, origin, bosVars,
                   started, disk, restarts>>

\* main goes on once Ready is closed, or after 30 s of an API that does not
\* answer, and starts the Normalizer.
StartPipeline ==
    /\ pc # "off"
    /\ ready \/ Unreachable
    /\ ~started
    /\ started' = TRUE
    /\ UNCHANGED <<loopVars, bosVars, signal, disk, restarts>>

\* The process ends, at any step, and the stream with it.
ProcessEnds ==
    /\ pc # "off"
    /\ restarts < MaxRestarts
    /\ restarts' = restarts + 1
    /\ pc' = "off"
    /\ ready' = FALSE /\ started' = FALSE /\ signal' = FALSE /\ notices' = 0
    /\ promoted' = FALSE /\ etag' = NoTag /\ entries' = Empty /\ applied' = NoTag
    /\ resolver' = Empty /\ origin' = NoTag
    /\ UNCHANGED <<revs, disk>>

ProcessStarts ==
    /\ pc = "off"
    /\ pc' = "load"
    /\ UNCHANGED <<ready, promoted, etag, entries, applied, resolver, origin, bosVars,
                   signal, started, disk, restarts>>

LoopStep == Load \/ FetchPrimary \/ FetchFails \/ FetchSecondary \/ SetApplied
            \/ Truncate \/ Write \/ Resync

PointSyncNext ==
    \/ Publish \/ Notice \/ LoopStep \/ StartPipeline \/ ProcessEnds \/ ProcessStarts

PointSyncSpec == PointSyncInit /\ [][PointSyncNext]_syncVars

\* The loop's goroutine and the Egress agent run, and the process is restarted.
PointSyncFairSpec ==
    /\ PointSyncSpec
    /\ WF_syncVars(LoopStep)
    /\ WF_syncVars(Notice)
    /\ WF_syncVars(ProcessStarts)

-----------------------------------------------------------------------------
(* Properties.                                                             *)

\* "AppliedRevision returns the point-list ETag currently applied to the
\* resolver": once sync has published it, the resolver holds that list, whether
\* it was assembled from diffs, fetched whole or read from the file.
ReportedIsApplied ==
    applied # NoTag /\ pc # "updated" =>
        resolver = IF applied = FileTag THEN FileList ELSE revs[applied]

\* Resolve is a function: no diff leaves two points at one address ("map
\* iteration order is non-deterministic -> flaky Resolve results").
OneAddressOnePoint ==
    /\ PointSyncTypeOK
    /\ \A p, q \in DOMAIN resolver :
          resolver[p] = resolver[q] /\ resolver[p] # Release => p = q

\* "One-way ratchet": once Building OS has answered, the resolver never goes back
\* to the file, nor to an older revision, while the process runs.
Ratchet == [][promoted /\ promoted' => origin' >= origin]_syncVars

\* No announcement is lost: with the poll interval never elapsing, signals alone,
\* some of them dropped on a full channel, bring every revision to the resolver.
SignalsSuffice ==
    \A n \in 1..MaxRevs : (Current >= n) ~> (origin >= n)
=============================================================================
