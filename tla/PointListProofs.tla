-------------------------- MODULE PointListProofs ---------------------------
(***************************************************************************)
(* The Point List and what follows from it.                                *)
(*                                                                         *)
(* The sync, for every set of points and addresses, every file, every      *)
(* order of diffs and any number of revisions: the ratchet, that nothing   *)
(* announced is lost, and as long as no diff hands an address over, that   *)
(* the list in the resolver is the one whose revision is reported.         *)
(*                                                                         *)
(* The subscriptions of the MQTT connector, for every Point List,          *)
(* configuration and set of static filters: no gap and no overlap through  *)
(* a live change.  A session that no apply crossed holds, at each step of  *)
(* an apply, at least the filters of the step, and unless some were left   *)
(* over no others; and on concrete topics the connector's matcher is the   *)
(* broker's.                                                               *)
(***************************************************************************)
EXTENDS PointSync, Subscriptions, TLAPS

\* No list in the resolver or on disk is newer than Building OS, and a process that has
\* restored its snapshot has not heard Building OS yet.
RatchetInv ==
    /\ revs \in Seq(Lists)
    /\ origin \in Int /\ origin <= Current
    /\ disk = [list |-> disk.list, origin |-> disk.origin, ok |-> disk.ok]
    /\ disk.origin \in Int /\ disk.origin <= Current
    /\ pc \in {"off", "load"} => ~promoted

\* A publication only adds a revision.
LEMMA PublishGrows ==
    ASSUME RatchetInv, Publish
    PROVE  revs' \in Seq(Lists) /\ Current' = Current + 1 /\ Current \in Nat
<1>1. PICK new \in Lists : revs' = Append(revs, new) BY DEF Publish
<1> QED BY <1>1 DEF RatchetInv, Current

\* A fetch leaves the origin, or moves it to the current revision.
LEMMA FetchMoves ==
    ASSUME FetchPrimary
    PROVE  /\ origin' \in {origin, Current} /\ pc' \in {"idle", "updated"}
           /\ UNCHANGED <<revs, disk>>
BY DEF FetchPrimary, NoChange, Take, bosVars

\* The file is read only before Building OS has answered.
LEMMA FileOnlyBefore ==
    ASSUME FetchSecondary
    PROVE  /\ origin' \in {origin, FileTag} /\ pc' \in {"idle", "updated"}
           /\ ~promoted /\ UNCHANGED <<revs, disk, promoted>>
BY DEF FetchSecondary, BeforePromotion, NoChange, Take, bosVars

\* Every step keeps the invariant.
LEMMA RatchetInvKept ==
    ASSUME RatchetInv, [PointSyncNext]_syncVars
    PROVE  RatchetInv'
<1>1. Current \in Nat BY DEF RatchetInv, Current
<1>2. CASE Publish
  <2>1. UNCHANGED <<pc, promoted, origin, disk>> BY <1>2 DEF Publish, loopVars
  <2> QED BY <1>1, <1>2, <2>1, PublishGrows DEF RatchetInv
<1>3. ASSUME UNCHANGED revs PROVE Current' = Current BY <1>3 DEF Current
<1>4. CASE Load
  <2>1. /\ origin' \in {origin, disk.origin} /\ pc' = "sync" /\ UNCHANGED <<revs, disk>>
    BY <1>4 DEF Load, bosVars
  <2> QED BY <1>3, <2>1 DEF RatchetInv
<1>5. CASE FetchPrimary BY <1>1, <1>3, <1>5, FetchMoves DEF RatchetInv
<1>6. CASE FetchSecondary BY <1>1, <1>3, <1>6, FileOnlyBefore DEF RatchetInv, FileTag
<1>7. CASE Write
  <2>1. /\ disk' = [list |-> resolver, origin |-> origin, ok |-> TRUE]
        /\ pc' = "idle" /\ UNCHANGED <<revs, origin>>
    BY <1>7 DEF Write, bosVars
  <2>2. /\ disk'.origin = origin
        /\ disk' = [list |-> disk'.list, origin |-> disk'.origin, ok |-> disk'.ok]
    BY <2>1
  <2> QED BY <1>3, <2>1, <2>2 DEF RatchetInv
<1>8. CASE Truncate
  <2>1. disk' = [disk EXCEPT !.ok = FALSE] /\ pc' = "write" /\ UNCHANGED <<revs, origin>>
    BY <1>8 DEF Truncate, bosVars
  <2>2. /\ disk'.origin = disk.origin
        /\ disk' = [list |-> disk'.list, origin |-> disk'.origin, ok |-> disk'.ok]
    BY <2>1, Zenon DEF RatchetInv
  <2> QED BY <1>3, <2>1, <2>2 DEF RatchetInv
<1>9. CASE ProcessEnds
  <2>1. ~promoted' /\ origin' = NoTag /\ UNCHANGED <<revs, disk>> BY <1>9 DEF ProcessEnds
  <2> QED BY <1>1, <1>3, <2>1 DEF RatchetInv, NoTag
<1>10. CASE ProcessStarts
  BY <1>3, <1>10 DEF ProcessStarts, bosVars, RatchetInv
<1>11. CASE FetchFails \/ SetApplied \/ Resync
  <2>1. pc' \notin {"off", "load"} /\ UNCHANGED <<revs, origin, disk>>
    BY <1>11 DEF FetchFails, NoChange, SetApplied, Resync, bosVars
  <2> QED BY <1>3, <2>1 DEF RatchetInv
<1>12. CASE Notice \/ StartPipeline \/ UNCHANGED syncVars
  <2>1. UNCHANGED <<revs, pc, promoted, origin, disk>>
    BY <1>12 DEF Notice, StartPipeline, syncVars, loopVars, bosVars
  <2> QED BY <1>3, <2>1 DEF RatchetInv
<1> QED
  BY <1>2, <1>4, <1>5, <1>6, <1>7, <1>8, <1>9, <1>10, <1>11, <1>12, SMTT(20), Zenon
     DEF PointSyncNext, LoopStep

\* A process that has heard Building OS, before and after a step, has not gone back.
LEMMA RatchetStep ==
    ASSUME RatchetInv, [PointSyncNext]_syncVars, promoted, promoted'
    PROVE  origin' >= origin
<1>1. Current \in Nat /\ origin \in Int /\ origin <= Current BY DEF RatchetInv, Current
<1>2. ~Load BY DEF RatchetInv, Load
<1>3. ~FetchSecondary BY FileOnlyBefore
<1>4. ~ProcessEnds BY DEF ProcessEnds
<1>5. CASE FetchPrimary BY <1>1, <1>5, FetchMoves
<1>6. CASE \/ Publish \/ Notice \/ FetchFails \/ SetApplied \/ Truncate \/ Write \/ Resync
           \/ StartPipeline \/ ProcessStarts \/ UNCHANGED syncVars
  <2>1. UNCHANGED origin
    BY <1>6 DEF Publish, Notice, FetchFails, NoChange, SetApplied, Truncate, Write, Resync,
                StartPipeline, ProcessStarts, syncVars, loopVars
  <2> QED BY <1>1, <2>1
<1> QED BY <1>2, <1>3, <1>4, <1>5, <1>6, SMTT(20), Zenon DEF PointSyncNext, LoopStep

\* "One-way ratchet" (FallbackClient.Fetch, Loop.sync): once Building OS has answered, no
\* list from the file and no older revision reaches the resolver while the process runs.
THEOREM NeverBackToTheFile == PointSyncSpec => Ratchet
<1>1. ASSUME PointSyncInit PROVE RatchetInv
  <2>1. PICK f \in Lists : revs = <<f>> BY <1>1 DEF PointSyncInit
  <2>2. revs \in Seq(Lists) /\ Len(revs) = 1 BY <2>1
  <2>3. /\ origin = 0 /\ disk.origin = 0 /\ ~promoted
        /\ disk = [list |-> disk.list, origin |-> disk.origin, ok |-> disk.ok]
    BY <1>1 DEF PointSyncInit, Absent, NoTag
  <2> QED BY <2>2, <2>3 DEF RatchetInv, Current
<1>2. RatchetInv /\ [PointSyncNext]_syncVars => RatchetInv' BY RatchetInvKept
<1>3. RatchetInv /\ [PointSyncNext]_syncVars => [promoted /\ promoted' => origin' >= origin]_syncVars
  BY RatchetStep
<1> QED BY <1>1, <1>2, <1>3, PTL DEF PointSyncSpec, Ratchet

-----------------------------------------------------------------------------
(* A diff brings the list it was made from to the one it was made for.      *)

\* Lists, and what they are.
LEMMA ListFacts ==
    ASSUME NEW f \in Lists
    PROVE  /\ DOMAIN f \in SUBSET Points /\ f \in [DOMAIN f -> Locals \cup {Release}]
           /\ \A p, q \in DOMAIN f : f[p] = f[q] /\ f[p] # Release => p = q
           /\ f \in AnyList
BY DEF Lists, AnyList

\* The empty list.
LEMMA EmptyList == Empty \in Lists
<1>1. Empty \in [{} -> Locals \cup {Release}] /\ DOMAIN Empty = {} BY DEF Empty
<1>2. Empty \in AnyList BY <1>1, Zenon DEF AnyList
<1> QED BY <1>1, <1>2 DEF Lists, AnyList

\* The changed entries are listed in some order, each of them.
LEMMA OrderCovers ==
    ASSUME NEW S, NEW order \in Orders(S)
    PROVE  /\ \A j \in DOMAIN order : order[j] \in S
           /\ \A p \in S : \E j \in DOMAIN order : order[j] = p
<1>1. order \in [1..Cardinality(S) -> S] /\ {order[j] : j \in DOMAIN order} = S
  BY DEF Orders, Range
<1> QED BY <1>1

\* What Building OS reports between two lists.
LEMMA DiffFacts ==
    ASSUME NEW old \in Lists, NEW new \in Lists, NEW renamed \in SUBSET Renames(old, new),
           NEW d, d = Diff(old, new, renamed)
    PROVE  /\ DOMAIN d.added = (DOMAIN new \ DOMAIN old) \ renamed
           /\ \A p \in DOMAIN d.added : d.added[p] = new[p]
           /\ d.removed = {p \in DOMAIN old \ DOMAIN new : \A q \in renamed : old[p] # new[q]}
           /\ DOMAIN d.changed =
                renamed \cup {p \in DOMAIN old \cap DOMAIN new : old[p] # new[p]}
           /\ \A p \in DOMAIN d.changed : d.changed[p] = new[p]
           /\ \A q \in renamed :
                /\ q \in DOMAIN new \ DOMAIN old /\ new[q] # Release
                /\ \E p \in DOMAIN old \ DOMAIN new : old[p] = new[q]
<1>1. \A q \in renamed : /\ q \in DOMAIN new \ DOMAIN old /\ new[q] # Release
                         /\ \E p \in DOMAIN old \ DOMAIN new : old[p] = new[q]
  BY DEF Renames
<1>2. /\ d.added = Restrict(new, (DOMAIN new \ DOMAIN old) \ renamed)
      /\ d.removed = {p \in DOMAIN old \ DOMAIN new : \A q \in renamed : old[p] # new[q]}
      /\ d.changed = Restrict(new, renamed \cup
                        {p \in DOMAIN old \cap DOMAIN new : old[p] # new[p]})
  BY DEF Diff
<1> QED BY <1>1, <1>2 DEF Restrict

\* applyDiff: if no point that keeps its id gets the address of another one that does,
\* the diff gives the new list, whichever removals are reported as renames and in
\* whichever order the changes are listed.
LEMMA DiffGives ==
    ASSUME NEW old \in Lists, NEW new \in Lists, Calm(old, new),
           NEW renamed \in SUBSET Renames(old, new),
           NEW d, d = Diff(old, new, renamed), NEW order \in Orders(DOMAIN d.changed)
    PROVE  ApplyDiff(old, d, order) = new
<1> DEFINE byID == (DOMAIN old \ d.removed) \cup DOMAIN d.added \cup DOMAIN d.changed
           deleted == {q \in DOMAIN old :
                         \E j \in DOMAIN order :
                           /\ q \in Holder(old, order[j], d.changed[order[j]])
                           /\ \A i \in DOMAIN order : order[i] = q => i < j}
<1>1. /\ DOMAIN d.added = (DOMAIN new \ DOMAIN old) \ renamed
      /\ \A p \in DOMAIN d.added : d.added[p] = new[p]
      /\ d.removed = {p \in DOMAIN old \ DOMAIN new : \A q \in renamed : old[p] # new[q]}
      /\ DOMAIN d.changed = renamed \cup {p \in DOMAIN old \cap DOMAIN new : old[p] # new[p]}
      /\ \A p \in DOMAIN d.changed : d.changed[p] = new[p]
      /\ \A q \in renamed : /\ q \in DOMAIN new \ DOMAIN old /\ new[q] # Release
                            /\ \E p \in DOMAIN old \ DOMAIN new : old[p] = new[q]
  BY DiffFacts
<1>2. /\ DOMAIN new \in SUBSET Points /\ new \in [DOMAIN new -> Locals \cup {Release}]
      /\ \A p, q \in DOMAIN old : old[p] = old[q] /\ old[p] # Release => p = q
  BY ListFacts
<1>3. /\ \A j \in DOMAIN order : order[j] \in DOMAIN d.changed
      /\ \A p \in DOMAIN d.changed : \E j \in DOMAIN order : order[j] = p
  BY OrderCovers
<1>4. \A q \in deleted : q \notin DOMAIN new
  <2> SUFFICES ASSUME NEW q \in DOMAIN old, q \in DOMAIN new, NEW j \in DOMAIN order,
                      q \in Holder(old, order[j], d.changed[order[j]])
               PROVE  FALSE
    OBVIOUS
  <2>1. PICK p \in DOMAIN d.changed : p = order[j] /\ d.changed[p] = new[p] BY <1>1, <1>3
  <2>2. new[p] # Release /\ old[q] = new[p] /\ q # p BY <2>1 DEF Holder
  <2>3. CASE p \in renamed
    <3>1. PICK o \in DOMAIN old \ DOMAIN new : old[o] = new[p] BY <1>1, <2>3
    <3>2. o = q BY <1>2, <2>2, <3>1
    <3> QED BY <3>1, <3>2
  <2>4. CASE p \in DOMAIN old \cap DOMAIN new /\ old[p] # new[p]
    BY <2>2, <2>4 DEF Calm
  <2> QED BY <1>1, <2>3, <2>4
<1>5. \A p \in byID \ deleted : p \in DOMAIN new
  <2> SUFFICES ASSUME NEW p \in DOMAIN old \ DOMAIN new, p \notin d.removed
               PROVE  p \in deleted
    BY <1>1
  <2>1. PICK q \in renamed : old[p] = new[q] BY <1>1
  <2>2. PICK j \in DOMAIN order : order[j] = q BY <1>1, <1>3, SMTT(20), Zenon
  <2>3. d.changed[q] = new[q] /\ new[q] # Release /\ q # p BY <1>1, <2>1, SMTT(20), Zenon
  <2>4. p \in Holder(old, order[j], d.changed[order[j]]) BY <2>1, <2>2, <2>3, SMTT(20), Zenon DEF Holder
  <2>5. \A i \in DOMAIN order : order[i] # p BY <1>1, <1>3, SMTT(20), Zenon
  <2> QED BY <2>4, <2>5
<1>6. \A p \in DOMAIN new : p \in byID \ deleted
  <2>1. \A p \in DOMAIN new : p \in byID BY <1>1
  <2> QED BY <1>4, <2>1
<1>7. byID \ deleted = DOMAIN new BY <1>5, <1>6, Zenon
<1>8. \A p \in DOMAIN new :
        new[p] = IF p \in DOMAIN d.changed THEN d.changed[p]
                 ELSE IF p \in DOMAIN d.added THEN d.added[p] ELSE old[p]
  BY <1>1
<1>9. ApplyDiff(old, d, order) =
        [p \in byID \ deleted |-> IF p \in DOMAIN d.changed THEN d.changed[p]
                                  ELSE IF p \in DOMAIN d.added THEN d.added[p] ELSE old[p]]
  BY DEF ApplyDiff
<1> HIDE DEF byID, deleted
<1>10. new = [p \in DOMAIN new |-> new[p]] BY <1>2
<1> QED BY <1>7, <1>8, <1>9, <1>10, SMTT(20), Zenon

-----------------------------------------------------------------------------
(* The list in the resolver is the one reported.                           *)

\* The list an ETag stands for, and the ETags given out so far.
ListOf(t) == IF t = FileTag THEN FileList ELSE revs[t]
TagsNow == {FileTag} \cup 0..Current

\* Building OS never moves an address between two points that stay.
Revisions ==
    /\ revs \in Seq(Lists) /\ Current \in 1..MaxRevs
    /\ \A m, n \in 1..Current : m < n => Calm(revs[m], revs[n])

\* syncState and the resolver hold the list of the ETag, which is the one reported but
\* between the swap and the report; a process that has not synced yet has no ETag.
Holding ==
    /\ etag \in TagsNow /\ origin \in TagsNow /\ applied \in TagsNow
    /\ etag = NoTag => entries = Empty
    /\ etag # NoTag => entries = ListOf(etag) /\ resolver = entries
    /\ pc # "updated" => applied = etag
    /\ pc \in {"off", "load"} => etag = NoTag
    /\ resolver \in Lists
    /\ disk = [list |-> disk.list, origin |-> disk.origin, ok |-> disk.ok]
    /\ disk.list \in Lists /\ disk.origin \in TagsNow /\ disk.ok \in BOOLEAN

Flags ==
    /\ signal \in BOOLEAN /\ ready \in BOOLEAN /\ started \in BOOLEAN /\ promoted \in BOOLEAN
    /\ pc \in {"off", "load", "sync", "updated", "truncate", "write", "idle"}
    /\ notices \in 0..(Current - 1) /\ restarts \in 0..MaxRestarts

SyncInv == Revisions /\ Holding /\ Flags

\* A publication leaves the lists of the ETags given out.
LEMMA ListsKept ==
    ASSUME Revisions, NEW new \in Lists, revs' = Append(revs, new)
    PROVE  /\ Current' = Current + 1 /\ Current \in Nat
           /\ \A n \in 1..Current : revs'[n] = revs[n]
           /\ revs'[Current + 1] = new
           /\ revs' \in Seq(Lists)
<1>1. revs \in Seq(Lists) /\ Len(revs) \in Nat BY DEF Revisions
<1>2. Len(revs') = Len(revs) + 1 /\ revs' \in Seq(Lists) BY <1>1
<1>3. \A n \in 1..Len(revs) : revs'[n] = revs[n] BY <1>1
<1>4. revs'[Len(revs) + 1] = new BY <1>1
<1> QED BY <1>1, <1>2, <1>3, <1>4, SMTT(20), Zenon DEF Current

\* The lists themselves.
LEMMA ListOfTag ==
    ASSUME Revisions, NEW t \in TagsNow, t # NoTag
    PROVE  /\ ListOf(t) \in Lists /\ (t # FileTag => t \in 1..Current)
<1>1. revs \in Seq(Lists) /\ Current = Len(revs) /\ Current \in Nat
  BY DEF Revisions, Current
<1>2. t # FileTag => t \in 1..Current BY <1>1 DEF TagsNow, NoTag
<1>3. \A n \in 1..Current : revs[n] \in Lists BY <1>1
<1> QED BY <1>2, <1>3, FileAssumption DEF ListOf

\* Building OS publishes.
LEMMA PublishKeeps ==
    ASSUME SyncInv, ~Takeover, Publish
    PROVE  SyncInv'
<1>1. PICK new \in Lists : /\ \A n \in 1..Current : Calm(revs[n], new)
                           /\ revs' = Append(revs, new)
  BY DEF Publish
<1>2. /\ Current < MaxRevs /\ UNCHANGED <<loopVars, signal, started, disk, restarts>>
      /\ notices' = IF pc = "off" THEN 0 ELSE notices + 1
  BY DEF Publish
<1>3. /\ Current' = Current + 1 /\ Current \in Nat /\ revs' \in Seq(Lists)
      /\ \A n \in 1..Current : revs'[n] = revs[n]
      /\ revs'[Current + 1] = new
  BY <1>1, ListsKept, Zenon DEF SyncInv
<1>4. MaxRevs \in Nat BY SyncBoundsAssumption
<1>5. Revisions'
  <2>1. Current' \in 1..MaxRevs BY <1>2, <1>3, <1>4, SMTT(20), Zenon
  <2>2. ASSUME NEW m \in 1..(Current + 1), NEW n \in 1..(Current + 1), m < n
        PROVE  Calm(revs'[m], revs'[n])
    <3>1. m \in 1..Current /\ revs'[m] = revs[m] BY <1>3, <2>2
    <3>2. CASE n \in 1..Current
      <4>1. revs'[n] = revs[n] BY <1>3, <3>2
      <4> QED BY <2>2, <3>1, <3>2, <4>1, SMTT(20), Zenon DEF SyncInv, Revisions
    <3>3. CASE n = Current + 1 BY <1>1, <1>3, <3>1, <3>3, Zenon
    <3> QED BY <1>3, <3>2, <3>3, SMTT(20), Zenon
  <2>3. \A f, g : Calm(f, g)' <=> Calm(f, g) BY DEF Calm
  <2> QED BY <1>3, <2>1, <2>2, <2>3 DEF Revisions
<1>6. /\ TagsNow \subseteq TagsNow'
      /\ \A t \in TagsNow : t # NoTag => ListOf(t)' = ListOf(t)
  <2>1. TagsNow \subseteq TagsNow' BY <1>3 DEF TagsNow
  <2>2. ASSUME NEW t \in TagsNow, t # NoTag PROVE ListOf(t)' = ListOf(t)
    <3>1. t # FileTag => t \in 1..Current BY <2>2, ListOfTag DEF SyncInv
    <3> QED BY <1>3, <3>1 DEF ListOf
  <2> QED BY <2>1, <2>2
<1>7. Holding'
  <2>1. UNCHANGED <<pc, etag, entries, applied, resolver, origin, disk>>
    BY <1>2 DEF loopVars
  <2>2. PICK t \in TagsNow : t = etag BY Zenon DEF SyncInv, Holding
  <2>3. etag # NoTag => ListOf(etag)' = ListOf(etag) BY <1>6, <2>1, <2>2, SMTT(20), Zenon DEF ListOf
  <2> QED BY <1>6, <2>1, <2>3, SMTT(20), Zenon DEF SyncInv, Holding
<1>8. Flags'
  <2>1. UNCHANGED <<pc, ready, promoted, signal, started, restarts>> BY <1>2 DEF loopVars
  <2>2. notices' \in 0..(Current' - 1) BY <1>2, <1>3 DEF SyncInv, Flags
  <2> QED BY <2>1, <2>2 DEF SyncInv, Flags
<1> QED BY <1>5, <1>7, <1>8, SMTT(20), Zenon DEF SyncInv

\* Steps of the process leave the revisions.
LEMMA RevsStay ==
    ASSUME SyncInv, UNCHANGED revs
    PROVE  /\ Revisions' /\ Current' = Current /\ TagsNow' = TagsNow
           /\ \A t : ListOf(t)' = ListOf(t)
<1>1. Current' = Current BY DEF Current
<1>2. Revisions' BY <1>1 DEF SyncInv, Revisions, Calm
<1>3. TagsNow' = TagsNow BY <1>1 DEF TagsNow
<1> QED BY <1>1, <1>2, <1>3, SMTT(20), Zenon DEF ListOf

\* sync takes a list.
LEMMA TakeKeeps ==
    ASSUME SyncInv, UNCHANGED <<revs, disk>>, NEW t \in TagsNow, t # NoTag,
           Take(ListOf(t), t)
    PROVE  Holding' /\ pc' = "updated" /\ ready' = ready
<1>1. /\ entries' = ListOf(t) /\ resolver' = ListOf(t) /\ etag' = t /\ origin' = t
      /\ pc' = "updated" /\ UNCHANGED <<ready, applied>>
  BY DEF Take
<1>2. ListOf(t) \in Lists BY ListOfTag DEF SyncInv
<1>3. TagsNow' = TagsNow /\ \A u : ListOf(u)' = ListOf(u) BY RevsStay
<1>4. ListOf(etag)' = ListOf(t) BY <1>1 DEF ListOf
<1> QED BY <1>1, <1>2, <1>3, <1>4, SMTT(20), Zenon DEF SyncInv, Holding

\* sync finds nothing new.
LEMMA NoChangeKeeps ==
    ASSUME SyncInv, UNCHANGED <<revs, disk>>, pc = "sync", NoChange
    PROVE  Holding' /\ pc' = "idle" /\ ready' = TRUE
<1>1. /\ pc' = "idle" /\ ready' = TRUE
      /\ UNCHANGED <<etag, entries, applied, resolver, origin>>
  BY DEF NoChange
<1>2. TagsNow' = TagsNow BY RevsStay
<1>3. ListOf(etag)' = ListOf(etag) BY <1>1 DEF ListOf
<1> QED BY <1>1, <1>2, <1>3 DEF SyncInv, Holding

\* Whatever the API answers, syncState and the resolver take the current revision.
LEMMA AnswersTaken ==
    ASSUME SyncInv, FetchPrimary
    PROVE  NoChange \/ Take(ListOf(Current), Current)
<1>1. revs \in Seq(Lists) /\ Current = Len(revs) /\ Current \in Nat /\ Current >= 1
  BY DEF SyncInv, Revisions, Current
<1>2. ListOf(Current) = revs[Current] BY <1>1 DEF ListOf, FileTag
<1>3. CASE NoChange BY <1>3
<1>4. CASE Take(revs[Current], Current) BY <1>2, <1>4
<1>5. CASE /\ KnownETag \in 1..(Current - 1)
           /\ \E renamed \in SUBSET Renames(revs[KnownETag], revs[Current]) :
                LET d == Diff(revs[KnownETag], revs[Current], renamed)
                IN  \E order \in Orders(DOMAIN d.changed) :
                      Take(ApplyDiff(entries, d, order), Current)
  <2>1. KnownETag = etag /\ etag # NoTag /\ etag \in 1..(Current - 1)
    BY <1>1, <1>5 DEF KnownETag, NoTag
  <2>2. entries = revs[etag]
    BY <1>1, <2>1 DEF SyncInv, Holding, ListOf, FileTag
  <2>3. PICK old \in Lists : old = revs[etag] BY <1>1, <2>1
  <2>4. PICK new \in Lists : new = revs[Current] BY <1>1
  <2>5. Calm(old, new)
    <3>1. etag \in 1..Current /\ Current \in 1..Current /\ etag < Current BY <1>1, <2>1, SMTT(20), Zenon
    <3> QED BY <2>3, <2>4, <3>1, SMTT(20), Zenon DEF SyncInv, Revisions
  <2>6. PICK renamed \in SUBSET Renames(old, new) :
          \E order \in Orders(DOMAIN Diff(old, new, renamed).changed) :
            Take(ApplyDiff(old, Diff(old, new, renamed), order), Current)
    BY <1>5, <2>1, <2>2, <2>3, <2>4, SMTT(20), Zenon
  <2>7. PICK d : d = Diff(old, new, renamed) OBVIOUS
  <2>8. PICK order \in Orders(DOMAIN d.changed) : Take(ApplyDiff(old, d, order), Current)
    BY <2>6, <2>7
  <2>9. ApplyDiff(old, d, order) = new BY <2>5, <2>7, DiffGives, FileAssumption
  <2> QED BY <1>2, <2>4, <2>8, <2>9, SMTT(20), Zenon
<1> QED BY <1>3, <1>4, <1>5, SMTT(20), Zenon DEF FetchPrimary

\* The steps of the loop.
LEMMA LoopKeeps ==
    ASSUME SyncInv, LoopStep
    PROVE  SyncInv'
<1>1. CASE FetchPrimary \/ FetchFails \/ FetchSecondary
  <2>1. /\ pc = "sync" /\ UNCHANGED <<revs, notices, signal, started, disk, restarts>>
        /\ promoted' \in {promoted, Fallback}
    BY <1>1 DEF FetchPrimary, FetchFails, FetchSecondary, bosVars
  <2>2. \/ NoChange \/ Take(ListOf(Current), Current) \/ Take(ListOf(FileTag), FileTag)
    BY <1>1, AnswersTaken DEF FetchFails, FetchSecondary, ListOf
  <2>3. Current \in TagsNow /\ Current # NoTag /\ FileTag \in TagsNow /\ FileTag # NoTag
    BY DEF SyncInv, Revisions, TagsNow, NoTag, FileTag
  <2>4. PICK c \in TagsNow : c = Current BY <2>3
  <2>5. Holding' /\ pc' \in {"idle", "updated"} /\ (ready' = TRUE \/ ready' = ready)
    <3>1. CASE NoChange BY <2>1, <3>1, NoChangeKeeps
    <3>2. CASE Take(ListOf(Current), Current) BY <2>1, <2>3, <2>4, <3>2, TakeKeeps, SMTT(20), Zenon
    <3>3. CASE Take(ListOf(FileTag), FileTag) BY <2>1, <2>3, <3>3, TakeKeeps, SMTT(20), Zenon
    <3> QED BY <2>2, <3>1, <3>2, <3>3, ZenonT(30)
  <2>6. Fallback \in BOOLEAN BY ModesAssumption
  <2>7. promoted' \in BOOLEAN /\ ready' \in BOOLEAN
    <3>1. promoted \in BOOLEAN /\ ready \in BOOLEAN BY DEF SyncInv, Flags
    <3>2. promoted' \in BOOLEAN BY <2>1, <2>6, <3>1, SMTT(20), Zenon
    <3>3. ready' \in BOOLEAN BY <2>5, <3>1, Zenon
    <3> QED BY <3>2, <3>3, SMTT(20), Zenon
  <2>8. Revisions' /\ Current' = Current BY <2>1, RevsStay
  <2>9. Flags' BY <2>1, <2>5, <2>7, <2>8, SMTT(20), Zenon DEF SyncInv, Flags
  <2> QED BY <2>5, <2>8, <2>9, SMTT(20), Zenon DEF SyncInv
<1>2. CASE Load
  <2>1. /\ pc = "load" /\ pc' = "sync"
        /\ resolver' \in {resolver, disk.list} /\ origin' \in {origin, disk.origin}
        /\ UNCHANGED <<ready, promoted, etag, entries, applied, revs, notices, signal, started,
                       disk, restarts>>
    BY <1>2 DEF Load, bosVars
  <2>2. Revisions' /\ Current' = Current /\ TagsNow' = TagsNow BY <2>1, RevsStay
  <2>3. etag = NoTag BY <2>1 DEF SyncInv, Holding
  <2>4. Holding' BY <2>1, <2>2, <2>3, SMTT(20), Zenon DEF SyncInv, Holding
  <2>5. Flags' BY <2>1, <2>2, SMTT(20), Zenon DEF SyncInv, Flags
  <2> QED BY <2>2, <2>4, <2>5, SMTT(20), Zenon DEF SyncInv
<1>3. CASE SetApplied
  <2>1. /\ applied' = etag /\ pc' = "truncate"
        /\ UNCHANGED <<ready, promoted, etag, entries, resolver, origin, revs, notices, signal,
                       started, disk, restarts>>
    BY <1>3 DEF SetApplied, bosVars
  <2>2. Revisions' /\ Current' = Current /\ TagsNow' = TagsNow BY <2>1, RevsStay
  <2>3. ListOf(etag)' = ListOf(etag) BY <2>1 DEF ListOf
  <2>4. Holding' BY <2>1, <2>2, <2>3 DEF SyncInv, Holding
  <2>5. Flags' BY <2>1, <2>2, SMTT(20), Zenon DEF SyncInv, Flags
  <2> QED BY <2>2, <2>4, <2>5 DEF SyncInv
<1>4. CASE Truncate \/ Write
  <2>1. /\ pc \in {"truncate", "write"} /\ pc' \in {"write", "idle"}
        /\ ready' = ready \/ ready' = TRUE
        /\ UNCHANGED <<promoted, etag, entries, applied, resolver, origin, revs, notices, signal,
                       started, restarts>>
    BY <1>4 DEF Truncate, Write, bosVars
  <2>2. Revisions' /\ Current' = Current /\ TagsNow' = TagsNow BY <2>1, RevsStay
  <2>3. /\ disk' = [list |-> disk'.list, origin |-> disk'.origin, ok |-> disk'.ok]
        /\ disk'.list \in {disk.list, resolver} /\ disk'.origin \in {disk.origin, origin}
        /\ disk'.ok = TRUE \/ disk'.ok = FALSE
    <3>1. CASE Truncate
      <4>1. disk' = [disk EXCEPT !.ok = FALSE] BY <3>1 DEF Truncate
      <4>2. disk = [list |-> disk.list, origin |-> disk.origin, ok |-> disk.ok]
        BY DEF SyncInv, Holding
      <4> QED BY <4>1, <4>2, Zenon
    <3>2. CASE Write
      <4>1. disk' = [list |-> resolver, origin |-> origin, ok |-> TRUE] BY <3>2 DEF Write
      <4> QED BY <4>1
    <3> QED BY <1>4, <3>1, <3>2, Zenon
  <2>4. disk'.ok \in BOOLEAN BY <2>3, Zenon
  <2>5. ListOf(etag)' = ListOf(etag) BY <2>1 DEF ListOf
  <2>6. Holding' BY <2>1, <2>2, <2>3, <2>4, <2>5, SMTT(20), Zenon DEF SyncInv, Holding
  <2>7. ready' \in BOOLEAN
    <3>1. ready \in BOOLEAN BY DEF SyncInv, Flags
    <3> QED BY <2>1, <3>1, Zenon
  <2>8. Flags' BY <2>1, <2>2, <2>7, SMTT(20), Zenon DEF SyncInv, Flags
  <2> QED BY <2>2, <2>6, <2>8 DEF SyncInv
<1>5. CASE Resync
  <2>1. /\ pc = "idle" /\ pc' = "sync" /\ (signal' = FALSE \/ signal' = signal)
        /\ UNCHANGED <<ready, promoted, etag, entries, applied, resolver, origin, revs, notices,
                       started, disk, restarts>>
    BY <1>5, SMTT(20), Zenon DEF Resync, bosVars
  <2>2. Revisions' /\ Current' = Current /\ TagsNow' = TagsNow BY <2>1, RevsStay, SMTT(20), Zenon
  <2>3. ListOf(etag)' = ListOf(etag) BY <2>1, SMTT(20), Zenon DEF ListOf
  <2>4. Holding' BY <2>1, <2>2, <2>3, SMTT(20), Zenon DEF SyncInv, Holding
  <2>5. signal' \in BOOLEAN
    <3>1. signal \in BOOLEAN BY DEF SyncInv, Flags
    <3> QED BY <2>1, <3>1, Zenon
  <2>6. Flags' BY <2>1, <2>2, <2>5 DEF SyncInv, Flags
  <2> QED BY <2>2, <2>4, <2>6 DEF SyncInv
<1> QED BY <1>1, <1>2, <1>3, <1>4, <1>5, SMTT(20), Zenon DEF LoopStep

\* The Egress agent, main and the end and the start of the process.
LEMMA OthersKeep ==
    ASSUME SyncInv, Notice \/ StartPipeline \/ ProcessEnds \/ ProcessStarts
    PROVE  SyncInv'
<1>1. UNCHANGED <<revs, disk>>
  BY DEF Notice, StartPipeline, ProcessEnds, ProcessStarts, bosVars
<1>2. Revisions' /\ Current' = Current /\ TagsNow' = TagsNow BY <1>1, RevsStay
<1>3. Current \in Nat /\ Current >= 1 BY DEF SyncInv, Revisions
<1>4. TRUE \in BOOLEAN /\ FALSE \in BOOLEAN OBVIOUS
<1>5. CASE ProcessEnds
  <2>1. /\ pc' = "off" /\ etag' = NoTag /\ entries' = Empty /\ applied' = NoTag
        /\ resolver' = Empty /\ origin' = NoTag
    BY <1>5 DEF ProcessEnds
  <2>2. NoTag \in TagsNow' BY <1>2, <1>3, SMTT(20), Zenon DEF TagsNow, NoTag
  <2>3. Holding' BY <1>1, <1>2, <2>1, <2>2, EmptyList, SMTT(20), Zenon DEF SyncInv, Holding
  <2>4. /\ signal' = FALSE /\ ready' = FALSE /\ started' = FALSE /\ promoted' = FALSE
        /\ notices' = 0 /\ restarts' = restarts + 1 /\ restarts < MaxRestarts
    BY <1>5 DEF ProcessEnds
  <2>5. /\ signal' \in BOOLEAN /\ ready' \in BOOLEAN /\ started' \in BOOLEAN
        /\ promoted' \in BOOLEAN
    BY <1>4, <2>4, Zenon
  <2>6. restarts' \in 0..MaxRestarts /\ notices' \in 0..(Current' - 1)
    BY <1>2, <1>3, <2>4, SyncBoundsAssumption DEF SyncInv, Flags
  <2> QED BY <1>2, <2>1, <2>3, <2>5, <2>6, SMTT(20), Zenon DEF SyncInv, Flags
<1>6. CASE Notice \/ StartPipeline \/ ProcessStarts
  <2>1. /\ UNCHANGED <<ready, promoted, etag, entries, applied, resolver, origin, restarts>>
        /\ pc' = pc \/ (pc = "off" /\ pc' = "load")
        /\ started' = started \/ started' = TRUE
        /\ signal' = signal \/ signal' = TRUE
        /\ notices' = notices \/ (notices > 0 /\ notices' = notices - 1)
    BY <1>6 DEF Notice, StartPipeline, ProcessStarts, loopVars, bosVars
  <2>2. ListOf(etag)' = ListOf(etag) BY <1>1, <2>1, Zenon DEF ListOf
  <2>3. Holding' BY <1>1, <1>2, <2>1, <2>2, SMTT(20), Zenon DEF SyncInv, Holding
  <2>4. started' \in BOOLEAN /\ signal' \in BOOLEAN
    <3>1. started \in BOOLEAN /\ signal \in BOOLEAN BY DEF SyncInv, Flags
    <3> QED BY <1>4, <2>1, <3>1, ZenonT(30)
  <2>5. notices' \in 0..(Current' - 1) BY <1>2, <1>3, <2>1, SMTT(20), Zenon DEF SyncInv, Flags
  <2>6. UNCHANGED <<ready, promoted, restarts>> BY <2>1
  <2>7. pc' \in {"off", "load", "sync", "updated", "truncate", "write", "idle"}
    BY <2>1 DEF SyncInv, Flags
  <2> QED BY <1>2, <2>3, <2>4, <2>5, <2>6, <2>7, Zenon DEF SyncInv, Flags
<1> QED BY <1>5, <1>6, SMTT(20), Zenon

\* The gateway starts with no list, and no snapshot.
LEMMA SyncStart ==
    ASSUME PointSyncInit
    PROVE  SyncInv
<1>1. PICK f \in Lists : revs = <<f>> BY DEF PointSyncInit
<1>2. revs \in Seq(Lists) /\ Len(revs) = 1 BY <1>1
<1>3. Current = 1 BY <1>2 DEF Current
<1>4. Revisions BY <1>2, <1>3, SyncBoundsAssumption, SMTT(20), Zenon DEF Revisions
<1>5. /\ pc = "load" /\ etag = NoTag /\ entries = Empty /\ applied = NoTag
      /\ resolver = Empty /\ origin = NoTag /\ notices = 0 /\ restarts = 0
      /\ disk = [list |-> Empty, origin |-> NoTag, ok |-> TRUE]
      /\ signal = FALSE /\ ready = FALSE /\ started = FALSE /\ promoted = FALSE
  BY DEF PointSyncInit, Absent
<1>6. TRUE \in BOOLEAN /\ FALSE \in BOOLEAN OBVIOUS
<1>7. NoTag \in TagsNow BY <1>3 DEF TagsNow, NoTag
<1>8. /\ disk.list = Empty /\ disk.origin = NoTag /\ disk.ok = TRUE BY <1>5
<1>9. disk.ok \in BOOLEAN BY <1>6, <1>8, Zenon
<1>10. Holding BY <1>5, <1>7, <1>8, <1>9, EmptyList, SMTT(20), Zenon DEF Holding
<1>11. signal \in BOOLEAN /\ ready \in BOOLEAN /\ started \in BOOLEAN /\ promoted \in BOOLEAN
  BY <1>5, <1>6, Zenon
<1>12. notices \in 0..(Current - 1) /\ restarts \in 0..MaxRestarts
  BY <1>3, <1>5, SyncBoundsAssumption
<1> QED BY <1>4, <1>5, <1>10, <1>11, <1>12, SMTT(20), Zenon DEF SyncInv, Flags

LEMMA SyncStep ==
    ASSUME SyncInv, ~Takeover, [PointSyncNext]_syncVars
    PROVE  SyncInv'
<1>1. CASE UNCHANGED syncVars
  <2>1. UNCHANGED <<revs, disk, pc, ready, promoted, etag, entries, applied, resolver, origin,
                    notices, signal, started, restarts>>
    BY <1>1 DEF syncVars, loopVars, bosVars
  <2>2. Revisions' /\ Current' = Current /\ TagsNow' = TagsNow BY <2>1, RevsStay, SMTT(20), Zenon
  <2>3. ListOf(etag)' = ListOf(etag) BY <2>1, Zenon DEF ListOf
  <2>4. Holding' BY <2>1, <2>2, <2>3, Zenon DEF SyncInv, Holding
  <2>5. Flags' BY <2>1, <2>2 DEF SyncInv, Flags
  <2> QED BY <2>2, <2>4, <2>5, SMTT(20), Zenon DEF SyncInv
<1>2. CASE Publish BY <1>2, PublishKeeps
<1>3. CASE LoopStep BY <1>3, LoopKeeps
<1>4. CASE Notice \/ StartPipeline \/ ProcessEnds \/ ProcessStarts BY <1>4, OthersKeep, SMTT(20), Zenon
<1> QED BY <1>1, <1>2, <1>3, <1>4, SMTT(20), Zenon DEF PointSyncNext

\* What SyncInv says of the types.
LEMMA SyncTypes ==
    ASSUME SyncInv
    PROVE  PointSyncTypeOK
<1>1. Current \in 1..MaxRevs /\ MaxRevs \in Nat
  BY SyncBoundsAssumption DEF SyncInv, Revisions
<1>2. TagsNow \subseteq Tags BY <1>1 DEF TagsNow, Tags
<1>3. Lists \subseteq AnyList BY DEF Lists, AnyList
<1>4. revs \in Seq(Lists) BY DEF SyncInv, Revisions
<1>5. notices \in 0..MaxRevs /\ restarts \in 0..MaxRestarts
  BY <1>1 DEF SyncInv, Flags
<1>6. /\ signal \in BOOLEAN /\ ready \in BOOLEAN /\ started \in BOOLEAN /\ promoted \in BOOLEAN
      /\ pc \in {"off", "load", "sync", "updated", "truncate", "write", "idle"}
  BY DEF SyncInv, Flags
<1>7. etag \in Tags /\ applied \in Tags /\ origin \in Tags
  BY <1>2 DEF SyncInv, Holding
<1>8. entries \in AnyList /\ resolver \in AnyList
  BY <1>3, EmptyList DEF SyncInv, Holding
<1>9. disk \in [list : AnyList, origin : Tags, ok : BOOLEAN]
  <2>1. /\ disk = [list |-> disk.list, origin |-> disk.origin, ok |-> disk.ok]
        /\ disk.list \in Lists /\ disk.origin \in TagsNow /\ disk.ok \in BOOLEAN
    BY DEF SyncInv, Holding
  <2>2. disk.list \in AnyList /\ disk.origin \in Tags BY <1>2, <1>3, <2>1, SMTT(20), Zenon
  <2> QED BY <2>1, <2>2
<1> QED BY <1>4, <1>5, <1>6, <1>7, <1>8, <1>9, SMTT(20), Zenon DEF PointSyncTypeOK

\* While Building OS gives no address from one point that stays to another, the list
\* behind AppliedRevision is the one in the resolver, however it came there: the steps of
\* sync, of the persisted snapshot and of the process are taken in any order, and diffs
\* list the changed entries in any order (internal/pointsync/loop.go, sync and applyDiff).
THEOREM ReportIsAlwaysApplied ==
    ASSUME ~Takeover
    PROVE  PointSyncSpec => []ReportedIsApplied
<1>1. PointSyncInit => SyncInv BY SyncStart
<1>2. SyncInv /\ [PointSyncNext]_syncVars => SyncInv' BY SyncStep
<1>3. SyncInv => ReportedIsApplied
  BY Zenon DEF SyncInv, Holding, ReportedIsApplied, ListOf
<1> QED BY <1>1, <1>2, <1>3, PTL DEF PointSyncSpec

\* Under the same condition, Resolve finds one point at an address: neither a diff nor a
\* restored snapshot leaves two (the SyncedResolver's index by connector and local id).
THEOREM AddressHasOnePoint ==
    ASSUME ~Takeover
    PROVE  PointSyncSpec => []OneAddressOnePoint
<1>1. PointSyncInit => SyncInv BY SyncStart
<1>2. SyncInv /\ [PointSyncNext]_syncVars => SyncInv' BY SyncStep
<1>3. SyncInv => OneAddressOnePoint
  <2> SUFFICES ASSUME SyncInv PROVE OneAddressOnePoint OBVIOUS
  <2>1. PointSyncTypeOK BY SyncTypes
  <2>2. resolver \in Lists BY DEF SyncInv, Holding
  <2> QED BY <2>1, <2>2 DEF OneAddressOnePoint, Lists
<1> QED BY <1>1, <1>2, <1>3, PTL DEF PointSyncSpec
-----------------------------------------------------------------------------
(* What a restart finds.                                                   *)

\* The list that came with an ETag; without one there was none.
Brought(t) == IF t = NoTag THEN Empty ELSE ListOf(t)

\* Nothing but a whole list is ever resolved from or restored.
WholeLists ==
    /\ resolver = Brought(origin)
    /\ disk.ok => disk.list = Brought(disk.origin)

\* Later revisions leave the lists that were brought.
LEMMA BroughtStays ==
    ASSUME SyncInv, Publish \/ UNCHANGED revs, NEW t \in TagsNow
    PROVE  (IF t = NoTag THEN Empty ELSE IF t = FileTag THEN FileList ELSE revs'[t]) = Brought(t)
<1>1. Revisions BY DEF SyncInv
<1>2. CASE UNCHANGED revs BY <1>2 DEF Brought, ListOf
<1>3. CASE Publish
  <2>1. PICK new \in Lists : revs' = Append(revs, new) BY <1>3 DEF Publish
  <2>2. \A n \in 1..Current : revs'[n] = revs[n] BY <1>1, <2>1, ListsKept, Zenon
  <2>3. t # NoTag /\ t # FileTag => t \in 1..Current BY <1>1, ListOfTag
  <2> QED BY <2>2, <2>3 DEF Brought, ListOf
<1> QED BY <1>2, <1>3

\* Every step keeps the lists whole.
LEMMA WholeListsKept ==
    ASSUME SyncInv, SyncInv', WholeLists, [PointSyncNext]_syncVars
    PROVE  WholeLists'
<1>1. origin \in TagsNow /\ disk.origin \in TagsNow BY DEF SyncInv, Holding
<1>2. ASSUME Publish \/ UNCHANGED revs, NEW t \in TagsNow
      PROVE  (IF t = NoTag THEN Empty ELSE IF t = FileTag THEN FileList ELSE revs'[t]) = Brought(t)
  BY <1>2, BroughtStays
<1>3. CASE \/ Publish \/ Notice \/ FetchFails \/ SetApplied \/ Resync \/ StartPipeline
           \/ ProcessStarts \/ UNCHANGED syncVars
  <2>1. UNCHANGED <<resolver, origin, disk>> /\ (Publish \/ UNCHANGED revs)
    BY <1>3, Zenon DEF Publish, Notice, FetchFails, NoChange, SetApplied, Resync, StartPipeline,
                ProcessStarts, syncVars, loopVars, bosVars
  <2>2. Brought(origin)' = Brought(origin) BY <1>1, <1>2, <2>1, Zenon DEF Brought, ListOf
  <2>3. Brought(disk.origin)' = Brought(disk.origin) BY <1>1, <1>2, <2>1 DEF Brought, ListOf
  <2> QED BY <2>1, <2>2, <2>3, Zenon DEF WholeLists
<1>4. CASE FetchPrimary \/ FetchSecondary
  <2>1. UNCHANGED <<revs, disk>> BY <1>4 DEF FetchPrimary, FetchSecondary, bosVars
  <2>2. Brought(disk.origin)' = Brought(disk.origin) BY <2>1 DEF Brought, ListOf
  <2>3. CASE UNCHANGED <<resolver, origin>>
    <3>1. Brought(origin)' = Brought(origin) BY <2>1, <2>3 DEF Brought, ListOf
    <3> QED BY <2>1, <2>2, <2>3, <3>1 DEF WholeLists
  <2>4. CASE origin' = etag' /\ etag' # NoTag
    <3>1. resolver' = ListOf(etag)' BY <2>4 DEF SyncInv, Holding
    <3>2. resolver' = Brought(origin)' BY <2>4, <3>1, Zenon DEF Brought, ListOf
    <3> QED BY <2>1, <2>2, <3>2, Zenon DEF WholeLists
  <2>5. Current # NoTag /\ FileTag # NoTag BY DEF SyncInv, Revisions, NoTag, FileTag
  <2>6. UNCHANGED <<resolver, origin>> \/ (origin' = etag' /\ etag' # NoTag)
    BY <1>4, <2>5, Zenon DEF FetchPrimary, FetchSecondary, NoChange, Take
  <2> QED BY <2>3, <2>4, <2>6, Zenon
<1>5. CASE Load
  <2>1. /\ UNCHANGED <<revs, disk>>
        /\ \/ UNCHANGED <<resolver, origin>>
           \/ disk.ok /\ resolver' = disk.list /\ origin' = disk.origin
    BY <1>5 DEF Load, bosVars
  <2>2. \A t : (IF t = NoTag THEN Empty ELSE IF t = FileTag THEN FileList ELSE revs'[t]) = Brought(t)
    BY <2>1, Zenon DEF Brought, ListOf
  <2> QED BY <2>1, <2>2 DEF WholeLists, Brought, ListOf
<1>6. CASE Write
  <2>1. /\ UNCHANGED <<revs, resolver, origin>> /\ disk'.list = resolver /\ disk'.origin = origin
    BY <1>6, Zenon DEF Write, bosVars
  <2>2. Brought(origin)' = Brought(origin) /\ Brought(disk.origin)' = Brought(origin)
    BY <2>1 DEF Brought, ListOf
  <2> QED BY <2>1, <2>2, Zenon DEF WholeLists
<1>7. CASE Truncate
  <2>1. UNCHANGED <<revs, resolver, origin>> /\ disk' = [disk EXCEPT !.ok = FALSE]
    BY <1>7 DEF Truncate, bosVars
  <2>2. ~disk'.ok BY <2>1 DEF SyncInv, Holding
  <2>3. Brought(origin)' = Brought(origin) BY <2>1 DEF Brought, ListOf
  <2> QED BY <2>1, <2>2, <2>3 DEF WholeLists
<1>8. CASE ProcessEnds
  <2>1. /\ UNCHANGED <<revs, disk>> /\ resolver' = Empty /\ origin' = NoTag
    BY <1>8, Zenon DEF ProcessEnds
  <2>2. Brought(disk.origin)' = Brought(disk.origin) /\ Brought(origin)' = Empty
    BY <2>1 DEF Brought, ListOf
  <2> QED BY <2>1, <2>2 DEF WholeLists
<1> QED BY <1>3, <1>4, <1>5, <1>6, <1>7, <1>8, Zenon DEF PointSyncNext, LoopStep

\* However the process ends between os.WriteFile's truncation and its write, before or
\* after SetApplied, a snapshot that parses is a whole list of Building OS or the file,
\* and so is the list the resolver works from after restoring it (SyncedResolver.Persist
\* and Load, Loop.sync), as long as no diff hands an address over.
THEOREM RestoresAWholeList ==
    ASSUME ~Takeover
    PROVE  PointSyncSpec => []WholeLists
<1>1. PointSyncInit => SyncInv /\ WholeLists
  <2>1. PointSyncInit => WholeLists
    BY DEF PointSyncInit, Absent, WholeLists, Brought
  <2> QED BY <2>1, SyncStart, Zenon
<1>2. SyncInv /\ WholeLists /\ [PointSyncNext]_syncVars => SyncInv' /\ WholeLists'
  BY SyncStep, WholeListsKept
<1> QED BY <1>1, <1>2, PTL DEF PointSyncSpec

-----------------------------------------------------------------------------
(* A loop at rest is up to date.                                           *)

\* Once a process has fetched, what it lacks is announced on the stream or signalled.
Awaited ==
    /\ RatchetInv /\ Current \in Nat \ {0}
    /\ notices \in Nat /\ signal \in BOOLEAN
    /\ etag # NoTag => origin = etag
    /\ pc \in {"off", "load"} => etag = NoTag
    /\ pc # "updated" => applied = etag
    /\ pc \in {"off", "load", "sync"} \/ etag = Current \/ notices > 0 \/ signal

\* The loop waits, no signal is in the channel and no notice on the stream.
Quiet == pc = "idle" /\ ~signal /\ notices = 0

\* At rest, the newest revision is the one in the resolver and the one reported.
QuietIsCurrent ==
    Quiet => /\ origin = Current /\ applied = Current
             /\ Takeover \/ resolver = revs[Current]

\* An announcement is either still to come or leaves a signal, and a signal is only
\* taken by a fetch.
LEMMA AwaitedKept ==
    ASSUME Awaited, ~Unreachable, [PointSyncNext]_syncVars
    PROVE  Awaited'
<1>1. RatchetInv' BY RatchetInvKept DEF Awaited
<1>2. ASSUME UNCHANGED revs PROVE Current' = Current BY <1>2 DEF Current
<1>3. TRUE \in BOOLEAN /\ FALSE \in BOOLEAN OBVIOUS
<1>4. CASE Publish
  <2>1. /\ UNCHANGED <<pc, etag, origin, applied, signal>>
        /\ notices' = IF pc = "off" THEN 0 ELSE notices + 1
    BY <1>4 DEF Publish, loopVars
  <2>2. Current' = Current + 1 BY <1>4, PublishGrows DEF Awaited
  <2>3. Current' \in Nat \ {0} /\ notices' \in Nat /\ (pc # "off" => notices' > 0)
    BY <2>1, <2>2 DEF Awaited
  <2> QED BY <1>1, <2>1, <2>3 DEF Awaited
<1>5. CASE Notice
  <2>1. /\ UNCHANGED <<pc, etag, origin, applied, revs>> /\ signal' = TRUE
        /\ notices > 0 /\ notices' = notices - 1
    BY <1>5 DEF Notice, loopVars
  <2>2. signal' \in BOOLEAN BY <1>3, <2>1, Zenon
  <2>3. notices' \in Nat BY <2>1 DEF Awaited
  <2> QED BY <1>1, <1>2, <2>1, <2>2, <2>3 DEF Awaited
<1>6. CASE FetchPrimary
  <2>1. KnownETag \in {NoTag, etag} BY DEF KnownETag
  <2>2. Current # NoTag BY DEF Awaited, NoTag
  <2>3. UNCHANGED <<revs, notices, signal>> BY <1>6, Zenon DEF FetchPrimary, bosVars
  <2>4. \/ etag = Current /\ pc' = "idle" /\ UNCHANGED <<etag, origin, applied>>
        \/ etag' = Current /\ origin' = Current /\ pc' = "updated"
    BY <1>6, <2>1, <2>2 DEF FetchPrimary, NoChange, Take
  <2>5. pc = "sync" BY <1>6 DEF FetchPrimary
  <2> QED BY <1>1, <1>2, <2>2, <2>3, <2>4, <2>5 DEF Awaited
<1>7. CASE Load \/ Resync
  <2>1. /\ pc' = "sync" /\ UNCHANGED <<revs, notices, etag, applied>>
        /\ origin' = origin \/ pc = "load"
        /\ signal' = signal \/ signal' = FALSE
        /\ pc # "updated"
    BY <1>7 DEF Load, Resync, bosVars
  <2>2. signal' \in BOOLEAN BY <1>3, <2>1, Zenon DEF Awaited
  <2> QED BY <1>1, <1>2, <2>1, <2>2, Zenon DEF Awaited
<1>8. CASE SetApplied \/ Truncate \/ Write
  <2>1. /\ pc' \in {"truncate", "write", "idle"} /\ pc \in {"updated", "truncate", "write"}
        /\ UNCHANGED <<revs, notices, signal, etag, origin>>
        /\ applied' = etag \/ (applied' = applied /\ pc # "updated")
    BY <1>8, Zenon DEF SetApplied, Truncate, Write, bosVars
  <2> QED BY <1>1, <1>2, <2>1 DEF Awaited
<1>9. CASE ProcessEnds
  <2>1. /\ pc' = "off" /\ notices' = 0 /\ etag' = NoTag /\ applied' = NoTag /\ revs' = revs
        /\ signal' = FALSE
    BY <1>9 DEF ProcessEnds
  <2>2. signal' \in BOOLEAN BY <1>3, <2>1, Zenon
  <2> QED BY <1>1, <1>2, <2>1, <2>2 DEF Awaited
<1>10. CASE ProcessStarts
  <2>1. pc = "off" /\ pc' = "load" /\ UNCHANGED <<revs, notices, signal, etag, origin, applied>>
    BY <1>10 DEF ProcessStarts, bosVars
  <2> QED BY <1>1, <1>2, <2>1 DEF Awaited
<1>11. CASE StartPipeline \/ UNCHANGED syncVars
  <2>1. UNCHANGED <<revs, notices, signal, pc, etag, origin, applied>>
    BY <1>11 DEF StartPipeline, syncVars, loopVars, bosVars
  <2> QED BY <1>1, <1>2, <2>1, Zenon DEF Awaited
<1>12. ~FetchFails /\ ~FetchSecondary BY DEF FetchFails, FetchSecondary
<1> QED
  BY <1>4, <1>5, <1>6, <1>7, <1>8, <1>9, <1>10, <1>11, <1>12 DEF PointSyncNext, LoopStep

\* The signal channel holds one, and a notice that finds it full is dropped: with a
\* provisioning API that answers, a loop that waits with nothing signalled and nothing on
\* the stream still has the newest revision in the resolver and reports it, whatever was
\* published while it fetched, swapped or wrote (revalidatePL, Loop.Run), for
\* any number of revisions and restarts.  It is the safety half of SignalsSuffice.
THEOREM NoAnnouncementIsLost ==
    ASSUME ~Unreachable
    PROVE  PointSyncSpec => []QuietIsCurrent
<1>1. PointSyncInit => Awaited /\ (Takeover \/ SyncInv)
  <2> SUFFICES ASSUME PointSyncInit PROVE Awaited /\ SyncInv OBVIOUS
  <2>1. SyncInv BY SyncStart
  <2>2. RatchetInv
    <3>1. revs \in Seq(Lists) /\ Current \in Nat \ {0} BY <2>1 DEF SyncInv, Revisions
    <3>2. /\ origin = 0 /\ disk.origin = 0 /\ ~promoted
          /\ disk = [list |-> disk.list, origin |-> disk.origin, ok |-> disk.ok]
      BY DEF PointSyncInit, Absent, NoTag
    <3> QED BY <3>1, <3>2 DEF RatchetInv
  <2>3. Current \in Nat \ {0} BY <2>1 DEF SyncInv, Revisions
  <2>4. notices = 0 /\ pc = "load" /\ etag = NoTag /\ applied = NoTag BY DEF PointSyncInit
  <2>5. signal \in BOOLEAN BY <2>1 DEF SyncInv, Flags
  <2> QED BY <2>1, <2>2, <2>3, <2>4, <2>5 DEF Awaited
<1>2. /\ Awaited /\ (Takeover \/ SyncInv) /\ [PointSyncNext]_syncVars
      => Awaited' /\ (Takeover \/ SyncInv)'
  BY AwaitedKept, SyncStep
<1>3. Awaited /\ (Takeover \/ SyncInv) => QuietIsCurrent
  <2> SUFFICES ASSUME Awaited, Takeover \/ SyncInv, Quiet
               PROVE  /\ origin = Current /\ applied = Current
                      /\ Takeover \/ resolver = revs[Current]
    BY DEF QuietIsCurrent
  <2>1. etag = Current BY DEF Awaited, Quiet
  <2>2. Current # NoTag /\ Current # FileTag BY DEF Awaited, NoTag, FileTag
  <2>3. origin = Current /\ applied = Current BY <2>1, <2>2, Zenon DEF Awaited, Quiet
  <2>4. SyncInv => resolver = revs[Current] BY <2>1, <2>2 DEF SyncInv, Holding, ListOf
  <2> QED BY <2>3, <2>4
<1> QED BY <1>1, <1>2, <1>3, PTL DEF PointSyncSpec

-----------------------------------------------------------------------------
(* The live change of the subscriptions.                                   *)

Derived == {Derive(l) : l \in PointLists}

\* An apply with all its steps, without an unsubscribe, after its subscribe, and after
\* its broker calls.
Whole(w) == [todo |-> <<"subscribe", "unsubscribe", "store">>, want |-> w]
OnlyAdds(w) == [todo |-> <<"subscribe", "store">>, want |-> w]
Added(w) == [todo |-> <<"unsubscribe", "store">>, want |-> w]
Settled(w) == [todo |-> <<"store">>, want |-> w]

ShapeOf(p, a) ==
    \/ a = NoApply
    \/ \E w \in Derived :
          \/ a = Whole(w)
          \/ a = OnlyAdds(w) /\ ExplicitSubs(p) \subseteq ExplicitSubs(w)
          \/ a = Added(w)
          \/ a = Settled(w)

ApplyShape == ShapeOf(points, apply)

\* The filters subscribed before an apply, once it has added its own, and after it has
\* removed the rest.
BaseOf(p, a) ==
    Static \cup
    IF a = NoApply \/ Head(a.todo) = "subscribe" THEN ExplicitSubs(p)
    ELSE IF Head(a.todo) = "unsubscribe" THEN ExplicitSubs(p) \cup ExplicitSubs(a.want)
    ELSE ExplicitSubs(a.want)

Base == BaseOf(points, apply)

SubShape ==
    /\ list \in PointLists /\ points \in Derived \cup {Config}
    /\ revision = NoRev \/ (revision = points /\ revision \in Derived)
    /\ link \in {"down", "up", "ready"} /\ (link # "up" => resub = {})
    /\ waiting \subseteq Derived
    /\ crossed \in BOOLEAN /\ leftover \in BOOLEAN
    /\ drops \in 0..MaxDrops /\ applies \in 0..MaxApplies /\ edits \in 0..MaxEdits

\* A session of a connection that no apply crossed holds all of them, and unless some
\* may be left over, no others.
SessionOK ==
    /\ crossed \/ (link # "ready" /\ apply # NoApply) => leftover
    /\ link = "up" /\ ~crossed => apply = NoApply /\ resub = Base
    /\ link = "ready" /\ ~crossed => Base \subseteq session
    /\ ~leftover => session \subseteq Base

SubInv == SubShape /\ ApplyShape /\ SessionOK

-----------------------------------------------------------------------------
(* Filters and topics.                                                     *)

Filters == Seq(STRING) \ {<<>>}

LEMMA StemIs ==
    ASSUME NEW f \in Filters
    PROVE  /\ Stem(f) = DOMAIN f <=> \A i \in 1..Len(f) : f[i] # "#"
           /\ Stem(f) = 1..(Len(f) - 1) => f[Len(f)] = "#"
           /\ f[Len(f)] = "#" /\ (\A i \in 1..(Len(f) - 1) : f[i] # "#")
                => Stem(f) = 1..(Len(f) - 1)
<1> DEFINE n == Len(f)
<1>1. n \in Nat /\ n >= 1 /\ DOMAIN f = 1..n BY DEF Filters
<1> HIDE DEF n
<1>2. Stem(f) = {i \in 1..n : \A j \in 1..i : f[j] # "#"} BY <1>1 DEF Stem
<1>3. n \in Stem(f) <=> \A i \in 1..n : f[i] # "#" BY <1>1, <1>2
<1>4. (\A i \in 1..n : f[i] # "#") => Stem(f) = 1..n BY <1>1, <1>2
<1>5. Stem(f) = DOMAIN f <=> \A i \in 1..n : f[i] # "#" BY <1>1, <1>3, <1>4
<1>6. ASSUME Stem(f) = 1..(n - 1) PROVE f[n] = "#"
  <2>1. n \notin Stem(f) BY <1>1, <1>6
  <2>2. ASSUME NEW i \in 1..(n - 1) PROVE f[i] # "#"
    <3>1. i \in Stem(f) BY <1>6
    <3>2. \A j \in 1..i : f[j] # "#" BY <1>2, <3>1
    <3> QED BY <1>1, <3>2
  <2> QED BY <1>1, <1>3, <2>1, <2>2
<1>7. ASSUME f[n] = "#", \A i \in 1..(n - 1) : f[i] # "#" PROVE Stem(f) = 1..(n - 1)
  BY <1>1, <1>2, <1>7
<1> QED BY <1>5, <1>6, <1>7 DEF n

\* What both filterMatches and the broker find of a concrete topic.
Reaches(f, t) ==
    /\ t[1] \in Reserved => f[1] \in Reserved
    /\ \/ /\ \A i \in 1..Len(f) : f[i] # "#" /\ f[i] \in {"+", t[i]}
          /\ Len(f) = Len(t)
       \/ /\ f[Len(f)] = "#"
          /\ \A i \in 1..(Len(f) - 1) : f[i] # "#" /\ f[i] \in {"+", t[i]}
          /\ Len(t) >= Len(f) - 1

LEMMA FilterReaches ==
    ASSUME NEW f \in Filters, NEW t \in Filters, ~HasWildcard(t)
    PROVE  FilterMatches(f, t) <=> Reaches(f, t)
<1>1. /\ Len(f) \in Nat /\ Len(f) >= 1 /\ DOMAIN f = 1..Len(f)
      /\ Len(t) \in Nat /\ Len(t) >= 1 /\ DOMAIN t = 1..Len(t)
  BY DEF Filters
<1>2. \A i \in 1..Len(t) : t[i] \notin {"+", "#"} BY <1>1 DEF HasWildcard
<1>3. ASSUME FilterMatches(f, t) PROVE Reaches(f, t)
  <2>1. CASE f = t BY <1>2, <2>1 DEF Reaches
  <2>2. CASE f # t
    <3>1. /\ t[1] \in Reserved => f[1] \in Reserved
          /\ \A i \in Stem(f) : i \in DOMAIN t /\ f[i] \in {"+", t[i]}
          /\ IF Stem(f) = DOMAIN f THEN Len(f) = Len(t) ELSE Stem(f) = 1..(Len(f) - 1)
      BY <1>3, <2>2, SMTT(20), Zenon DEF FilterMatches
    <3>2. CASE Stem(f) = DOMAIN f
      <4>1. \A i \in 1..Len(f) : f[i] # "#" BY <3>2, StemIs
      <4> QED BY <1>1, <3>1, <3>2, <4>1, Zenon DEF Reaches
    <3>3. CASE Stem(f) # DOMAIN f
      <4>1. f[Len(f)] = "#" /\ Stem(f) = 1..(Len(f) - 1) BY <3>1, <3>3, StemIs, SMTT(20), Zenon
      <4>2. \A i \in 1..(Len(f) - 1) : i \in 1..Len(t) /\ f[i] \in {"+", t[i]} BY <1>1, <3>1, <4>1, Zenon
      <4>3. \A i \in 1..(Len(f) - 1) : f[i] # "#" BY <1>2, <4>2
      <4>4. Len(t) >= Len(f) - 1
        <5>1. CASE Len(f) = 1 BY <1>1, <5>1
        <5>2. CASE Len(f) > 1
          <6>1. Len(f) - 1 \in 1..(Len(f) - 1) BY <1>1, <5>2
          <6> QED BY <1>1, <4>2, <6>1
        <5> QED BY <1>1, <5>1, <5>2
      <4> QED BY <3>1, <4>1, <4>2, <4>3, <4>4, Zenon DEF Reaches
    <3> QED BY <3>2, <3>3
  <2> QED BY <2>1, <2>2
<1>4. ASSUME Reaches(f, t) PROVE FilterMatches(f, t)
  <2>1. CASE (\A i \in 1..Len(f) : f[i] # "#" /\ f[i] \in {"+", t[i]}) /\ Len(f) = Len(t)
    <3>1. Stem(f) = DOMAIN f BY <2>1, StemIs, Zenon
    <3> QED BY <1>1, <1>4, <2>1, <3>1, Zenon DEF FilterMatches, Reaches
  <2>2. CASE /\ f[Len(f)] = "#"
             /\ \A i \in 1..(Len(f) - 1) : f[i] # "#" /\ f[i] \in {"+", t[i]}
             /\ Len(t) >= Len(f) - 1
    <3>1. Stem(f) = 1..(Len(f) - 1) BY <2>2, StemIs
    <3>2. Len(f) \in DOMAIN f /\ Len(f) \notin 1..(Len(f) - 1) BY <1>1
    <3>3. Stem(f) # DOMAIN f BY <3>1, <3>2
    <3>4. \A i \in Stem(f) : i \in DOMAIN t /\ f[i] \in {"+", t[i]}
      <4>1. \A i \in 1..(Len(f) - 1) : i \in 1..Len(t) BY <1>1, <2>2
      <4> QED BY <1>1, <2>2, <3>1, <4>1
    <3>5. t[1] \in Reserved => f[1] \in Reserved BY <1>4 DEF Reaches
    <3> QED BY <3>1, <3>3, <3>4, <3>5, Zenon DEF FilterMatches
  <2> QED BY <1>4, <2>1, <2>2 DEF Reaches
<1> QED BY <1>3, <1>4

LEMMA BrokerReaches ==
    ASSUME NEW f \in Filters, NEW t \in Filters, ~HasWildcard(t)
    PROVE  BrokerMatches(f, t) <=> Reaches(f, t)
<1> DEFINE n == Len(f)
           Level(i) == f[i] = t[i] \/ (f[i] = "+" /\ ~(i = 1 /\ t[1] \in Reserved))
<1>1. /\ n \in Nat /\ n >= 1 /\ Len(t) \in Nat /\ Len(t) >= 1 /\ DOMAIN t = 1..Len(t)
  BY DEF Filters
<1>2. \A i \in 1..Len(t) : t[i] \notin {"+", "#"} BY <1>1, Zenon DEF HasWildcard
<1>3. BrokerMatches(f, t) <=>
        IF f[n] = "#"
        THEN /\ Len(t) >= n - 1
             /\ \A i \in 1..(n - 1) : Level(i)
             /\ n = 1 => t[1] \notin Reserved
        ELSE Len(t) = n /\ \A i \in 1..n : Level(i)
  BY DEF BrokerMatches
<1>4. Reserved \cap {"+", "#"} = {} BY TopicsAssumption
<1> HIDE DEF n
<1>5. ASSUME NEW i \in 1..n, i <= Len(t), t[1] \in Reserved => f[1] \in Reserved
      PROVE  Level(i) <=> f[i] \in {"+", t[i]}
  BY <1>4, <1>5
<1>6. ASSUME NEW i \in 1..n, i <= Len(t), Level(i) PROVE f[i] # "#" /\ f[i] \in {"+", t[i]}
  BY <1>1, <1>2, <1>6
<1>7. (1 <= n /\ Level(1)) => (t[1] \in Reserved => f[1] \in Reserved) OBVIOUS
<1>8. CASE f[n] = "#"
  <2>1. ASSUME BrokerMatches(f, t) PROVE Reaches(f, t)
    <3>1. /\ Len(t) >= n - 1 /\ \A i \in 1..(n - 1) : Level(i)
          /\ n = 1 => t[1] \notin Reserved
      BY <1>3, <1>8, <2>1, Zenon
    <3>2. t[1] \in Reserved => f[1] \in Reserved
      <4>1. CASE n = 1 BY <3>1, <4>1, Zenon
      <4>2. CASE n > 1
        <5>1. 1 \in 1..(n - 1) BY <1>1, <4>2
        <5> QED BY <1>1, <1>7, <3>1, <5>1
      <4> QED BY <1>1, <4>1, <4>2
    <3>3. \A i \in 1..(n - 1) : f[i] # "#" /\ f[i] \in {"+", t[i]}
      BY <1>1, <1>6, <3>1, SMTT(20), Zenon
    <3> QED BY <1>8, <3>1, <3>2, <3>3, Zenon DEF Reaches, n
  <2>2. ASSUME Reaches(f, t) PROVE BrokerMatches(f, t)
    <3>1. /\ Len(t) >= n - 1 /\ \A i \in 1..(n - 1) : f[i] \in {"+", t[i]}
          /\ t[1] \in Reserved => f[1] \in Reserved
      <4>1. ~ \A i \in 1..n : f[i] # "#" BY <1>1, <1>8
      <4> QED BY <2>2, <4>1 DEF Reaches, n
    <3>2. \A i \in 1..(n - 1) : Level(i) BY <1>1, <1>5, <3>1
    <3>3. n = 1 => t[1] \notin Reserved BY <1>4, <1>8, <3>1, Zenon
    <3> QED BY <1>3, <1>8, <3>1, <3>2, <3>3, Zenon
  <2> QED BY <2>1, <2>2
<1>9. CASE f[n] # "#"
  <2>1. ASSUME BrokerMatches(f, t) PROVE Reaches(f, t)
    <3>1. Len(t) = n /\ \A i \in 1..n : Level(i) BY <1>3, <1>9, <2>1
    <3>2. t[1] \in Reserved => f[1] \in Reserved
      <4>1. 1 \in 1..n BY <1>1
      <4> QED BY <1>1, <1>7, <3>1, <4>1
    <3>3. \A i \in 1..n : f[i] # "#" /\ f[i] \in {"+", t[i]} BY <1>1, <1>6, <3>1
    <3> QED BY <3>1, <3>2, <3>3, Zenon DEF Reaches, n
  <2>2. ASSUME Reaches(f, t) PROVE BrokerMatches(f, t)
    <3>1. /\ Len(t) = n /\ \A i \in 1..n : f[i] \in {"+", t[i]}
          /\ t[1] \in Reserved => f[1] \in Reserved
      BY <1>9, <2>2, Zenon DEF Reaches, n
    <3>2. \A i \in 1..n : Level(i) BY <1>1, <1>5, <3>1
    <3> QED BY <1>3, <1>9, <3>1, <3>2, Zenon
  <2> QED BY <2>1, <2>2
<1> QED BY <1>8, <1>9

\* On concrete topics the connector's matcher and the broker agree.
LEMMA MatchersAgree ==
    ASSUME NEW f \in Filters, NEW t \in Filters, ~HasWildcard(t)
    PROVE  BrokerMatches(f, t) <=> FilterMatches(f, t)
BY FilterReaches, BrokerReaches

LEMMA ExactMatchesItself ==
    ASSUME NEW f \in Filters, NEW t \in Filters, ~HasWildcard(t), ~HasWildcard(f),
           BrokerMatches(f, t)
    PROVE  f = t
<1>1. Reaches(f, t) BY BrokerReaches
<1>2. /\ Len(f) \in Nat /\ Len(f) >= 1 /\ DOMAIN f = 1..Len(f) /\ f \in Seq(STRING)
      /\ Len(t) \in Nat /\ DOMAIN t = 1..Len(t) /\ t \in Seq(STRING)
  BY DEF Filters
<1>3. \A i \in 1..Len(f) : f[i] \notin {"+", "#"} BY <1>2 DEF HasWildcard
<1>4. f[Len(f)] # "#" BY <1>2, <1>3
<1>5. Len(f) = Len(t) /\ \A i \in 1..Len(f) : f[i] \in {"+", t[i]} BY <1>1, <1>4 DEF Reaches
<1>6. \A i \in 1..Len(f) : f[i] = t[i] BY <1>3, <1>5, Zenon
<1> QED BY <1>2, <1>5, <1>6


-----------------------------------------------------------------------------
(* The plan of an apply and the steps it takes.                            *)

LEMMA PlanIs ==
    ASSUME NEW p, NEW w
    PROVE  /\ ToSubscribe(p, w) \subseteq ExplicitSubs(w)
           /\ ExplicitSubs(w) \subseteq ExplicitSubs(p) \cup ToSubscribe(p, w)
           /\ ToUnsubscribe(p, w) = ExplicitSubs(p) \ ExplicitSubs(w)
           /\ Static \cap ExplicitSubs(p) = {}
<1>1. Static \cap ExplicitSubs(p) = {} BY Zenon DEF ExplicitSubs, CoveredByWildcard, FilterMatches
<1> QED BY <1>1, Zenon DEF ToSubscribe, ToUnsubscribe

LEMMA ApplyForms ==
    ASSUME NEW w
    PROVE  /\ Whole(w) # NoApply /\ Head(Whole(w).todo) = "subscribe" /\ Whole(w).want = w
           /\ OnlyAdds(w) # NoApply /\ Head(OnlyAdds(w).todo) = "subscribe" /\ OnlyAdds(w).want = w
           /\ Added(w) # NoApply /\ Head(Added(w).todo) = "unsubscribe" /\ Added(w).want = w
           /\ Settled(w) # NoApply /\ Head(Settled(w).todo) = "store" /\ Settled(w).want = w
<1> DEFINE s3 == <<"subscribe", "unsubscribe", "store">>
           s2 == <<"subscribe", "store">>
           u2 == <<"unsubscribe", "store">>
           s1 == <<"store">>
<1>1. /\ Head(s3) = "subscribe" /\ Tail(s3) = u2 /\ s3 # <<>>
      /\ Head(s2) = "subscribe" /\ Tail(s2) = s1 /\ s2 # <<>>
      /\ Head(u2) = "unsubscribe" /\ Tail(u2) = s1 /\ u2 # <<>>
      /\ Head(s1) = "store" /\ s1 # <<>>
  OBVIOUS
<1>2. NoApply.todo = <<>> BY Zenon DEF NoApply
<1> HIDE DEF s3, s2, u2, s1
<1>3. /\ Whole(w) = [todo |-> s3, want |-> w] /\ OnlyAdds(w) = [todo |-> s2, want |-> w]
      /\ Added(w) = [todo |-> u2, want |-> w] /\ Settled(w) = [todo |-> s1, want |-> w]
  BY Zenon DEF Whole, OnlyAdds, Added, Settled, s3, s2, u2, s1
<1>4. /\ Whole(w).todo = s3 /\ OnlyAdds(w).todo = s2 /\ Added(w).todo = u2 /\ Settled(w).todo = s1
      /\ Whole(w).want = w /\ OnlyAdds(w).want = w /\ Added(w).want = w /\ Settled(w).want = w
  BY <1>3
<1> QED BY <1>1, <1>2, <1>3, <1>4, Zenon

LEMMA StepForms ==
    ASSUME NEW w, StepDone
    PROVE  /\ apply = Whole(w) => apply' = Added(w)
           /\ apply = OnlyAdds(w) => apply' = Settled(w)
           /\ apply = Added(w) => apply' = Settled(w)
<1>1. ASSUME NEW s, apply = [todo |-> s, want |-> w] PROVE apply' = [todo |-> Tail(s), want |-> w]
  <2>1. apply.todo = s BY <1>1
  <2>2. apply' = [apply EXCEPT !.todo = Tail(s)] BY <2>1 DEF StepDone
  <2> QED BY <1>1, <2>2, Zenon
<1>2. /\ Tail(<<"subscribe", "unsubscribe", "store">>) = <<"unsubscribe", "store">>
      /\ Tail(<<"subscribe", "store">>) = <<"store">>
      /\ Tail(<<"unsubscribe", "store">>) = <<"store">>
  OBVIOUS
<1>3. apply = Whole(w) => apply' = Added(w) BY <1>1, <1>2, Zenon DEF Whole, Added
<1>4. apply = OnlyAdds(w) => apply' = Settled(w) BY <1>1, <1>2, Zenon DEF OnlyAdds, Settled
<1>5. apply = Added(w) => apply' = Settled(w) BY <1>1, <1>2, Zenon DEF Added, Settled
<1> QED BY <1>3, <1>4, <1>5

LEMMA TwoSteps ==
    ASSUME NEW a, NEW b
    PROVE  <<a>> \o <<b>> = <<a, b>>
<1> DEFINE q == <<a>> \o <<b>>  r == <<a, b>>
<1>1. <<a>> \in Seq({a, b}) /\ <<b>> \in Seq({a, b}) /\ r \in Seq({a, b}) OBVIOUS
<1>2. Len(<<a>>) = 1 /\ Len(<<b>>) = 1 /\ Len(r) = 2 /\ r[1] = a /\ r[2] = b OBVIOUS
<1>3. q \in Seq({a, b}) /\ Len(q) = 2 BY <1>1, <1>2
<1>4. q[1] = a BY <1>1, <1>2
<1>5. q[2] = b BY <1>1, <1>2
<1> HIDE DEF q, r
<1>6. \A i \in 1..2 : q[i] = r[i] BY <1>2, <1>4, <1>5
<1>7. q = r BY <1>1, <1>2, <1>3, <1>6
<1> QED BY <1>7 DEF q, r

LEMMA ThreeSteps ==
    ASSUME NEW a, NEW b, NEW c
    PROVE  <<a, b>> \o <<c>> = <<a, b, c>>
<1> DEFINE q == <<a, b>> \o <<c>>  r == <<a, b, c>>
<1>1. <<a, b>> \in Seq({a, b, c}) /\ <<c>> \in Seq({a, b, c}) /\ r \in Seq({a, b, c}) OBVIOUS
<1>2. Len(<<a, b>>) = 2 /\ Len(<<c>>) = 1 /\ Len(r) = 3 /\ r[1] = a /\ r[2] = b /\ r[3] = c
  OBVIOUS
<1>3. q \in Seq({a, b, c}) /\ Len(q) = 3 BY <1>1, <1>2
<1>4. q[1] = a /\ q[2] = b BY <1>1, <1>2
<1>5. q[3] = c BY <1>1, <1>2
<1> HIDE DEF q, r
<1>6. \A i \in 1..3 : q[i] = r[i] BY <1>2, <1>4, <1>5
<1>7. q = r BY <1>1, <1>2, <1>3, <1>6, SMTT(20), Zenon
<1> QED BY <1>7 DEF q, r

LEMMA StepsForms ==
    ASSUME NEW w
    PROVE  LET a == [todo |-> Steps(w), want |-> w]
           IN \/ a = Whole(w)
              \/ a = OnlyAdds(w) /\ ExplicitSubs(points) \subseteq ExplicitSubs(w)
              \/ a = Added(w) /\ ExplicitSubs(w) \subseteq ExplicitSubs(points)
              \/ a = Settled(w) /\ ExplicitSubs(points) = ExplicitSubs(w)
<1>1. /\ <<"subscribe">> \o <<"unsubscribe">> \o <<"store">> = <<"subscribe", "unsubscribe", "store">>
      /\ <<"subscribe">> \o <<>> \o <<"store">> = <<"subscribe", "store">>
      /\ <<>> \o <<"unsubscribe">> \o <<"store">> = <<"unsubscribe", "store">>
      /\ <<>> \o <<>> \o <<"store">> = <<"store">>
  <2>1. <<"subscribe">> \o <<"unsubscribe">> = <<"subscribe", "unsubscribe">> BY TwoSteps, Zenon
  <2>2. <<"subscribe", "unsubscribe">> \o <<"store">> = <<"subscribe", "unsubscribe", "store">>
    BY ThreeSteps, Zenon
  <2>3. <<"subscribe">> \o <<>> = <<"subscribe">> OBVIOUS
  <2>4. <<"subscribe">> \o <<"store">> = <<"subscribe", "store">> BY TwoSteps, Zenon
  <2>5. <<>> \o <<"unsubscribe">> = <<"unsubscribe">> OBVIOUS
  <2>6. <<"unsubscribe">> \o <<"store">> = <<"unsubscribe", "store">> BY TwoSteps, Zenon
  <2>7. <<>> \o <<>> = <<>> OBVIOUS
  <2>8. <<>> \o <<"store">> = <<"store">> OBVIOUS
  <2> QED BY <2>1, <2>2, <2>3, <2>4, <2>5, <2>6, <2>7, <2>8, Zenon
<1>2. Steps(w) = (IF ToSubscribe(points, w) = {} THEN <<>> ELSE <<"subscribe">>)
                 \o (IF ToUnsubscribe(points, w) = {} THEN <<>> ELSE <<"unsubscribe">>) \o <<"store">>
  BY DEF Steps, Needed
<1>3. ToSubscribe(points, w) = {} => ExplicitSubs(w) \subseteq ExplicitSubs(points) BY PlanIs, Zenon
<1>4. ToUnsubscribe(points, w) = {} => ExplicitSubs(points) \subseteq ExplicitSubs(w) BY PlanIs, SMTT(20), Zenon
<1>5. CASE ToSubscribe(points, w) # {} /\ ToUnsubscribe(points, w) # {}
  BY <1>1, <1>2, <1>5, ZenonT(30) DEF Whole
<1>6. CASE ToSubscribe(points, w) # {} /\ ToUnsubscribe(points, w) = {}
  BY <1>1, <1>2, <1>4, <1>6, ZenonT(30) DEF OnlyAdds
<1>7. CASE ToSubscribe(points, w) = {} /\ ToUnsubscribe(points, w) # {}
  BY <1>1, <1>2, <1>3, <1>7, ZenonT(30) DEF Added
<1>8. CASE ToSubscribe(points, w) = {} /\ ToUnsubscribe(points, w) = {}
  <2>1. Steps(w) = <<"store">> BY <1>1, <1>2, <1>8, Zenon
  <2>2. ExplicitSubs(points) = ExplicitSubs(w) BY <1>3, <1>4, <1>8, Zenon
  <2> QED BY <2>1, <2>2 DEF Settled
<1> QED BY <1>5, <1>6, <1>7, <1>8, Zenon

LEMMA BaseAt ==
    ASSUME NEW p, NEW w
    PROVE  /\ BaseOf(p, NoApply) = Static \cup ExplicitSubs(p)
           /\ BaseOf(p, Whole(w)) = Static \cup ExplicitSubs(p)
           /\ BaseOf(p, OnlyAdds(w)) = Static \cup ExplicitSubs(p)
           /\ BaseOf(p, Added(w)) = Static \cup ExplicitSubs(p) \cup ExplicitSubs(w)
           /\ BaseOf(p, Settled(w)) = Static \cup ExplicitSubs(w)
<1>1. BaseOf(p, NoApply) = Static \cup ExplicitSubs(p) BY Zenon DEF BaseOf
<1>2. BaseOf(p, Whole(w)) = Static \cup ExplicitSubs(p) BY ApplyForms, Zenon DEF BaseOf
<1>3. BaseOf(p, OnlyAdds(w)) = Static \cup ExplicitSubs(p) BY ApplyForms, Zenon DEF BaseOf
<1>4. BaseOf(p, Added(w)) = Static \cup ExplicitSubs(p) \cup ExplicitSubs(w)
  <2>1. "unsubscribe" # "subscribe" OBVIOUS
  <2> QED BY <2>1, ApplyForms DEF BaseOf
<1>5. BaseOf(p, Settled(w)) = Static \cup ExplicitSubs(w)
  <2>1. "store" # "subscribe" /\ "store" # "unsubscribe" BY Zenon
  <2> QED BY <2>1, ApplyForms DEF BaseOf
<1> QED BY <1>1, <1>2, <1>3, <1>4, <1>5, Zenon

\* The request an apply is at, by the step that comes next.
LEMMA AtForms ==
    ASSUME ApplyShape, NEW s, At(s)
    PROVE  \E w \in Derived :
              /\ apply.want = w
              /\ \/ s = "subscribe" /\ apply = Whole(w)
                 \/ /\ s = "subscribe" /\ apply = OnlyAdds(w)
                    /\ ExplicitSubs(points) \subseteq ExplicitSubs(w)
                 \/ s = "unsubscribe" /\ apply = Added(w)
                 \/ s = "store" /\ apply = Settled(w)
<1>1. apply # NoApply /\ Head(apply.todo) = s BY DEF At
<1>2. PICK w \in Derived :
          \/ apply = Whole(w)
          \/ apply = OnlyAdds(w) /\ ExplicitSubs(points) \subseteq ExplicitSubs(w)
          \/ apply = Added(w)
          \/ apply = Settled(w)
  BY <1>1, Zenon DEF ApplyShape, ShapeOf
<1>3. CASE apply = Whole(w) BY <1>1, <1>3, ApplyForms, Zenon
<1>4. CASE apply = OnlyAdds(w) /\ ExplicitSubs(points) \subseteq ExplicitSubs(w)
  BY <1>1, <1>4, ApplyForms, Zenon
<1>5. CASE apply = Added(w) BY <1>1, <1>5, ApplyForms, Zenon
<1>6. CASE apply = Settled(w) BY <1>1, <1>6, ApplyForms
<1> QED BY <1>2, <1>3, <1>4, <1>5, <1>6

-----------------------------------------------------------------------------
(* The invariant holds of every reachable state.                           *)

LEMMA SubStarts == SubscriptionsInit => SubInv
<1> SUFFICES ASSUME SubscriptionsInit PROVE SubInv OBVIOUS
<1>1. MaxApplies \in Nat /\ MaxDrops \in Nat /\ MaxEdits \in Nat BY SubscriptionBounds
<1>2. SubShape
  <2>1. drops \in 0..MaxDrops /\ applies \in 0..MaxApplies /\ edits \in 0..MaxEdits
    BY <1>1 DEF SubscriptionsInit
  <2>2. crossed \in BOOLEAN /\ leftover \in BOOLEAN BY Zenon DEF SubscriptionsInit
  <2> QED BY <2>1, <2>2, Zenon DEF SubscriptionsInit, SubShape
<1>3. ApplyShape BY DEF SubscriptionsInit, ApplyShape, ShapeOf
<1>4. SessionOK BY DEF SubscriptionsInit, SessionOK
<1> QED BY <1>2, <1>3, <1>4 DEF SubInv

LEMMA EditKeeps == SubInv /\ Edit => SubInv'
<1> SUFFICES ASSUME SubInv, Edit PROVE SubInv' OBVIOUS
<1>1. MaxApplies \in Nat /\ MaxDrops \in Nat /\ MaxEdits \in Nat BY SubscriptionBounds, Zenon
<1>2. SubShape' BY <1>1 DEF SubInv, SubShape, Edit, indexVars, applyVars, linkVars
<1>3. ApplyShape' BY Zenon DEF SubInv, ApplyShape, ShapeOf, Edit, indexVars, applyVars, linkVars
<1>4. SessionOK' BY ZenonT(30) DEF SubInv, SessionOK, Base, Edit, indexVars, applyVars, linkVars
<1> QED BY <1>2, <1>3, <1>4 DEF SubInv

LEMMA RequestKeeps == SubInv /\ RequestApply => SubInv'
<1> SUFFICES ASSUME SubInv, RequestApply PROVE SubInv' OBVIOUS
<1>1. MaxApplies \in Nat /\ MaxDrops \in Nat /\ MaxEdits \in Nat BY SubscriptionBounds
<1>2. Derive(list) \in Derived BY Zenon DEF SubInv, SubShape, Derived
<1>3. SubShape' BY <1>1, <1>2 DEF SubInv, SubShape, RequestApply, indexVars, linkVars
<1>4. ApplyShape' BY Zenon DEF SubInv, ApplyShape, ShapeOf, RequestApply, indexVars, linkVars
<1>5. SessionOK' BY DEF SubInv, SessionOK, Base, RequestApply, indexVars, linkVars
<1> QED BY <1>3, <1>4, <1>5 DEF SubInv

LEMMA BeginKeeps ==
    ASSUME NEW w, SubInv, ApplyBegins(w)
    PROVE  SubInv'
<1>1. w \in Derived BY Zenon DEF SubInv, SubShape, ApplyBegins
<1>2. SubShape' BY DEF SubInv, SubShape, ApplyBegins, indexVars
<1>3. points' = points /\ apply = NoApply BY Zenon DEF ApplyBegins, indexVars
<1>4. \/ apply' = Whole(w)
      \/ apply' = OnlyAdds(w) /\ ExplicitSubs(points) \subseteq ExplicitSubs(w)
      \/ apply' = Added(w) /\ ExplicitSubs(w) \subseteq ExplicitSubs(points)
      \/ apply' = Settled(w) /\ ExplicitSubs(points) = ExplicitSubs(w)
  BY StepsForms DEF ApplyBegins
<1>5. ApplyShape' BY <1>1, <1>3, <1>4, Zenon DEF ApplyShape, ShapeOf
<1>6. apply' # NoApply BY <1>4, ApplyForms
<1>7. Base' = Base
  <2>1. Base = Static \cup ExplicitSubs(points) BY <1>3, BaseAt, Zenon DEF Base
  <2>2. Base' = BaseOf(points, apply') BY <1>3, Zenon DEF Base
  <2>3. CASE apply' = Whole(w) BY <2>1, <2>2, <2>3, BaseAt, Zenon
  <2>4. CASE apply' = OnlyAdds(w) BY <2>1, <2>2, <2>4, BaseAt
  <2>5. CASE apply' = Added(w) /\ ExplicitSubs(w) \subseteq ExplicitSubs(points)
    <3>1. Base' = Static \cup ExplicitSubs(points) \cup ExplicitSubs(w) BY <2>2, <2>5, BaseAt
    <3> QED BY <2>1, <2>5, <3>1, Zenon
  <2>6. CASE apply' = Settled(w) /\ ExplicitSubs(points) = ExplicitSubs(w)
    <3>1. Base' = Static \cup ExplicitSubs(w) BY <2>2, <2>6, BaseAt, SMTT(20), Zenon
    <3> QED BY <2>1, <2>6, <3>1, Zenon
  <2> QED BY <1>4, <2>3, <2>4, <2>5, <2>6
<1>8. SessionOK' BY <1>3, <1>6, <1>7, Zenon DEF SubInv, SessionOK, ApplyBegins
<1> QED BY <1>2, <1>5, <1>8, Zenon DEF SubInv

LEMMA SubscribesKeeps == SubInv /\ ApplySubscribes => SubInv'
<1> SUFFICES ASSUME SubInv, ApplySubscribes PROVE SubInv' OBVIOUS
<1>1. SubShape' BY DEF SubInv, SubShape, ApplySubscribes, indexVars
<1>2. /\ At("subscribe") /\ StepDone /\ points' = points
      /\ session' = session \cup ToSubscribe(points, apply.want)
  BY DEF ApplySubscribes, indexVars
<1>3. "subscribe" # "unsubscribe" /\ "subscribe" # "store" OBVIOUS
<1>4. ApplyShape BY DEF SubInv
<1>5. PICK w \in Derived :
        /\ apply.want = w
        /\ \/ apply = Whole(w)
           \/ apply = OnlyAdds(w) /\ ExplicitSubs(points) \subseteq ExplicitSubs(w)
  BY <1>2, <1>3, <1>4, AtForms, Zenon
<1>6. /\ ToSubscribe(points, w) \subseteq ExplicitSubs(w)
      /\ ExplicitSubs(w) \subseteq ExplicitSubs(points) \cup ToSubscribe(points, w)
  BY PlanIs
<1>7. apply # NoApply BY <1>2, Zenon DEF At
<1>8. Base = Static \cup ExplicitSubs(points) BY <1>5, BaseAt DEF Base
<1>9. /\ \/ apply' = Added(w)
         \/ apply' = Settled(w) /\ ExplicitSubs(points) \subseteq ExplicitSubs(w)
      /\ apply' # NoApply
  <2>1. /\ apply = Whole(w) => apply' = Added(w)
        /\ apply = OnlyAdds(w) => apply' = Settled(w)
    BY <1>2, StepForms, Zenon
  <2>2. Added(w) # NoApply /\ Settled(w) # NoApply BY ApplyForms, Zenon
  <2> QED BY <1>5, <2>1, <2>2, Zenon
<1>10. Base' = Base \cup ExplicitSubs(w)
  <2>1. Base' = BaseOf(points, apply') BY <1>2 DEF Base
  <2>2. CASE apply' = Added(w)
    <3>1. Base' = Static \cup ExplicitSubs(points) \cup ExplicitSubs(w) BY <2>1, <2>2, BaseAt
    <3> QED BY <1>8, <3>1, Zenon
  <2>3. CASE apply' = Settled(w) /\ ExplicitSubs(points) \subseteq ExplicitSubs(w)
    <3>1. Base' = Static \cup ExplicitSubs(w) BY <2>1, <2>3, BaseAt
    <3> QED BY <1>8, <2>3, <3>1, Zenon
  <2> QED BY <1>9, <2>2, <2>3
<1>11. ApplyShape' BY <1>9 DEF ApplyShape, ShapeOf
<1>12. SessionOK'
  <2>1. link' = link /\ crossed' = crossed /\ leftover' = leftover BY DEF ApplySubscribes
  <2>2. session' = session \cup ToSubscribe(points, w) BY <1>2, <1>5
  <2>3. (crossed' \/ (link' # "ready" /\ apply' # NoApply)) => leftover'
    BY <1>7, <2>1 DEF SubInv, SessionOK
  <2>4. ~(link' = "up" /\ ~crossed') BY <1>7, <2>1, Zenon DEF SubInv, SessionOK
  <2>5. link' = "ready" /\ ~crossed' => Base' \subseteq session'
    <3>1. link = "ready" /\ ~crossed => Base \subseteq session BY DEF SubInv, SessionOK
    <3> QED BY <1>6, <1>8, <1>10, <2>1, <2>2, <3>1, Zenon
  <2>6. ~leftover' => session' \subseteq Base'
    <3>1. ~leftover => session \subseteq Base BY Zenon DEF SubInv, SessionOK
    <3> QED BY <1>6, <1>10, <2>1, <2>2, <3>1, SMTT(20), Zenon
  <2> QED BY <2>3, <2>4, <2>5, <2>6, Zenon DEF SessionOK
<1> QED BY <1>1, <1>11, <1>12, Zenon DEF SubInv

LEMMA SubscribeFailsKeeps == SubInv /\ ApplySubscribeFails => SubInv'
<1> SUFFICES ASSUME SubInv, ApplySubscribeFails PROVE SubInv' OBVIOUS
<1>1. /\ At("subscribe") /\ apply' = NoApply /\ points' = points
      /\ link' = link /\ crossed' = crossed
  BY DEF ApplySubscribeFails, indexVars
<1>2. PICK some : session' = session \cup some /\ leftover' = (leftover \/ some # {})
  BY Zenon DEF ApplySubscribeFails
<1>3. SubShape'
  <2>1. drops' \in 0..MaxDrops
    BY SubscriptionBounds DEF SubInv, SubShape, ApplySubscribeFails
  <2>2. leftover' \in BOOLEAN BY <1>2
  <2> QED BY <2>1, <2>2, Zenon DEF SubInv, SubShape, ApplySubscribeFails, indexVars
<1>4. ApplyShape' BY <1>1 DEF ApplyShape, ShapeOf
<1>5. apply # NoApply BY <1>1, Zenon DEF At
<1>6. Base' = Base
  <2>1. ApplyShape BY DEF SubInv
  <2>2. "subscribe" # "unsubscribe" /\ "subscribe" # "store" OBVIOUS
  <2>3. PICK w \in Derived : apply = Whole(w) \/ apply = OnlyAdds(w)
    BY <1>1, <2>1, <2>2, AtForms, Zenon
  <2>4. Base = Static \cup ExplicitSubs(points) BY <2>3, BaseAt DEF Base
  <2>5. Base' = BaseOf(points, NoApply) BY <1>1 DEF Base
  <2> QED BY <2>4, <2>5, BaseAt, Zenon
<1>7. SessionOK'
  <2>1. crossed => leftover BY DEF SubInv, SessionOK
  <2>2. ~(link = "up" /\ ~crossed) BY <1>5 DEF SubInv, SessionOK
  <2>3. link = "ready" /\ ~crossed => Base \subseteq session BY DEF SubInv, SessionOK
  <2>4. ~leftover => session \subseteq Base BY DEF SubInv, SessionOK
  <2> QED BY <1>1, <1>2, <1>6, <2>1, <2>2, <2>3, <2>4, Zenon DEF SessionOK
<1> QED BY <1>3, <1>4, <1>7 DEF SubInv

LEMMA UnsubscribesKeeps ==
    ASSUME SubInv, ApplyUnsubscribes \/ ApplyUnsubscribeFails
    PROVE  SubInv'
<1>1. At("unsubscribe") /\ StepDone /\ points' = points /\ link' = link /\ crossed' = crossed
  BY Zenon DEF ApplyUnsubscribes, ApplyUnsubscribeFails, indexVars
<1>2. PICK some : /\ some \subseteq ToUnsubscribe(points, apply.want)
                  /\ session' = session \ some
                  /\ leftover' = TRUE
                     \/ (leftover' = leftover /\ some = ToUnsubscribe(points, apply.want))
  BY Zenon DEF ApplyUnsubscribes, ApplyUnsubscribeFails
<1>3. SubShape'
  <2>1. drops' \in 0..MaxDrops
    BY SubscriptionBounds DEF SubInv, SubShape, ApplyUnsubscribes, ApplyUnsubscribeFails
  <2>2. leftover' \in BOOLEAN BY <1>2, Zenon DEF SubInv, SubShape
  <2>3. /\ list' = list /\ points' = points /\ revision' = revision /\ link' = link
        /\ resub' = resub /\ waiting' = waiting /\ crossed' = crossed
        /\ applies' = applies /\ edits' = edits
    BY DEF ApplyUnsubscribes, ApplyUnsubscribeFails, indexVars
  <2> QED BY <2>1, <2>2, <2>3, Zenon DEF SubInv, SubShape
<1>4. "unsubscribe" # "subscribe" /\ "unsubscribe" # "store" OBVIOUS
<1>5. ApplyShape BY DEF SubInv
<1>6. PICK w \in Derived : apply.want = w /\ apply = Added(w)
  BY <1>1, <1>4, <1>5, AtForms
<1>7. apply # NoApply BY <1>1 DEF At
<1>8. apply' = Settled(w) /\ apply' # NoApply
  <2>1. apply' = Settled(w) BY <1>1, <1>6, StepForms, Zenon
  <2>2. Settled(w) # NoApply BY ApplyForms, Zenon
  <2> QED BY <2>1, <2>2, Zenon
<1>9. ApplyShape' BY <1>8, Zenon DEF ApplyShape, ShapeOf
<1>10. Base = Static \cup ExplicitSubs(points) \cup ExplicitSubs(w) BY <1>6, BaseAt, SMTT(20), Zenon DEF Base
<1>11. Base' = Static \cup ExplicitSubs(w)
  <2>1. Base' = BaseOf(points, Settled(w)) BY <1>1, <1>8, Zenon DEF Base
  <2> QED BY <2>1, BaseAt, Zenon
<1>12. /\ ToUnsubscribe(points, w) = ExplicitSubs(points) \ ExplicitSubs(w)
       /\ Static \cap ExplicitSubs(points) = {}
  BY PlanIs, Zenon
<1>13. SessionOK'
  <2>1. (crossed' \/ (link' # "ready" /\ apply' # NoApply)) => leftover'
    <3>1. (crossed \/ link # "ready") => leftover BY <1>7, Zenon DEF SubInv, SessionOK
    <3> QED BY <1>1, <1>2, <3>1
  <2>2. ~(link' = "up" /\ ~crossed') BY <1>1, <1>7, Zenon DEF SubInv, SessionOK
  <2>3. link' = "ready" /\ ~crossed' => Base' \subseteq session'
    <3>1. link = "ready" /\ ~crossed => Base \subseteq session BY Zenon DEF SubInv, SessionOK
    <3> QED BY <1>1, <1>2, <1>6, <1>10, <1>11, <1>12, <3>1, Zenon
  <2>4. ~leftover' => session' \subseteq Base'
    <3>1. ~leftover => session \subseteq Base BY DEF SubInv, SessionOK
    <3> QED BY <1>2, <1>6, <1>10, <1>11, <1>12, <3>1
  <2> QED BY <2>1, <2>2, <2>3, <2>4, Zenon DEF SessionOK
<1> QED BY <1>3, <1>9, <1>13, Zenon DEF SubInv

LEMMA StoresKeeps == SubInv /\ ApplyStores => SubInv'
<1> SUFFICES ASSUME SubInv, ApplyStores PROVE SubInv' OBVIOUS
<1>1. /\ At("store") /\ apply' = NoApply /\ points' = apply.want /\ revision' = apply.want
      /\ link' = link /\ crossed' = crossed /\ leftover' = leftover /\ session' = session
  BY DEF ApplyStores, linkVars
<1>2. "store" # "subscribe" /\ "store" # "unsubscribe" OBVIOUS
<1>3. ApplyShape BY DEF SubInv
<1>4. PICK w \in Derived : apply.want = w /\ apply = Settled(w) BY <1>1, <1>2, <1>3, AtForms, Zenon
<1>5. SubShape' BY <1>1, <1>4, Zenon DEF SubInv, SubShape, ApplyStores, linkVars
<1>6. ApplyShape' BY <1>1 DEF ApplyShape, ShapeOf
<1>7. apply # NoApply BY <1>1, Zenon DEF At
<1>8. Base' = Base
  <2>1. Base = Static \cup ExplicitSubs(w) BY <1>4, BaseAt DEF Base
  <2>2. Base' = BaseOf(w, NoApply) BY <1>1, <1>4, Zenon DEF Base
  <2> QED BY <2>1, <2>2, BaseAt, Zenon
<1>9. SessionOK' BY <1>1, <1>7, <1>8, Zenon DEF SubInv, SessionOK
<1> QED BY <1>5, <1>6, <1>9, Zenon DEF SubInv

LEMMA ConnectionUpKeeps == SubInv /\ ConnectionUp => SubInv'
<1> SUFFICES ASSUME SubInv, ConnectionUp PROVE SubInv' OBVIOUS
<1>1. /\ apply' = apply /\ points' = points /\ session' = session /\ leftover' = leftover
      /\ link = "down" /\ link' = "up" /\ crossed' = (apply # NoApply)
      /\ resub' = Static \cup ExplicitSubs(points)
  BY Zenon DEF ConnectionUp, indexVars, applyVars, BrokerSubscriptions
<1>2. SubShape'
  <2>1. crossed' \in BOOLEAN BY <1>1, Zenon
  <2> QED BY <1>1, <2>1, Zenon DEF SubInv, SubShape, ConnectionUp, indexVars, applyVars
<1>3. ApplyShape' BY <1>1, Zenon DEF SubInv, ApplyShape
<1>4. Base' = Base BY <1>1 DEF Base
<1>5. apply = NoApply => resub' = Base BY <1>1, BaseAt, Zenon DEF Base
<1>6. SessionOK' BY <1>1, <1>4, <1>5, Zenon DEF SubInv, SessionOK
<1> QED BY <1>2, <1>3, <1>6 DEF SubInv

LEMMA ResubscribeKeeps == SubInv /\ Resubscribe => SubInv'
<1> SUFFICES ASSUME SubInv, Resubscribe PROVE SubInv' OBVIOUS
<1>1. /\ apply' = apply /\ points' = points /\ session' = session \cup resub /\ resub' = {}
      /\ leftover' = leftover /\ crossed' = crossed /\ link = "up" /\ link' = "ready"
  BY Zenon DEF Resubscribe, indexVars, applyVars
<1>2. SubShape' BY <1>1, Zenon DEF SubInv, SubShape, Resubscribe, indexVars, applyVars
<1>3. ApplyShape' BY <1>1, Zenon DEF SubInv, ApplyShape
<1>4. Base' = Base BY <1>1, Zenon DEF Base
<1>5. SessionOK' BY <1>1, <1>4, Zenon DEF SubInv, SessionOK
<1> QED BY <1>2, <1>3, <1>5 DEF SubInv

\* ResubscribeFails and LinkDrops: the connection ends.
LEMMA LinkEndsKeeps ==
    ASSUME NEW some, NEW kept \in BOOLEAN, SubInv,
           ResubscribeFails(some, kept) \/ LinkDrops(kept)
    PROVE  SubInv'
<1>1. /\ apply' = apply /\ points' = points /\ link' = "down" /\ resub' = {}
      /\ crossed' = (apply # NoApply) /\ leftover' = (apply # NoApply \/ (kept /\ leftover))
  BY Zenon DEF ResubscribeFails, LinkDrops, Disconnected, indexVars, applyVars
<1>2. SubShape'
  <2>1. drops' \in 0..MaxDrops
    BY SubscriptionBounds DEF SubInv, SubShape, ResubscribeFails, LinkDrops, Disconnected
  <2>2. crossed' \in BOOLEAN /\ leftover' \in BOOLEAN BY <1>1, Zenon
  <2>3. /\ list' = list /\ points' = points /\ revision' = revision /\ waiting' = waiting
        /\ applies' = applies /\ edits' = edits
    BY Zenon DEF ResubscribeFails, LinkDrops, indexVars, applyVars
  <2> QED BY <1>1, <2>1, <2>2, <2>3, Zenon DEF SubInv, SubShape
<1>3. ApplyShape' BY <1>1 DEF SubInv, ApplyShape
<1>4. Base' = Base BY <1>1 DEF Base
<1>5. ~leftover' => session' \subseteq Base'
  <2> SUFFICES ASSUME ~leftover' PROVE session' \subseteq Base BY <1>4
  <2>1. apply = NoApply /\ (~kept \/ ~leftover) BY <1>1, Zenon
  <2>2. CASE ~kept BY <2>2 DEF ResubscribeFails, LinkDrops, Disconnected
  <2>3. CASE ~leftover
    <3>1. session \subseteq Base /\ ~crossed BY <2>3, Zenon DEF SubInv, SessionOK
    <3>2. CASE LinkDrops(kept) BY <3>1, <3>2, Zenon DEF LinkDrops, Disconnected
    <3>3. CASE ResubscribeFails(some, kept)
      <4>1. resub = Base BY <3>1, <3>3 DEF SubInv, SessionOK, ResubscribeFails
      <4> QED BY <3>1, <3>3, <4>1, Zenon DEF ResubscribeFails, Disconnected
    <3> QED BY <3>2, <3>3
  <2> QED BY <2>1, <2>2, <2>3
<1>6. SessionOK' BY <1>1, <1>5, Zenon DEF SessionOK
<1> QED BY <1>2, <1>3, <1>6, Zenon DEF SubInv

LEMMA RestartKeeps ==
    ASSUME NEW kept \in BOOLEAN, SubInv, Restart(kept)
    PROVE  SubInv'
<1>1. /\ apply' = NoApply /\ link' = "down" /\ resub' = {} /\ points' = Config /\ revision' = NoRev
      /\ crossed' = FALSE /\ leftover' = kept /\ waiting' = {}
      /\ session' = IF kept THEN session ELSE {}
  BY Zenon DEF Restart, Disconnected
<1>2. SubShape'
  <2>1. drops' \in 0..MaxDrops
    BY SubscriptionBounds DEF SubInv, SubShape, Restart, Disconnected
  <2>2. crossed' \in BOOLEAN /\ leftover' \in BOOLEAN BY <1>1, Zenon
  <2>3. list' = list /\ applies' = applies /\ edits' = edits BY Zenon DEF Restart
  <2> QED BY <1>1, <2>1, <2>2, <2>3, Zenon DEF SubInv, SubShape
<1>3. ApplyShape' BY <1>1, Zenon DEF ApplyShape, ShapeOf
<1>4. SessionOK' BY <1>1, Zenon DEF SessionOK
<1> QED BY <1>2, <1>3, <1>4, Zenon DEF SubInv

LEMMA SubKeeps == SubInv /\ [SubscriptionsNext]_subVars => SubInv'
<1> SUFFICES ASSUME SubInv, [SubscriptionsNext]_subVars PROVE SubInv' OBVIOUS
<1>1. CASE Edit BY <1>1, EditKeeps
<1>2. CASE RequestApply BY <1>2, RequestKeeps
<1>3. ASSUME NEW w \in waiting, ApplyBegins(w) PROVE SubInv' BY <1>3, BeginKeeps
<1>4. CASE ApplySubscribes BY <1>4, SubscribesKeeps
<1>5. CASE ApplySubscribeFails BY <1>5, SubscribeFailsKeeps
<1>6. CASE ApplyUnsubscribes \/ ApplyUnsubscribeFails BY <1>6, UnsubscribesKeeps, Zenon
<1>7. CASE ApplyStores BY <1>7, StoresKeeps
<1>8. CASE ConnectionUp BY <1>8, ConnectionUpKeeps
<1>9. CASE Resubscribe BY <1>9, ResubscribeKeeps
<1>10. ASSUME NEW some \in SUBSET resub, NEW kept \in BOOLEAN, ResubscribeFails(some, kept)
       PROVE  SubInv'
  BY <1>10, LinkEndsKeeps
<1>11. ASSUME NEW kept \in BOOLEAN, LinkDrops(kept) PROVE SubInv' BY <1>11, LinkEndsKeeps
<1>12. ASSUME NEW kept \in BOOLEAN, Restart(kept) PROVE SubInv' BY <1>12, RestartKeeps, Zenon
<1>13. CASE UNCHANGED subVars
  BY <1>13 DEF SubInv, SubShape, ApplyShape, SessionOK, Base, subVars, indexVars, applyVars, linkVars
<1> QED
  BY <1>1, <1>2, <1>3, <1>4, <1>5, <1>6, <1>7, <1>8, <1>9, <1>10, <1>11, <1>12, <1>13, Zenon
  DEF SubscriptionsNext

LEMMA SubAlways == SubscriptionsSpec => []SubInv
BY SubStarts, SubKeeps, PTL DEF SubscriptionsSpec

-----------------------------------------------------------------------------
(* What the invariant gives.                                               *)

LEMMA IndexFilters ==
    ASSUME NEW p \in Derived \cup {Config}
    PROVE  \E l \in PointLists \cup {Config} :
              DOMAIN p \subseteq DOMAIN l /\ DOMAIN p \subseteq Filters /\ Wildcards(p) \subseteq Wildcards(l)
<1>1. CASE p = Config BY <1>1, ListsAssumption, Zenon DEF Filters
<1>2. CASE p \in Derived
  <2>1. PICK l \in PointLists : p = Derive(l) BY <1>2, Zenon DEF Derived
  <2>2. DOMAIN p \subseteq DOMAIN l BY <2>1, Zenon DEF Derive
  <2>3. DOMAIN p \subseteq Filters BY <2>2, ListsAssumption, Zenon DEF Filters
  <2>4. Wildcards(p) \subseteq Wildcards(l) BY <2>2, Zenon DEF Wildcards
  <2> QED BY <2>2, <2>3, <2>4
<1> QED BY <1>1, <1>2, SMTT(20), Zenon

LEMMA WildcardServes ==
    ASSUME NEW p \in Derived \cup {Config}, NEW s, NEW t \in Topics, StaticsReachWhole,
           Static \cup ExplicitSubs(p) \subseteq s,
           NEW w \in Wildcards(p), FilterMatches(w, t)
    PROVE  Delivers(s, t)
<1>1. t \in Filters /\ ~HasWildcard(t) BY TopicsAssumption DEF Filters
<1>2. PICK l \in PointLists \cup {Config} : DOMAIN p \subseteq Filters /\ Wildcards(p) \subseteq Wildcards(l)
  BY IndexFilters
<1>3. w \in DOMAIN p /\ HasWildcard(w) /\ w \in Filters BY <1>2, Zenon DEF Wildcards
<1>4. CASE w \in ExplicitSubs(p) BY <1>1, <1>3, <1>4, MatchersAgree, Zenon DEF Delivers
<1>5. CASE w \notin ExplicitSubs(p)
  <2>1. PICK f \in Static : FilterMatches(f, w)
    BY <1>3, <1>5, Zenon DEF ExplicitSubs, CoveredByWildcard
  <2>2. FilterMatches(f, t) BY <1>2, <2>1, Zenon DEF StaticsReachWhole
  <2>3. f \in Filters BY TopicsAssumption DEF Filters
  <2> QED BY <1>1, <2>2, <2>3, MatchersAgree, Zenon DEF Delivers
<1> QED BY <1>4, <1>5

LEMMA IndexServes ==
    ASSUME NEW p \in Derived \cup {Config}, NEW s, NEW t \in Topics, StaticsReachWhole,
           Static \cup ExplicitSubs(p) \subseteq s, Resolve(p, t) # {}
    PROVE  Delivers(s, t)
<1>1. t \in Filters /\ ~HasWildcard(t) BY TopicsAssumption, Zenon DEF Filters
<1>2. CASE \E w \in Wildcards(p) : FilterMatches(w, t) BY <1>2, WildcardServes
<1>3. CASE \A w \in Wildcards(p) : ~FilterMatches(w, t)
  <2>1. t \in DOMAIN p BY <1>3, Zenon DEF Resolve, Matching
  <2>2. CASE t \in ExplicitSubs(p)
    <3>1. FilterMatches(t, t) BY DEF FilterMatches
    <3> QED BY <1>1, <2>2, <3>1, MatchersAgree, Zenon DEF Delivers
  <2>3. CASE t \notin ExplicitSubs(p)
    <3>1. PICK f \in Static : FilterMatches(f, t)
      BY <1>3, <2>1, <2>3, Zenon DEF ExplicitSubs, CoveredByWildcard
    <3>2. f \in Filters BY TopicsAssumption DEF Filters
    <3> QED BY <1>1, <3>1, <3>2, MatchersAgree, Zenon DEF Delivers
  <2> QED BY <2>2, <2>3, Zenon
<1> QED BY <1>2, <1>3

LEMMA SubTypes == SubInv => SubscriptionsTypeOK
<1> SUFFICES ASSUME SubInv PROVE SubscriptionsTypeOK OBVIOUS
<1> DEFINE Todo == Seq({"subscribe", "unsubscribe", "store"})
<1>1. apply.todo \in Todo /\ ((apply.todo = <<>>) = (apply = NoApply))
  <2>1. NoApply.todo = <<>> BY DEF NoApply
  <2>2. /\ <<>> \in Todo /\ <<"subscribe", "unsubscribe", "store">> \in Todo
        /\ <<"subscribe", "store">> \in Todo /\ <<"unsubscribe", "store">> \in Todo
        /\ <<"store">> \in Todo
    OBVIOUS
  <2>3. CASE apply = NoApply BY <2>1, <2>2, <2>3, Zenon
  <2>4. CASE apply # NoApply
    <3>1. PICK w : apply \in {Whole(w), OnlyAdds(w), Added(w), Settled(w)}
      BY <2>4, Zenon DEF SubInv, ApplyShape, ShapeOf
    <3>2. apply.todo \in {<<"subscribe", "unsubscribe", "store">>, <<"subscribe", "store">>,
                          <<"unsubscribe", "store">>, <<"store">>}
      BY <3>1 DEF Whole, OnlyAdds, Added, Settled
    <3>3. apply.todo # <<>> BY <3>2
    <3> QED BY <2>2, <2>4, <3>2, <3>3, Zenon
  <2> QED BY <2>3, <2>4, Zenon
<1>2. {crossed, leftover} \subseteq BOOLEAN BY Zenon DEF SubInv, SubShape
<1>3. /\ list \in PointLists /\ points \in {Config} \cup Derived /\ revision \in {NoRev} \cup Derived
      /\ link \in {"down", "up", "ready"} /\ waiting \subseteq Derived
      /\ link # "up" => resub = {}
      /\ drops \in 0..MaxDrops /\ applies \in 0..MaxApplies /\ edits \in 0..MaxEdits
  BY Zenon DEF SubInv, SubShape
<1> QED BY <1>1, <1>2, <1>3, ZenonT(30) DEF SubscriptionsTypeOK, Derived

LEMMA ServedAlways == ASSUME StaticsReachWhole PROVE SubInv => UnaffectedServed
<1> SUFFICES ASSUME SubInv PROVE UnaffectedServed OBVIOUS
<1>1. SubscriptionsTypeOK BY SubTypes, Zenon
<1>2. ASSUME link = "ready", ~crossed PROVE Static \subseteq session
  BY <1>2 DEF SubInv, SessionOK, Base, BaseOf
<1>3. ASSUME link = "ready", ~crossed, NEW t \in Topics, Resolve(points, t) # {},
             apply = NoApply \/ Resolve(apply.want, t) # {}
      PROVE  Delivers(session, t)
  <2>1. Base \subseteq session BY <1>3 DEF SubInv, SessionOK
  <2>2. points \in Derived \cup {Config} BY Zenon DEF SubInv, SubShape
  <2>3. ASSUME ExplicitSubs(points) \subseteq Base PROVE Delivers(session, t)
    <3>1. Static \cup ExplicitSubs(points) \subseteq session BY <1>2, <1>3, <2>1, <2>3, Zenon
    <3> QED BY <1>3, <2>2, <3>1, IndexServes, Zenon
  <2>4. CASE apply = NoApply
    <3>1. Base = Static \cup ExplicitSubs(points) BY <2>4, BaseAt, Zenon DEF Base
    <3> QED BY <2>3, <3>1, Zenon
  <2>5. CASE apply # NoApply
    <3>1. PICK w \in Derived : apply \in {Whole(w), OnlyAdds(w), Added(w), Settled(w)}
      BY <2>5 DEF SubInv, ApplyShape, ShapeOf
    <3>2. CASE apply = Whole(w) \/ apply = OnlyAdds(w)
      <4>1. Base = Static \cup ExplicitSubs(points) BY <3>2, BaseAt DEF Base
      <4> QED BY <2>3, <4>1, Zenon
    <3>3. CASE apply = Added(w)
      <4>1. Base = Static \cup ExplicitSubs(points) \cup ExplicitSubs(w) BY <3>3, BaseAt, Zenon DEF Base
      <4> QED BY <2>3, <4>1, Zenon
    <3>4. CASE apply = Settled(w)
      <4>1. Base = Static \cup ExplicitSubs(w) BY <3>4, BaseAt, Zenon DEF Base
      <4>2. apply.want = w BY <3>4, ApplyForms, Zenon
      <4>3. Resolve(w, t) # {} BY <1>3, <2>5, <4>2, Zenon
      <4> QED BY <1>3, <2>1, <4>1, <4>3, IndexServes, Zenon
    <3> QED BY <3>1, <3>2, <3>3, <3>4, Zenon
  <2> QED BY <2>4, <2>5, SMTT(20), Zenon
<1> QED BY <1>1, <1>2, <1>3 DEF UnaffectedServed

LEMMA OnceAlways == SubInv => ServedOnce
<1> SUFFICES ASSUME SubInv, link = "ready", ~crossed, ~leftover, apply = NoApply,
                    NEW t \in ((DOMAIN points \ Wildcards(points)) \cap session) \ Static,
                    NEW f \in session \ {t}, BrokerMatches(f, t)
             PROVE  FALSE
  BY Zenon DEF ServedOnce
<1>1. Base = Static \cup ExplicitSubs(points) BY BaseAt, Zenon DEF Base
<1>2. session \subseteq Base BY Zenon DEF SubInv, SessionOK
<1>3. points \in Derived \cup {Config} BY DEF SubInv, SubShape
<1>4. DOMAIN points \subseteq Filters BY <1>3, IndexFilters, Zenon
<1>5. t \in Filters /\ ~HasWildcard(t) BY <1>4, Zenon DEF Wildcards
<1>6. t \in ExplicitSubs(points) BY <1>1, <1>2, Zenon
<1>7. /\ \A g \in Static : ~FilterMatches(g, t)
      /\ \A w \in Wildcards(points) : ~FilterMatches(w, t)
  BY <1>5, <1>6, Zenon DEF ExplicitSubs, CoveredByWildcard
<1>8. CASE f \in Static
  <2>1. f \in Filters BY <1>8, TopicsAssumption, Zenon DEF Filters
  <2> QED BY <1>5, <1>7, <1>8, <2>1, MatchersAgree, Zenon
<1>9. CASE f \in ExplicitSubs(points)
  <2>1. f \in DOMAIN points /\ f \in Filters BY <1>4, <1>9, Zenon DEF ExplicitSubs
  <2>2. CASE HasWildcard(f)
    <3>1. f \in Wildcards(points) BY <2>1, <2>2, Zenon DEF Wildcards
    <3> QED BY <1>5, <1>7, <2>1, <3>1, MatchersAgree, Zenon
  <2>3. CASE ~HasWildcard(f) BY <1>5, <2>1, <2>3, ExactMatchesItself, Zenon
  <2> QED BY <2>2, <2>3, Zenon
<1> QED BY <1>1, <1>2, <1>8, <1>9, Zenon

\* Derived points report as they are.
LEMMA ReportedIsDerived ==
    ASSUME NEW l, NEW t \in DOMAIN Derive(l)
    PROVE  Reported(Derive(l)[t]) = Derive(l)[t]
<1> DEFINE x == l[t].writable  c == IF x THEN 1 ELSE 0  a == l[t].about
           p == [writable |-> x, qos |-> 1, commandQoS |-> c, about |-> a]
<1>1. Derive(l)[t] = p BY Zenon DEF Derive
<1>2. (IF ~x THEN 0 ELSE IF c = 0 THEN 1 ELSE c) = c OBVIOUS
<1>3. ASSUME NEW y, NEW z, NEW d
      PROVE  [[writable |-> y, qos |-> 1, commandQoS |-> z, about |-> d]
                EXCEPT !.qos = 1, !.commandQoS = z]
             = [writable |-> y, qos |-> 1, commandQoS |-> z, about |-> d]
  <2> DEFINE r == [writable |-> y, qos |-> 1, commandQoS |-> z, about |-> d]
  <2>1. [r EXCEPT !.qos = 1] = r OBVIOUS
  <2>2. [r EXCEPT !.commandQoS = z] = r OBVIOUS
  <2> HIDE DEF r
  <2>3. [r EXCEPT !.qos = 1, !.commandQoS = z] = r BY <2>1, <2>2, Zenon
  <2> QED BY <2>3 DEF r
<1>4. p.writable = x /\ p.qos = 1 /\ p.commandQoS = c BY Zenon
<1> HIDE DEF x, c, a
<1>5. Reported(p) = [p EXCEPT !.qos = 1, !.commandQoS = c]
  <2> HIDE DEF p
  <2>1. Reported(p) = [p EXCEPT !.qos = IF p.qos = 0 THEN 1 ELSE p.qos,
                           !.commandQoS = IF ~p.writable THEN 0
                                          ELSE IF p.commandQoS = 0 THEN 1 ELSE p.commandQoS]
    BY DEF Reported
  <2> QED BY <1>2, <1>4, <2>1, Zenon
<1>6. Reported(p) = p BY <1>3, <1>5, ZenonT(30)
<1> QED BY <1>1, <1>6, ZenonT(30)

LEMMA SettlesAlways == SubInv => PreviewSettles
<1> SUFFICES ASSUME SubInv, revision = Derive(list)
             PROVE  Preview = [added |-> {}, changed |-> {}, removed |-> {}]
  BY Zenon DEF PreviewSettles
<1>1. list \in PointLists BY Zenon DEF SubInv, SubShape
<1>2. points = Derive(list) BY <1>1, ListsAssumption, Zenon DEF SubInv, SubShape
<1>3. DOMAIN SubscriptionStatus = DOMAIN points BY Zenon DEF SubscriptionStatus
<1>4. \A t \in DOMAIN points : SubscriptionStatus[t] = Derive(list)[t]
  BY <1>2, ReportedIsDerived, Zenon DEF SubscriptionStatus
<1>5. /\ DOMAIN Derive(list) \ DOMAIN SubscriptionStatus = {}
      /\ DOMAIN SubscriptionStatus \ DOMAIN Derive(list) = {}
      /\ {t \in DOMAIN Derive(list) \cap DOMAIN SubscriptionStatus :
             SubscriptionStatus[t] # Derive(list)[t]} = {}
  BY <1>2, <1>3, <1>4
<1> QED BY <1>5, ZenonT(30) DEF Preview

\* While the connection stands, through every step of an apply, its failures and the
\* reconnects before it, the broker delivers every topic that both the index in use and
\* the one being applied resolve: ApplySubscriptions subscribes before it unsubscribes
\* and swaps its index last.  This is for any Point Lists, any configuration and any
\* number of steps, provided the static filters reach whole what they cover of a
\* wildcard point (ShadowedWildcard is why).
THEOREM NoTelemetryGap ==
    ASSUME StaticsReachWhole
    PROVE  SubscriptionsSpec => []UnaffectedServed
BY SubAlways, ServedAlways, PTL

\* newTopicIndex and planSubscriptions never leave an exact point subscribed beside
\* another filter that the broker would deliver it by, unless a removal failed, a
\* reconnect crossed an apply or an apply is under way.
THEOREM TopicServedOnce == SubscriptionsSpec => []ServedOnce
BY SubAlways, OnceAlways, PTL

\* Once the connector reports the revision of the derived set, mqttsync's preview
\* against that set is empty: what the connector reports of a point is what was derived.
THEOREM PreviewAlwaysSettles == SubscriptionsSpec => []PreviewSettles
BY SubAlways, SettlesAlways, PTL

\* newTopicIndex's "Wildcard points always subscribe" is not what it does: the static
\* filter a/+ matches the point a/# as if its "#" were a level, the point gets no
\* subscription, and a longer topic under a, which it governs, reaches the connector by
\* no filter.
THEOREM ShadowedWildcard ==
    ASSUME NEW a, Static = {<<a, "+">>},
           NEW w \in Filters, w = <<a, "#">>, NEW index, DOMAIN index = {w},
           NEW t \in Topics, t[1] = a, Len(t) > 2
    PROVE  /\ ExplicitSubs(index) = {}
           /\ Resolve(index, t) = {w}
           /\ ~Delivers(Static, t)
<1> DEFINE s == <<a, "+">>
<1>1. Len(s) = 2 /\ s[1] = a /\ s[2] = "+" /\ Len(w) = 2 /\ w[1] = a /\ w[2] = "#" OBVIOUS
<1>2. Static = {s} OBVIOUS
<1> HIDE DEF s
<1>3. s \in Filters /\ t \in Filters /\ ~HasWildcard(t) BY <1>2, TopicsAssumption, Zenon DEF Filters
<1>4. DOMAIN s = 1..2 /\ DOMAIN w = 1..2 /\ DOMAIN t = 1..Len(t) /\ Len(t) \in Nat
  BY <1>1, <1>3 DEF Filters
<1>5. a \notin {"+", "#"} BY <1>3, <1>4, SMTT(20), Zenon DEF HasWildcard
<1>6. HasWildcard(w) /\ "+" # "#" BY <1>1, <1>4, SMTT(20), Zenon DEF HasWildcard
<1>7. FilterMatches(s, w)
  <2>1. Stem(s) = DOMAIN s BY <1>1, <1>3, <1>5, <1>6, StemIs, SMTT(20), Zenon
  <2> QED BY <1>1, <1>4, <2>1, SMTT(20), Zenon DEF FilterMatches
<1>8. FilterMatches(w, t)
  <2>1. Reaches(w, t) BY <1>1, <1>4, <1>5, SMTT(20), Zenon DEF Reaches
  <2> QED BY <1>3, <2>1, FilterReaches, Zenon
<1>9. ~BrokerMatches(s, t)
  <2>1. ~Reaches(s, t) BY <1>1, <1>4, <1>6, SMTT(20), Zenon DEF Reaches
  <2> QED BY <1>3, <2>1, BrokerReaches, Zenon
<1>10. ExplicitSubs(index) = {} BY <1>2, <1>7, Zenon DEF ExplicitSubs, CoveredByWildcard
<1>11. Wildcards(index) = {w} BY <1>6, Zenon DEF Wildcards
<1>12. Resolve(index, t) = {w}
  <2>1. t # w BY <1>1, <1>4, SMTT(20), Zenon
  <2>2. {v \in Wildcards(index) : FilterMatches(v, t)} = {w} BY <1>8, <1>11, Zenon
  <2> QED BY <2>1, <2>2, Zenon DEF Resolve, Matching
<1>13. ~Delivers(Static, t) BY <1>2, <1>9 DEF Delivers
<1> QED BY <1>10, <1>12, <1>13, Zenon
=============================================================================
