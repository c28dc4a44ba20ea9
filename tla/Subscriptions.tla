--------------------------- MODULE Subscriptions ----------------------------
(***************************************************************************)
(* The live change of an MQTT connector's subscriptions: the gateway side  *)
(* that derives them from the Point List and previews or pushes them       *)
(* (internal/mqttsync), and the connector side that converges the broker   *)
(* session (connector/mqtt/connector.go), with the connection lost and     *)
(* restored at any step.                                                   *)
(*                                                                         *)
(* Payload templates, device references and units are one attribute,       *)
(* "about".  A revision is a hash of the derived set and stands for it.    *)
(***************************************************************************)
EXTENDS TopicIndex

CONSTANTS
    PointLists,  \* the Point Lists the gateway may hold
    Config,      \* MQTT_POINTS: the points a connector process starts with
    NoRev,       \* the revision of points that came from no Point List
    MaxApplies,  \* bound: apply requests
    MaxDrops,    \* bound: lost connections, failed calls and connector restarts
    MaxEdits     \* bound: changes of the Point List

ASSUME SubscriptionBounds == {MaxApplies, MaxDrops, MaxEdits} \subseteq Nat

VARIABLES
    list,      \* the gateway's Point List snapshot (the resolver's)
    revision,  \* topicIndex.revision
    link,      \* "down", "up", or "ready" once connected is set
    resub,     \* the subscriptions an OnConnectionUp has read and not yet made
    session,   \* the filters subscribed at the broker
    waiting,   \* apply requests whose goroutine has not got applyMu
    apply,     \* the request being applied and its steps to come
    crossed,   \* history: an apply overlapped a reconnect that has not been redone
    leftover,  \* history: the session may hold a filter nobody unsubscribed
    drops, applies, edits   \* bounds

indexVars == <<points, revision>>
applyVars == <<waiting, apply, applies>>
linkVars == <<link, resub, session, crossed, leftover, drops>>
subVars == <<indexVars, applyVars, linkVars, list, edits>>

NoApply == [todo |-> <<>>, want |-> NoRev]

\* What the Point List says becomes a wire spec: only this connector's measured MQTT
\* points, a command QoS only with a command topic.
Derive(entries) ==
    [t \in {u \in DOMAIN entries : entries[u].ours} |->
        [writable |-> entries[t].writable, qos |-> 1,
         commandQoS |-> IF entries[t].writable THEN 1 ELSE 0, about |-> entries[t].about]]

ASSUME ListsAssumption ==
    /\ \A l \in PointLists \cup {Config} : DOMAIN l \subseteq Seq(STRING) \ {<<>>}
    /\ \A l \in PointLists : Derive(l) # NoRev

\* Faulty: reports a command QoS for every point.
ReportedQoSAlways(p) ==
    [p EXCEPT !.qos = IF @ = 0 THEN 1 ELSE @,
              !.commandQoS = IF @ = 0 THEN 1 ELSE @]
\* A zero QoS is reported as the 1 it stands for, the command QoS only when writable.
Reported(p) ==
    [p EXCEPT !.qos = IF @ = 0 THEN 1 ELSE @,
              !.commandQoS = IF ~p.writable THEN 0 ELSE IF @ = 0 THEN 1 ELSE @]

SubscriptionStatus == [t \in DOMAIN points |-> Reported(points[t])]

\* Preview: computeDiff of the connector's status and the derived set.
Preview ==
    LET have == SubscriptionStatus
        want == Derive(list)
    IN [added |-> DOMAIN want \ DOMAIN have,
        changed |-> {t \in DOMAIN want \cap DOMAIN have : have[t] # want[t]},
        removed |-> DOMAIN have \ DOMAIN want]

\* Every filter a connection needs: the static ones and the explicit ones.
BrokerSubscriptions == Static \cup ExplicitSubs(points)

SubscriptionsTypeOK ==
    /\ list \in PointLists
    /\ points \in {Config} \cup {Derive(l) : l \in PointLists}
    /\ revision \in {NoRev} \cup {Derive(l) : l \in PointLists}
    /\ link \in {"down", "up", "ready"}
    /\ waiting \subseteq {Derive(l) : l \in PointLists}
    /\ apply.todo \in Seq({"subscribe", "unsubscribe", "store"})
    /\ (apply.todo = <<>>) = (apply = NoApply)
    /\ link # "up" => resub = {}
    /\ {crossed, leftover} \subseteq BOOLEAN
    /\ drops \in 0..MaxDrops /\ applies \in 0..MaxApplies /\ edits \in 0..MaxEdits

SubscriptionsInit ==
    /\ list \in PointLists
    /\ points = Config /\ revision = NoRev
    /\ link = "down" /\ resub = {} /\ session = {}
    /\ waiting = {} /\ apply = NoApply
    /\ crossed = FALSE /\ leftover = FALSE
    /\ drops = 0 /\ applies = 0 /\ edits = 0

-----------------------------------------------------------------------------
(* The gateway.                                                            *)

\* The Point List sync swaps in another list.
Edit ==
    /\ edits < MaxEdits
    /\ edits' = edits + 1
    /\ list' \in PointLists \ {list}
    /\ UNCHANGED <<indexVars, applyVars, linkVars>>

\* An operator applies: the set is derived anew, whatever a preview showed, and sent to
\* the connector, which serves each request in a goroutine of its own.
RequestApply ==
    /\ applies < MaxApplies
    /\ applies' = applies + 1
    /\ waiting' = waiting \cup {Derive(list)}
    /\ UNCHANGED <<list, edits, indexVars, linkVars, apply>>

-----------------------------------------------------------------------------
(* ApplySubscriptions, under applyMu.  The index it started from stays the *)
(* current one until it stores the next.                                   *)

Needed(step, filters) == IF filters = {} THEN <<>> ELSE <<step>>

\* Faulty: removes the old subscriptions before the new ones are in place.
StepsRemoveFirst(want) ==
    Needed("unsubscribe", ToUnsubscribe(points, want))
    \o Needed("subscribe", ToSubscribe(points, want)) \o <<"store">>
\* The broker calls that have something to do, then the swap of the index.
Steps(want) ==
    Needed("subscribe", ToSubscribe(points, want))
    \o Needed("unsubscribe", ToUnsubscribe(points, want)) \o <<"store">>

At(step) == apply # NoApply /\ Head(apply.todo) = step

StepDone == apply' = [apply EXCEPT !.todo = Tail(@)]

ApplyBegins(want) ==
    /\ apply = NoApply
    /\ want \in waiting
    /\ waiting' = waiting \ {want}
    /\ apply' = [todo |-> Steps(want), want |-> want]
    /\ crossed' = (crossed \/ link # "ready")
    /\ leftover' = (leftover \/ link # "ready")
    /\ UNCHANGED <<list, edits, indexVars, applies, link, resub, session, drops>>

ApplySubscribes ==
    /\ At("subscribe")
    /\ link # "down"
    /\ session' = session \cup ToSubscribe(points, apply.want)
    /\ StepDone
    /\ UNCHANGED <<list, edits, indexVars, waiting, applies, link, resub, crossed, leftover, drops>>

\* No connection, a refused filter or a lost answer: the reply is an error and nothing of
\* the connector changes, but some filters may have reached the broker.
ApplySubscribeFails ==
    /\ At("subscribe")
    /\ \E some \in SUBSET ToSubscribe(points, apply.want) :
          /\ link = "down" => some = {}
          /\ session' = session \cup some
          /\ leftover' = (leftover \/ some # {})
    /\ IF link = "down" THEN UNCHANGED drops ELSE drops < MaxDrops /\ drops' = drops + 1
    /\ apply' = NoApply
    /\ UNCHANGED <<list, edits, indexVars, waiting, applies, link, resub, crossed>>

ApplyUnsubscribes ==
    /\ At("unsubscribe")
    /\ link # "down"
    /\ session' = session \ ToUnsubscribe(points, apply.want)
    /\ StepDone
    /\ UNCHANGED <<list, edits, indexVars, waiting, applies, link, resub, crossed, leftover, drops>>

\* Best effort: the error is reported and the apply goes on.
ApplyUnsubscribeFails ==
    /\ At("unsubscribe")
    /\ \E some \in SUBSET ToUnsubscribe(points, apply.want) :
          /\ link = "down" => some = {}
          /\ session' = session \ some
          /\ leftover' = TRUE
    /\ IF link = "down" THEN UNCHANGED drops ELSE drops < MaxDrops /\ drops' = drops + 1
    /\ StepDone
    /\ UNCHANGED <<list, edits, indexVars, waiting, applies, link, resub, crossed>>

ApplyStores ==
    /\ At("store")
    /\ points' = apply.want
    /\ revision' = apply.want
    /\ apply' = NoApply
    /\ UNCHANGED <<list, edits, waiting, applies, linkVars>>

-----------------------------------------------------------------------------
(* The connection, kept by autopaho.  With a session expiry of 0 the       *)
(* broker forgets the session when the connection ends; otherwise it may   *)
(* still have it at the next one.                                          *)

\* OnConnectionUp reads the index anew, and subscribes in a later step.
ConnectionUp ==
    /\ link = "down"
    /\ link' = "up"
    /\ resub' = BrokerSubscriptions
    /\ crossed' = (apply # NoApply)
    /\ UNCHANGED <<list, edits, indexVars, applyVars, session, leftover, drops>>

Resubscribe ==
    /\ link = "up"
    /\ link' = "ready"
    /\ session' = session \cup resub
    /\ resub' = {}
    /\ UNCHANGED <<list, edits, indexVars, applyVars, crossed, leftover, drops>>

\* The session after the connection ended.
Disconnected(had, kept) ==
    /\ link' = "down"
    /\ resub' = {}
    /\ session' = IF kept THEN had ELSE {}
    /\ drops < MaxDrops /\ drops' = drops + 1

\* Some filter is refused or the answer is lost: the handler disconnects, to try again.
ResubscribeFails(some, kept) ==
    /\ link = "up"
    /\ some \subseteq resub
    /\ Disconnected(session \cup some, kept)
    /\ crossed' = (apply # NoApply)
    /\ leftover' = (apply # NoApply \/ (kept /\ leftover))
    /\ UNCHANGED <<list, edits, indexVars, applyVars>>

LinkDrops(kept) ==
    /\ link # "down"
    /\ Disconnected(session, kept)
    /\ crossed' = (apply # NoApply)
    /\ leftover' = (apply # NoApply \/ (kept /\ leftover))
    /\ UNCHANGED <<list, edits, indexVars, applyVars>>

\* The connector process ends and a new one starts from its environment.
Restart(kept) ==
    /\ points # Config \/ apply # NoApply
    /\ Disconnected(session, kept)
    /\ points' = Config /\ revision' = NoRev
    /\ waiting' = {} /\ apply' = NoApply
    /\ crossed' = FALSE /\ leftover' = kept
    /\ UNCHANGED <<list, edits, applies>>

SubscriptionsNext ==
    \/ Edit
    \/ RequestApply
    \/ \E want \in waiting : ApplyBegins(want)
    \/ ApplySubscribes
    \/ ApplySubscribeFails
    \/ ApplyUnsubscribes
    \/ ApplyUnsubscribeFails
    \/ ApplyStores
    \/ ConnectionUp
    \/ Resubscribe
    \/ \E some \in SUBSET resub, kept \in BOOLEAN : ResubscribeFails(some, kept)
    \/ \E kept \in BOOLEAN : LinkDrops(kept)
    \/ \E kept \in BOOLEAN : Restart(kept)

SubscriptionsSpec == SubscriptionsInit /\ [][SubscriptionsNext]_subVars

-----------------------------------------------------------------------------
(* Properties.                                                             *)

Delivers(filters, topic) == \E f \in filters : BrokerMatches(f, topic)

\* A static filter that matches a wildcard point, taken for a topic, reaches whatever
\* that point governs.  This is left to who writes MQTT_SUBSCRIPTIONS: newTopicIndex
\* does not subscribe the point a/# beside the static filter a/+.
StaticsReachWhole ==
    \A f \in Static, l \in PointLists \cup {Config} :
        \A w \in Wildcards(l) :
            FilterMatches(f, w) => \A t \in Topics : FilterMatches(w, t) => FilterMatches(f, t)

\* "No telemetry gap for unaffected topics": while the connection stands, the broker
\* delivers every topic that both the current index and the one being applied resolve,
\* through every step of an apply, failed ones included, and whether a topic is served
\* by its own subscription, by a wildcard point or by a static filter.
UnaffectedServed ==
    /\ SubscriptionsTypeOK
    /\ link = "ready" /\ ~crossed =>
          /\ Static \subseteq session
          /\ \A t \in Topics :
                /\ Resolve(points, t) # {}
                /\ apply = NoApply \/ Resolve(apply.want, t) # {}
                => Delivers(session, t)

\* "A topic already covered never gets its own explicit Subscribe": some brokers deliver
\* once per overlapping subscription.  Unless a removal failed, no exact point is
\* subscribed beside a filter that reaches it, but for the static filters themselves.
ServedOnce ==
    link = "ready" /\ ~crossed /\ ~leftover /\ apply = NoApply =>
        \A t \in ((DOMAIN points \ Wildcards(points)) \cap session) \ Static :
            \A f \in session \ {t} : ~BrokerMatches(f, t)

\* After an apply the preview is empty as long as the Point List stays as it was: "a
\* diff between the two never spuriously reports changed".
PreviewSettles ==
    revision = Derive(list) =>
        Preview = [added |-> {}, changed |-> {}, removed |-> {}]
=============================================================================
