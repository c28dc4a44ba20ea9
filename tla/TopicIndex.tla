----------------------------- MODULE TopicIndex -----------------------------
(***************************************************************************)
(* topicIndex and topicmatch (connector/mqtt): which Point governs a       *)
(* concrete topic, which filters the connector subscribes to itself, and   *)
(* the broker calls that lead from one index to the next.                  *)
(*                                                                         *)
(* A topic or filter is the sequence of its levels.  The points of an      *)
(* index are a function from topics to what the Point List says of them.   *)
(***************************************************************************)
EXTENDS Naturals, Sequences, FiniteSets

CONSTANTS
    Static,    \* MQTT_SUBSCRIPTIONS: filters fixed for the connector's life
    Reserved,  \* the levels that start with "$"
    Topics     \* the concrete topics devices publish to

VARIABLE points   \* topicIndex.points of the index in use

HasWildcard(filter) == \E i \in DOMAIN filter : filter[i] \in {"+", "#"}

\* Splitting at "/" gives at least one level; devices publish to no wildcard.
ASSUME TopicsAssumption ==
    /\ Static \cup Topics \subseteq Seq(STRING) \ {<<>>}
    /\ \A t \in Topics : ~HasWildcard(t)
    /\ Reserved \cap {"+", "#"} = {}

LiteralLevels(filter) == Cardinality({i \in DOMAIN filter : filter[i] \notin {"+", "#"}})

\* The levels before the first "#"; all of them when there is none.
Stem(filter) ==
    {i \in DOMAIN filter : \A j \in 1..i : filter[j] # "#"}

\* A "#" that is not the last level matches nothing.
FilterMatches(filter, topic) ==
    \/ filter = topic
    \/ /\ topic[1] \in Reserved => filter[1] \in Reserved
       /\ \A i \in Stem(filter) : i \in DOMAIN topic /\ filter[i] \in {"+", topic[i]}
       /\ IF Stem(filter) = DOMAIN filter
          THEN Len(filter) = Len(topic)
          ELSE Stem(filter) = 1..(Len(filter) - 1)

Wildcards(index) == {t \in DOMAIN index : HasWildcard(t)}

CoveredByWildcard(topic) == \E w \in Static : FilterMatches(w, topic)

\* Some brokers deliver once per overlapping subscription, so an exact point that a
\* static filter or a wildcard point reaches gets no subscription of its own.
ExplicitSubs(index) ==
    {t \in DOMAIN index :
        /\ ~CoveredByWildcard(t)
        /\ HasWildcard(t) \/ \A w \in Wildcards(index) : ~FilterMatches(w, t)}

\* planSubscriptions.
ToSubscribe(current, next) ==
    {t \in ExplicitSubs(next) :
        t \notin ExplicitSubs(current) \/ (t \in DOMAIN current /\ current[t] # next[t])}

\* Faulty: plans from the points that are gone, not from the explicit sets.
ToUnsubscribePoints(current, next) == ExplicitSubs(current) \ DOMAIN next

ToUnsubscribe(current, next) == ExplicitSubs(current) \ ExplicitSubs(next)

\* The wildcard points that match, the most literal of them: ties go by name, of which
\* nothing depends.
Matching(index, topic) ==
    LET hits == {w \in Wildcards(index) : FilterMatches(w, topic)}
    IN {w \in hits : \A v \in hits \ {w} : LiteralLevels(v) <= LiteralLevels(w)}

\* resolve: the points that may govern a topic, none when it is unknown.
Resolve(index, topic) ==
    IF topic \in DOMAIN index THEN {topic} ELSE Matching(index, topic)

\* The broker's own rule (MQTT 5.0, 4.7): a trailing "#" stands for any number of
\* levels, the parent included, and a wildcard first level for no reserved one.
BrokerMatches(filter, topic) ==
    LET n == Len(filter)
        Level(i) == filter[i] = topic[i] \/ (filter[i] = "+" /\ ~(i = 1 /\ topic[1] \in Reserved))
    IN IF filter[n] = "#"
       THEN /\ Len(topic) >= n - 1
            /\ \A i \in 1..(n - 1) : Level(i)
            /\ n = 1 => topic[1] \notin Reserved
       ELSE Len(topic) = n /\ \A i \in 1..n : Level(i)
=============================================================================
