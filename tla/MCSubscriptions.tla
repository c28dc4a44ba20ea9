-------------------------- MODULE MCSubscriptions ---------------------------
(* Small topics: a/x and a/y may fall under the wildcard point a/#, s/x is *)
(* under the static filter s/#, $v/x is reserved.                          *)
EXTENDS Subscriptions

ax == <<"a", "x">>
ay == <<"a", "y">>
sx == <<"s", "x">>
aa == <<"a", "#">>
vx == <<"$v", "x">>

MCStatic == {<<"s", "#">>}
MCReserved == {"$v"}
MCTopics == {ax, ay, <<"a">>, sx, vx}

Entry(writable, about) == [ours |-> TRUE, writable |-> writable, about |-> about]
Other == [ours |-> FALSE, writable |-> FALSE, about |-> 1]

MCConfig == [t \in {ax} |-> [writable |-> FALSE, qos |-> 0, commandQoS |-> 0, about |-> 0]]

MCLists ==
    {[t \in {ax, ay, sx} |-> IF t = ay THEN Entry(TRUE, 1) ELSE Entry(FALSE, 1)],
     [t \in {ax, aa, vx} |-> Entry(FALSE, 1)],
     [t \in {ax, ay, <<"+", "x">>} |-> IF t = ay THEN Other ELSE Entry(t = ax, 2)]}

\* The condition on static filters under which topics are served without a gap.
ASSUME StaticsAssumption == StaticsReachWhole
=============================================================================
