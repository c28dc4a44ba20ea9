--------------------------- MODULE MCMqttPipeline ---------------------------
(* Two topics under a wildcard point; an apply leaves one of them a point  *)
(* of its own and the other none.                                          *)
EXTENDS MqttPipeline

bx == <<"b", "x">>
by == <<"b", "y">>
bb == <<"b", "#">>

MCTopics == {bx, by}
MCIndexes == {[t \in {bb} |-> 1], [t \in {bx} |-> 1]}
=============================================================================
