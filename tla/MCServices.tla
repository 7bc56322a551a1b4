------------------------------ MODULE MCServices ------------------------------
(* Three calls through each breaker, two broadcasts to two stakeholders    *)
(* with two requests of the panel in flight, two alerts, a policy with two *)
(* claims at each site, three requests over a batch with a missing member, *)
(* grades on both sides of every band of a risk.                           *)
EXTENDS Services

TwoProducts == {"p1", "p2"}
ThreeProducts == {"p1", "p2", "p3"}
Batch == <<"p1", "gone", "p2">>
TwoStakeholders == {"default", "s"}
SomeLists == {<<"s", "default">>, <<"default", "default">>}
Levels == {"critical", "info"}
EveryService == {"breaker", "probe", "escalation", "broadcast", "alerts", "insurance", "premium",
                 "records"}
Grades == {0, 3, 5, 10, 12}
=============================================================================
