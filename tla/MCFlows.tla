-------------------------------- MODULE MCFlows --------------------------------
(* Two of each actor: calls of the contract, tabs, requests of the registry *)
(* and of ratings; a page given one claim at most; two addresses. *)
EXTENDS Flows

EveryFlow == {"writes", "offline", "warranty", "registry", "ratings", "transfer"}
TwoWrites == {"w1", "w2"}
OneNonced == {"w1"}
TwoClaims == {"c1", "c2"}
Decisions == {"Approved", "Rejected"}
TwoIssuers == {"i1", "i2"}
TwoRecords == {"r1", "r2"}
SignedMessages == {<<"v1", "k1">>, <<"v1", "k2">>, <<"v2", "k1">>}
TwoAddresses == {"a1", "a2"}
Symmetric == Permutations(Tab) \cup Permutations(Operation)
=============================================================================
