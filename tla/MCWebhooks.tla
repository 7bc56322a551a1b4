------------------------------ MODULE MCWebhooks ------------------------------
(***************************************************************************)
(* Shares of the work an instance allows, each with its own question:      *)
(* ticks that overlap; a broadcast to two webhooks that may die; one       *)
(* webhook changed during deliveries; administrators alone.                *)
(***************************************************************************)
EXTENDS Webhooks
CONSTANTS h1, h2, s1, product
MCUrlOf == [w \in Webhook |-> w]
MCFilter == {{product}}
Left == <<Cardinality(hookList), MaxServed - served, MaxCrashes - crashes, MaxChanges - changes>>
MCInit ==
  /\ Init
  /\ \/ seen # {} /\ Left = <<1, 2, 0, 0>>
     \/ seen = {} /\ Left \in {<<2, 1, 1, 0>>, <<1, 1, 1, 1>>, <<0, 0, 0, 3>>, <<1, 0, 0, 3>>}
MCSpec == MCInit /\ [][Next]_vars /\ Fairness
=============================================================================
