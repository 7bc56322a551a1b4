----------------------------- MODULE MCContract -----------------------------
(***************************************************************************)
(* The contract for TLC, with three next-state relations: every handler;   *)
(* everything that writes an event, without changes of ownership, for      *)
(* deeper stores; and approval with what can happen to the product between *)
(* two approvals.                                                          *)
(***************************************************************************)
EXTENDS SupplyLinkContract, TLC

Symmetry == Permutations(Address)

-----------------------------------------------------------------------------
\* The event stores, over two registrations of one product id.
StoresNext ==
  \/ Registration
  \/ \E p \in ProductId :
       \/ MarkSpoiled(p)
       \/ \E a \in Address, k \in 0..MaxNonce : AddAuthorizedActor(p, a, k)
       \/ Recording(p)
       \/ Approval(p)
       \/ Archival(p)
  \/ Tick

StoresSpec == Init /\ [][StoresNext]_vars

-----------------------------------------------------------------------------
\* Multi-signature approval: new owners, actors that come, go and rotate their
\* key, further events, expiry.
ApprovalNext ==
  \/ Registration
  \/ \E p \in ProductId :
       \/ \E a \in Address, k \in 0..MaxNonce : TransferOwnership(p, a, k)
       \/ Actors(p)
       \/ Recording(p)
       \/ Approval(p)
  \/ Tick

ApprovalSpec == Init /\ [][ApprovalNext]_vars
=============================================================================
