------------------------------ MODULE Products ------------------------------
(***************************************************************************)
(* products.rs: registration, recall, activation and spoilage.             *)
(* Name, origin, category, hazard label, expiration date, alias and score  *)
(* are data no handler of this model decides on and are left out.          *)
(***************************************************************************)
EXTENDS ContractStorage

RegisterProduct(p, owner, required) ==
  /\ ~Exists(p)
  /\ ~paused
  /\ Len(productIndex) < MaxIndex
  /\ product' = [product EXCEPT ![p] = FreshProduct(owner, required)]
  /\ productIndex' = Append(productIndex, p)
  /\ signer' = owner
  /\ UNCHANGED <<nonce, escrow, paused, eventVars, now>>

\* The batch path has neither the duplicate guard nor the pause guard of the
\* single one: it writes a fresh product over whatever the id already holds.
RegisterProductsBatch(owner, ids) ==
  /\ Len(productIndex) + Len(ids) <= MaxIndex
  /\ product' = [p \in ProductId |->
                   IF \E i \in 1..Len(ids) : ids[i] = p
                   THEN FreshProduct(owner, 1) ELSE product[p]]
  /\ productIndex' = productIndex \o ids
  /\ signer' = owner
  /\ UNCHANGED <<nonce, escrow, paused, eventVars, now>>

\* Handlers that only set flags of the product, signed by its owner.
SetFlag(p, updated) ==
  /\ Exists(p)
  /\ product' = [product EXCEPT ![p] = updated]
  /\ signer' = product[p].owner
  /\ UNCHANGED <<productIndex, nonce, escrow, paused, eventVars, now>>

RecallProduct(p) ==
  SetFlag(p, [product[p] EXCEPT !.recalled = TRUE])
UnrecallProduct(p) ==
  SetFlag(p, [product[p] EXCEPT !.recalled = FALSE])
DeactivateProduct(p) ==
  SetFlag(p, [product[p] EXCEPT !.active = FALSE])
ReactivateProduct(p) ==
  SetFlag(p, [product[p] EXCEPT !.active = TRUE])

\* The first call flags the product and logs SPOILED in the list-valued store;
\* on a spoiled product the handler returns early.
MarkSpoiled(p) ==
  /\ Exists(p)
  /\ ~product[p].spoiled
  /\ Len(events[p]) < MaxEvents
  /\ product' = [product EXCEPT ![p].spoiled = TRUE]
  /\ events' = [events EXCEPT ![p] =
                  Append(@, [type |-> SPOILED, actor |-> product[p].owner,
                             time |-> now, private |-> FALSE])]
  /\ signer' = product[p].owner
  /\ UNCHANGED <<productIndex, nonce, escrow, paused, pending, nextPendingId,
                 entries, archived, provenanceRoot, seen, now>>
=============================================================================
