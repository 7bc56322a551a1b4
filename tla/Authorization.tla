--------------------------- MODULE Authorization ---------------------------
(***************************************************************************)
(* authorization.rs: ownership, the transfer escrow, authorized actors,    *)
(* key rotation and the emergency stop.                                    *)
(* Roles and the event threshold (AuthPolicy) are stored but consulted by  *)
(* no handler; the upgrade guardians share no storage with the handlers    *)
(* here.  Both are left out.                                               *)
(***************************************************************************)
EXTENDS ContractStorage

TransferOwnership(p, newOwner, provided) ==
  /\ Exists(p)
  /\ ~product[p].spoiled
  /\ newOwner # product[p].owner
  /\ ConsumeNonce(product[p].owner, provided)
  /\ product' = [product EXCEPT ![p].owner = newOwner]
  /\ signer' = product[p].owner
  /\ UNCHANGED <<productIndex, escrow, paused, eventVars, now>>

AddAuthorizedActor(p, actor, provided) ==
  LET actors == product[p].authorized_actors IN
  /\ Exists(p)
  /\ ConsumeNonce(product[p].owner, provided)
  /\ ActorCount(actors) < MaxActors
  /\ product' = [product EXCEPT ![p].authorized_actors =
                   [actors EXCEPT ![actor] = actors[actor] + 1]]
  /\ signer' = product[p].owner
  /\ UNCHANGED <<productIndex, escrow, paused, eventVars, now>>

\* Every occurrence of the actor goes.  The governance safeguard counts the
\* owner plus the list entries that remain.
RemoveOneOccurrence(p, actor, provided) ==   \* faulty variant: takes one off blindly
  /\ Exists(p)
  /\ ConsumeNonce(product[p].owner, provided)
  /\ product' = [product EXCEPT ![p].authorized_actors[actor] = @ - 1]
  /\ signer' = product[p].owner
  /\ UNCHANGED <<productIndex, escrow, paused, eventVars, now>>
RemoveAuthorizedActor(p, actor, provided) ==
  LET remaining == [product[p].authorized_actors EXCEPT ![actor] = 0] IN
  /\ Exists(p)
  /\ ConsumeNonce(product[p].owner, provided)
  /\ product[p].required_signatures > 1 =>
       1 + ActorCount(remaining) >= product[p].required_signatures
  /\ product' = [product EXCEPT ![p].authorized_actors = remaining]
  /\ signer' = product[p].owner
  /\ UNCHANGED <<productIndex, escrow, paused, eventVars, now>>

\* Overwrites any escrow of the product, a disputed one included.
RequestTransfer(p, proposed) ==
  /\ Exists(p)
  /\ proposed # product[p].owner
  /\ escrow' = [escrow EXCEPT ![p] =
                  [current_owner |-> product[p].owner,
                   proposed_owner |-> proposed, disputed |-> FALSE]]
  /\ signer' = product[p].owner
  /\ UNCHANGED <<product, productIndex, nonce, paused, eventVars, now>>

\* The product is handed over without looking at who owns it by now.
AcceptDisputedTransfer(p) ==       \* faulty variant: ignores the dispute
  /\ escrow[p] # NoEscrow
  /\ Exists(p)
  /\ product' = [product EXCEPT ![p].owner = escrow[p].proposed_owner]
  /\ escrow' = [escrow EXCEPT ![p] = NoEscrow]
  /\ signer' = escrow[p].proposed_owner
  /\ UNCHANGED <<productIndex, nonce, paused, eventVars, now>>
AcceptTransfer(p) ==
  /\ escrow[p] # NoEscrow
  /\ ~escrow[p].disputed
  /\ Exists(p)
  /\ product' = [product EXCEPT ![p].owner = escrow[p].proposed_owner]
  /\ escrow' = [escrow EXCEPT ![p] = NoEscrow]
  /\ signer' = escrow[p].proposed_owner
  /\ UNCHANGED <<productIndex, nonce, paused, eventVars, now>>

CancelTransfer(p) ==
  /\ escrow[p] # NoEscrow
  /\ escrow' = [escrow EXCEPT ![p] = NoEscrow]
  /\ signer' = escrow[p].current_owner
  /\ UNCHANGED <<product, productIndex, nonce, paused, eventVars, now>>

\* Signed by the owner who made the request, whatever became of the product.
DisputeTransfer(p) ==
  /\ escrow[p] # NoEscrow
  /\ escrow' = [escrow EXCEPT ![p].disputed = TRUE]
  /\ signer' = escrow[p].current_owner
  /\ UNCHANGED <<product, productIndex, nonce, paused, eventVars, now>>

RotateOwnerKey(p, newOwner) ==
  /\ Exists(p)
  /\ newOwner # product[p].owner
  /\ product' = [product EXCEPT ![p].owner = newOwner]
  /\ signer' = product[p].owner
  /\ UNCHANGED <<productIndex, nonce, escrow, paused, eventVars, now>>

\* Every occurrence of the old key becomes one of the new key, which may be
\* listed already.
RotateActorKey(p, oldActor, newActor) ==
  LET actors == product[p].authorized_actors IN
  /\ Exists(p)
  /\ oldActor # newActor
  /\ IsActor(p, oldActor)
  /\ product' = [product EXCEPT ![p].authorized_actors =
                   [actors EXCEPT ![newActor] = actors[newActor] + actors[oldActor],
                                  ![oldActor] = 0]]
  /\ signer' = oldActor
  /\ UNCHANGED <<productIndex, nonce, escrow, paused, eventVars, now>>

\* Any address may sign as the guardian.
SetPauseState(guardian, value) ==
  /\ paused' = value
  /\ signer' = guardian
  /\ UNCHANGED <<product, productIndex, nonce, escrow, eventVars, now>>
=============================================================================
