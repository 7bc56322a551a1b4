------------------------- MODULE SupplyLinkContract -------------------------
(***************************************************************************)
(* The contract: the handlers of Products, Authorization and Events over   *)
(* the storage they share, and what must hold of it across calls.          *)
(***************************************************************************)
EXTENDS Products, Authorization, Events

Init ==
  /\ product = [p \in ProductId |-> NoProduct]
  /\ productIndex = <<>>
  /\ nonce = [a \in Address |-> 0]
  /\ escrow = [p \in ProductId |-> NoEscrow]
  /\ paused = FALSE
  /\ pending = [p \in ProductId |-> {}]
  /\ nextPendingId = [p \in ProductId |-> 0]
  /\ entries = [p \in ProductId |-> <<>>]
  /\ events = [p \in ProductId |-> <<>>]
  /\ archived = [p \in ProductId |-> <<>>]
  /\ provenanceRoot = [p \in ProductId |-> <<>>]
  /\ seen = {}
  /\ now = 0
  /\ signer = NoAddress

Batches(S) == UNION {[1..n -> S] : n \in 1..MaxBatch}

Registration ==
  \/ \E p \in ProductId, a \in Address, k \in Signatures : RegisterProduct(p, a, k)
  \/ \E a \in Address, ids \in Batches(ProductId) : RegisterProductsBatch(a, ids)

Flags(p) ==
  \/ RecallProduct(p)
  \/ UnrecallProduct(p)
  \/ DeactivateProduct(p)
  \/ ReactivateProduct(p)

Ownership(p) ==
  \/ \E a \in Address, k \in 0..MaxNonce : TransferOwnership(p, a, k)
  \/ \E a \in Address : RequestTransfer(p, a)
  \/ AcceptTransfer(p)
  \/ CancelTransfer(p)
  \/ DisputeTransfer(p)
  \/ \E a \in Address : RotateOwnerKey(p, a)

Actors(p) ==
  \/ \E a \in Address, k \in 0..MaxNonce : AddAuthorizedActor(p, a, k)
  \/ \E a \in Address, k \in 0..MaxNonce : RemoveAuthorizedActor(p, a, k)
  \/ \E a, b \in Address : RotateActorKey(p, a, b)

Recording(p) ==
  \/ \E types \in Batches(EventTypes) : AddTrackingEvents(p, types)
  \/ \E a \in Address, t \in EventTypes : AddPrivateTrackingEvent(p, a, t)

Approval(p) ==
  \/ \E e \in pending[p], a \in Address, k \in 0..MaxNonce : ApproveEvent(p, e, a, k)
  \/ CleanupExpiredEvents(p)

Archival(p) ==
  \E a \in Address, i \in 1..Len(events[p]) : ArchiveTrackingEvent(p, a, i)

Pausing == \E a \in Address, b \in BOOLEAN : SetPauseState(a, b)

Next ==
  \/ Registration
  \/ \E p \in ProductId :
       \/ Flags(p)
       \/ MarkSpoiled(p)
       \/ Ownership(p)
       \/ Actors(p)
       \/ Recording(p)
       \/ Approval(p)
       \/ Archival(p)
  \/ Pausing
  \/ Tick

Spec == Init /\ [][Next]_vars

-----------------------------------------------------------------------------
TypeOK ==
  /\ product \in [ProductId -> Product \cup {NoProduct}]
  /\ productIndex \in Seq(ProductId)
  /\ nonce \in [Address -> Nat]
  /\ escrow \in [ProductId -> TransferEscrow \cup {NoEscrow}]
  /\ paused \in BOOLEAN
  /\ pending \in [ProductId -> SUBSET PendingEvent]
  /\ nextPendingId \in [ProductId -> Nat]
  /\ entries \in [ProductId -> Seq(Event)]
  /\ events \in [ProductId -> Seq(Event)]
  /\ archived \in [ProductId -> Seq(Event)]
  /\ provenanceRoot \in [ProductId -> Seq(Event)]
  /\ seen \subseteq (ProductId \X Address \X Nat \X Nat)
  /\ now \in Nat
  /\ signer \in Address \cup {NoAddress}

-----------------------------------------------------------------------------
(* Multi-signature approval *)

Members(s) == {s[i] : i \in 1..Len(s)}

\* The pending queue of events.rs / lib.rs record_event: ids are unique and
\* below the next one to be handed out, no approver is counted twice, the
\* actor of the event is the first approver, and an event whose approvals
\* suffice is never left waiting.
PendingIdsFresh ==
  \A p \in ProductId : \A e \in pending[p] :
    /\ e.id < nextPendingId[p]
    /\ \A d \in pending[p] : d.id = e.id => d = e

ApprovalsDistinct ==
  \A p \in ProductId : \A e \in pending[p] :
    /\ e.approvals # <<>>
    /\ e.approvals[1] = e.event.actor
    /\ \A i, j \in 1..Len(e.approvals) :
         e.approvals[i] = e.approvals[j] => i = j

ApprovalsIncomplete ==
  \A p \in ProductId : \A e \in pending[p] :
    Len(e.approvals) < e.required_signatures

PendingQueueSound == PendingIdsFresh /\ ApprovalsDistinct /\ ApprovalsIncomplete

\* An address gave its approval in this step: it signed the call, may act on
\* the product at this moment, and spent one nonce on it.
SignsNow(p, a) ==
  /\ signer' = a
  /\ IsOwnerOrActor(p, a)
  /\ nonce' = [nonce EXCEPT ![a] = @ + 1]

\* A pending event disappears only because it expired, or because one more
\* authorized signer completed the distinct approvals it was staged for and it
\* was appended to the event list (approve_event, cleanup_expired_events).
PendingLeaves(p, e) ==
  \/ now > e.expiration /\ events' = events
  \/ /\ now <= e.expiration
     /\ events'[p] = Append(events[p], e.event)
     /\ \E a \in Address :
          /\ SignsNow(p, a)
          /\ Cardinality(Members(e.approvals) \cup {a}) >= e.required_signatures

PendingLeavesByApprovalOrExpiry ==
  [][\A p \in ProductId : \A e \in pending[p] :
       (\A d \in pending'[p] : d.id # e.id) => PendingLeaves(p, e)]_vars

\* Whatever happens to the product meanwhile (transfer, new actors, a fresh
\* registration), a pending event keeps its content, its quorum and the
\* approvals it has, and gains an approval only from the address that signs.
PendingEvolves(p, e, d) ==
  /\ d.event = e.event
  /\ d.required_signatures = e.required_signatures
  /\ d.expiration = e.expiration
  /\ \/ d.approvals = e.approvals
     \/ \E a \in Address : SignsNow(p, a) /\ d.approvals = Append(e.approvals, a)

PendingChangesOnlyBySignedApproval ==
  [][\A p \in ProductId : \A e \in pending[p], d \in pending'[p] :
       d.id = e.id => PendingEvolves(p, e, d)]_vars

\* A pending event as a proposal: who approved it is a set.
ProposalOf(e) ==
  [id |-> e.id, subject |-> e.event, signers |-> Members(e.approvals),
   quorum |-> e.required_signatures, deadline |-> e.expiration]

Ledger(p) ==
  INSTANCE ApprovalLedger WITH
    Signer <- Address, Subject <- Event,
    opened <- nextPendingId[p],
    open <- {ProposalOf(e) : e \in pending[p]},
    accepted <- provenanceRoot[p],
    clock <- now,
    by <- signer

\* The contract implements the approval ledger, product by product: this is
\* \A p : Ledger(p)!LedgerSpec with the quantifier moved inside the box.
ImplementsApprovalLedger ==
  /\ \A p \in ProductId : Ledger(p)!LedgerInit
  /\ [][\A p \in ProductId : Ledger(p)!LedgerStep]_vars

-----------------------------------------------------------------------------
(* The event stores *)

Occurrences(s, v) == Cardinality({i \in 1..Len(s) : s[i] = v})

\* Every approved event is hashed into the provenance root once and is from
\* then on either listed or archived, never both and never neither; nothing but
\* approvals and the SPOILED marker reaches the list (approve_event,
\* archive_tracking_event, mark_spoiled).
ApprovedEventsConserved ==
  \A p \in ProductId :
    \A v \in Members(provenanceRoot[p]) \cup Members(events[p])
             \cup Members(archived[p]) :
      v.type # SPOILED =>
        Occurrences(provenanceRoot[p], v)
          = Occurrences(events[p], v) + Occurrences(archived[p], v)

PublicEntries(p) == {i \in 1..Len(entries[p]) : ~entries[p][i].private}

\* Replay protection: the keyed store never holds two public events with the
\* same stable id, even across registrations of the same product id, and the
\* ids marked as seen are exactly those stored (add_tracking_event #401).
NoReplayedEntry ==
  /\ seen = UNION {{StableId(p, entries[p][i]) : i \in PublicEntries(p)} :
                     p \in ProductId}
  /\ \A p \in ProductId : \A i, j \in PublicEntries(p) :
       StableId(p, entries[p][i]) = StableId(p, entries[p][j]) => i = j

RegisteredOnce(p) == Cardinality({i \in 1..Len(productIndex) : productIndex[i] = p}) = 1

LifecycleEvents(s, t) ==
  Cardinality({i \in 1..Len(s) : s[i].type = t /\ ~s[i].private})

\* Over the life of one registration each lifecycle stage is recorded at most
\* once in all stores together, and only when the product has reached it,
\* whether events are stored directly or staged for approval
\* (validate_lifecycle_transition, record_event).
LifecycleRecordedOnce ==
  \A p \in ProductId : RegisteredOnce(p) =>
    \A t \in LifecycleTypes :
      LET staged == {e \in pending[p] : e.event.type = t /\ ~e.event.private}
          total  == Cardinality(staged) + LifecycleEvents(entries[p], t)
                    + LifecycleEvents(events[p], t) + LifecycleEvents(archived[p], t)
      IN  total <= (IF t <= product[p].lifecycle_stage THEN 1 ELSE 0)

-----------------------------------------------------------------------------
(* Custody *)

\* The owner of an existing product changes only by the signature of the owner
\* it has, by the proposed owner of an undisputed escrow that is used up, or by
\* a registration that writes over the product.
OwnerChangeJustified ==
  [][\A p \in ProductId :
       (Exists(p) /\ product'[p].owner # product[p].owner) =>
         \/ signer' = product[p].owner
         \/ /\ escrow[p] # NoEscrow
            /\ ~escrow[p].disputed
            /\ signer' = escrow[p].proposed_owner
            /\ product'[p].owner = signer'
            /\ escrow'[p] = NoEscrow
         \/ Len(productIndex') > Len(productIndex) /\ product'[p].owner = signer']_vars

\* A call moves no nonce but its signer's, and by one: nobody can burn or reuse
\* the nonce of somebody else (validate_and_increment_nonce).
NonceMovesOnlyForItsSigner ==
  [][\A a \in Address : nonce'[a] # nonce[a] =>
       nonce'[a] = nonce[a] + 1 /\ signer' = a]_vars

-----------------------------------------------------------------------------
(* Statements of the source that the code does not keep *)

\* authorization.rs on transfer_ownership: the previous owner loses all
\* owner-gated privileges immediately, and the request for an escrow transfer
\* is one.  So an escrow takes a product only from the owner who opened it.
EscrowBindsCurrentOwner ==
  [][\A p \in ProductId :
       (Exists(p) /\ escrow[p] # NoEscrow /\ escrow'[p] = NoEscrow
        /\ product'[p].owner # product[p].owner) =>
         escrow[p].current_owner = product[p].owner]_vars

\* types.rs on Product.id: an id is unique across all registered products, a
\* registration under an id that is taken is rejected.
DuplicateIdRejected ==
  [][\A i \in (Len(productIndex) + 1)..Len(productIndex') :
       ~Exists(productIndex'[i])]_vars
=============================================================================
