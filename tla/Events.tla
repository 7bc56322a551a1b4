------------------------------- MODULE Events -------------------------------
(***************************************************************************)
(* events.rs and event_audit.rs: recording, multi-signature approval,      *)
(* expiry and archival of tracking events.                                 *)
(***************************************************************************)
EXTENDS ContractStorage

NewEvent(type, actor, private) ==
  [type |-> type, actor |-> actor, time |-> now, private |-> private]

\* Replay protection: no public event with the same stable id was stored before.
NotReplayedFaulty(p, es) == TRUE   \* faulty variant: the check is missing
NotReplayed(p, es) == \A i \in 1..Len(es) : StableId(p, es[i]) \notin seen

\* add_tracking_event for n consecutive events (n = 1) and the batch call that
\* loops over it.  The caller is replaced by the owner before the
\* authorization check.  The stage moves with every event, a staged one too.
\* A paused contract makes the single call fail and the batch commit nothing.
AddTrackingEvents(p, types) ==
  LET n     == Len(types)
      owner == product[p].owner
      es    == [i \in 1..n |-> NewEvent(types[i], owner, FALSE)]
  IN
  /\ Exists(p)
  /\ product[p].active
  /\ ~paused
  /\ ~product[p].recalled
  /\ \A i \in 1..n : LifecycleAllows(product[p].lifecycle_stage + i - 1, types[i])
  /\ NotReplayed(p, es)
  /\ RecordEvents(p, es)
  /\ product' = [product EXCEPT ![p].lifecycle_stage = types[n]]
  /\ signer' = owner
  /\ UNCHANGED <<productIndex, nonce, escrow, paused, events, archived,
                 provenanceRoot, now>>

\* A private event: owner or actor, with none of the other checks.
AddPrivateTrackingEvent(p, caller, type) ==
  /\ Exists(p)
  /\ IsOwnerOrActor(p, caller)
  /\ RecordEvents(p, <<NewEvent(type, caller, TRUE)>>)
  /\ signer' = caller
  /\ UNCHANGED <<product, productIndex, nonce, escrow, paused, events,
                 archived, provenanceRoot, now>>

\* The approver joins the approvals once; reaching the number recorded when
\* the event was staged moves it to the list-valued store.
ApprovalsAnyTime(e, approver) ==   \* faulty variant: no check for repetition
  Append(e.approvals, approver)
ApprovalsOfActor(e, approver) ==   \* faulty variant: credits the event's actor
  IF \E i \in 1..Len(e.approvals) : e.approvals[i] = approver
  THEN e.approvals ELSE Append(e.approvals, e.event.actor)
Approvals(e, approver) ==
  IF \E i \in 1..Len(e.approvals) : e.approvals[i] = approver
  THEN e.approvals ELSE Append(e.approvals, approver)

FinalizesByCalls(e, approver) ==   \* faulty variant: counts calls, not approvers
  Len(e.approvals) + 1 >= e.required_signatures
Finalizes(e, approver) == Len(Approvals(e, approver)) >= e.required_signatures

ApproveEvent(p, e, approver, provided) ==
  /\ Exists(p)
  /\ IsOwnerOrActor(p, approver)
  /\ ConsumeNonce(approver, provided)
  /\ now <= e.expiration
  /\ IF Finalizes(e, approver)
     THEN /\ Len(events[p]) < MaxEvents
          /\ events' = [events EXCEPT ![p] = Append(@, e.event)]
          /\ provenanceRoot' = [provenanceRoot EXCEPT ![p] = Append(@, e.event)]
          /\ pending' = [pending EXCEPT ![p] = @ \ {e}]
     ELSE /\ pending' = [pending EXCEPT ![p] =
               (@ \ {e}) \cup {[e EXCEPT !.approvals = Approvals(e, approver)]}]
          /\ UNCHANGED <<events, provenanceRoot>>
  /\ signer' = approver
  /\ UNCHANGED <<product, productIndex, escrow, paused, nextPendingId, entries,
                 archived, seen, now>>

\* Anyone may call it.
CleanupAtDeadline(p) ==            \* faulty variant: purges an event still valid
  /\ pending' = [pending EXCEPT ![p] = {e \in @ : now < e.expiration}]
  /\ signer' = NoAddress
  /\ UNCHANGED <<product, productIndex, nonce, escrow, paused, nextPendingId,
                 entries, events, archived, provenanceRoot, seen, now>>
CleanupExpiredEvents(p) ==
  /\ pending' = [pending EXCEPT ![p] = {e \in @ : now <= e.expiration}]
  /\ signer' = NoAddress
  /\ UNCHANGED <<product, productIndex, nonce, escrow, paused, nextPendingId,
                 entries, events, archived, provenanceRoot, seen, now>>

\* The first event of the list with the given stable id moves to the archive.
WithoutNothing(s, i) ==            \* faulty variant: off by one, removes nothing
  SubSeq(s, 1, i) \o SubSeq(s, i + 1, Len(s))
WithoutIndex(s, i) == SubSeq(s, 1, i - 1) \o SubSeq(s, i + 1, Len(s))

ArchiveTrackingEvent(p, caller, i) ==
  /\ Exists(p)
  /\ IsOwnerOrActor(p, caller)
  /\ ~events[p][i].private
  /\ \A j \in 1..(i - 1) :
       events[p][j].private \/ StableId(p, events[p][j]) # StableId(p, events[p][i])
  /\ archived' = [archived EXCEPT ![p] = Append(@, events[p][i])]
  /\ events' = [events EXCEPT ![p] = WithoutIndex(@, i)]
  /\ signer' = caller
  /\ UNCHANGED <<product, productIndex, nonce, escrow, paused, pending,
                 nextPendingId, entries, provenanceRoot, seen, now>>

\* The ledger closes: time moves on between transactions.
Tick ==
  /\ now < MaxTime
  /\ now' = now + 1
  /\ signer' = NoAddress
  /\ UNCHANGED <<product, productIndex, nonce, escrow, paused, eventVars>>
=============================================================================
