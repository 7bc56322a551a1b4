---------------------- MODULE SupplyLinkContractProofs ----------------------
(***************************************************************************)
(* What holds of the contract for every set of products and addresses and  *)
(* every bound: the type invariant and the soundness of the approval queue.*)
(***************************************************************************)
EXTENDS SupplyLinkContract, SequenceTheorems, TLAPS

(* The storage helpers *)

\* FreshProduct: what a registration stores is a product.
LEMMA FreshProductType ==
  ASSUME NEW a \in Address, NEW k \in Nat
  PROVE  FreshProduct(a, k) \in Product
BY DEF FreshProduct, Product, LifecycleStage

\* Batches: a batch is a nonempty sequence.
LEMMA BatchType ==
  ASSUME NEW S, NEW s \in Batches(S)
  PROVE  s \in Seq(S) /\ Len(s) \in Nat \ {0} /\ s \in [1..Len(s) -> S]
<1>1. PICK n \in 1..MaxBatch : s \in [1..n -> S]
  BY DEF Batches
<1>2. n \in Nat \ {0}
  BY BoundsAssumption
<1>3. s \in Seq(S)
  BY <1>1, <1>2, SeqDef
<1>4. Len(s) \in Nat /\ DOMAIN s = 1..Len(s) /\ s \in [1..Len(s) -> S]
  BY <1>3, LenProperties
<1>5. Len(s) = n
  BY <1>1, <1>2, <1>4
<1> QED
  BY <1>2, <1>3, <1>4, <1>5

\* A call that records one event records a sequence of one.
LEMMA SingletonType ==
  ASSUME NEW S, NEW x \in S
  PROVE  <<x>> \in Seq(S)
OBVIOUS

\* NewEvent: what the handlers record is an event.
LEMMA NewEventType ==
  ASSUME NEW t \in EventTypes, NEW a \in Address, NEW b \in BOOLEAN, now \in Nat
  PROVE  NewEvent(t, a, b) \in Event /\ NewEvent(t, a, b).type = t
BY EventTypesAssumption DEF NewEvent, Event, LifecycleTypes

\* ConsumeNonce (validate_and_increment_nonce) keeps nonces natural numbers.
LEMMA NonceType ==
  ASSUME nonce \in [Address -> Nat], NEW a \in Address, NEW k, ConsumeNonce(a, k)
  PROVE  nonce' \in [Address -> Nat] /\ nonce' = [nonce EXCEPT ![a] = @ + 1]
BY DEF ConsumeNonce

\* StableId: the digest of an event of a product.
LEMMA StableIdType ==
  ASSUME NEW p \in ProductId, NEW e \in Event
  PROVE  StableId(p, e) \in ProductId \X Address \X Nat \X Nat
BY DEF StableId, Event, LifecycleTypes, SPOILED

\* NewPending: an event is staged with its own actor as the first approver.
LEMMA NewPendingType ==
  ASSUME NEW i \in Nat, NEW e \in Event, NEW k \in Nat, now \in Nat
  PROVE  NewPending(i, e, k) \in PendingEvent
<1>1. e.actor \in Address
  BY DEF Event
<1>2. <<e.actor>> \in Seq(Address)
  BY <1>1
<1>3. now + ExpirationWindow \in Nat
  BY WindowAssumption
<1> QED
  BY <1>2, <1>3 DEF NewPending, PendingEvent

EventStoresType ==
  /\ pending \in [ProductId -> SUBSET PendingEvent]
  /\ nextPendingId \in [ProductId -> Nat]
  /\ entries \in [ProductId -> Seq(Event)]
  /\ seen \subseteq (ProductId \X Address \X Nat \X Nat)

\* record_event keeps the stores it writes well typed.
LEMMA RecordEventsType ==
  ASSUME TypeOK, NEW p \in ProductId, Exists(p), NEW es \in Seq(Event),
         RecordEvents(p, es)
  PROVE  EventStoresType'
<1>1. product[p] \in Product
  BY DEF TypeOK, Exists
<1>2. Len(es) \in Nat /\ \A i \in 1..Len(es) : es[i] \in Event
  BY LenProperties, ElementOfSeq
<1>3. CASE product[p].required_signatures > 1
  <2>1. StagedEvents(p, es) \subseteq PendingEvent
    <3> SUFFICES ASSUME NEW i \in 1..Len(es)
                 PROVE  NewPending(nextPendingId[p] + i - 1, es[i],
                                   product[p].required_signatures) \in PendingEvent
      BY DEF StagedEvents
    <3>1. nextPendingId[p] + i - 1 \in Nat
      BY <1>2 DEF TypeOK
    <3>2. product[p].required_signatures \in Nat
      BY <1>1 DEF Product
    <3> QED
      BY <1>2, <3>1, <3>2, NewPendingType DEF TypeOK
  <2>2. StageEvents(p, es)
    BY <1>3 DEF RecordEvents
  <2> QED
    BY <1>2, <2>1, <2>2 DEF StageEvents, TypeOK, EventStoresType
<1>4. CASE ~(product[p].required_signatures > 1)
  <2>1. StoreEvents(p, es)
    BY <1>4 DEF RecordEvents
  <2>2. entries[p] \o es \in Seq(Event)
    BY ConcatProperties DEF TypeOK
  <2>3. StableIds(p, es) \subseteq (ProductId \X Address \X Nat \X Nat)
    BY <1>2, StableIdType DEF StableIds
  <2> QED
    BY <2>1, <2>2, <2>3 DEF StoreEvents, TypeOK, EventStoresType
<1> QED
  BY <1>3, <1>4

-----------------------------------------------------------------------------
(* The handlers of Products *)

LEMMA RegisterProductType ==
  ASSUME TypeOK, NEW p \in ProductId, NEW a \in Address, NEW k \in Signatures,
         RegisterProduct(p, a, k)
  PROVE  TypeOK'
<1>1. FreshProduct(a, k) \in Product
  BY FreshProductType, SignaturesAssumption
<1>2. Append(productIndex, p) \in Seq(ProductId)
  BY DEF TypeOK
<1> QED
  BY <1>1, <1>2 DEF TypeOK, RegisterProduct, eventVars

LEMMA RegisterProductsBatchType ==
  ASSUME TypeOK, NEW a \in Address, NEW ids \in Batches(ProductId),
         RegisterProductsBatch(a, ids)
  PROVE  TypeOK'
<1>1. FreshProduct(a, 1) \in Product
  BY FreshProductType
<1>2. productIndex \o ids \in Seq(ProductId)
  BY BatchType, ConcatProperties DEF TypeOK
<1> QED
  BY <1>1, <1>2 DEF TypeOK, RegisterProductsBatch, eventVars

LEMMA SetFlagType ==
  ASSUME TypeOK, NEW p \in ProductId, NEW q, SetFlag(p, q),
         Exists(p) => q \in Product
  PROVE  TypeOK'
<1>1. q \in Product /\ product[p].owner \in Address
  BY DEF SetFlag, TypeOK, Exists, Product
<1> QED
  BY <1>1 DEF TypeOK, SetFlag, eventVars

LEMMA FlagsType ==
  ASSUME TypeOK, NEW p \in ProductId, Flags(p)
  PROVE  TypeOK'
<1>1. Exists(p) => product[p] \in Product
  BY DEF TypeOK, Exists
<1>2. CASE RecallProduct(p)
  BY <1>1, <1>2, SetFlagType DEF RecallProduct, Product
<1>3. CASE UnrecallProduct(p)
  BY <1>1, <1>3, SetFlagType DEF UnrecallProduct, Product
<1>4. CASE DeactivateProduct(p)
  BY <1>1, <1>4, SetFlagType DEF DeactivateProduct, Product
<1>5. CASE ReactivateProduct(p)
  BY <1>1, <1>5, SetFlagType DEF ReactivateProduct, Product
<1> QED
  BY <1>2, <1>3, <1>4, <1>5 DEF Flags

LEMMA MarkSpoiledType ==
  ASSUME TypeOK, NEW p \in ProductId, MarkSpoiled(p)
  PROVE  TypeOK'
<1>1. product[p] \in Product
  BY DEF TypeOK, Exists, MarkSpoiled
<1>2. [product[p] EXCEPT !.spoiled = TRUE] \in Product /\ product[p].owner \in Address
  BY <1>1 DEF Product
<1>3. [type |-> SPOILED, actor |-> product[p].owner, time |-> now, private |-> FALSE]
        \in Event
  BY <1>2 DEF Event, TypeOK
<1>4. product' \in [ProductId -> Product \cup {NoProduct}]
  BY <1>2 DEF MarkSpoiled, TypeOK
<1>5. events' \in [ProductId -> Seq(Event)]
  BY <1>3 DEF MarkSpoiled, TypeOK
<1> QED
  BY <1>2, <1>4, <1>5 DEF TypeOK, MarkSpoiled

-----------------------------------------------------------------------------
(* The handlers of Authorization *)

\* A call that writes one product and spends at most one nonce.
LEMMA ProductWriteType ==
  ASSUME TypeOK, NEW p \in ProductId, NEW q \in Product,
         product' = [product EXCEPT ![p] = q],
         nonce' \in [Address -> Nat],
         escrow' \in [ProductId -> TransferEscrow \cup {NoEscrow}],
         signer' \in Address,
         UNCHANGED <<productIndex, paused, eventVars, now>>
  PROVE  TypeOK'
BY DEF TypeOK, eventVars

LEMMA OwnershipType ==
  ASSUME TypeOK, NEW p \in ProductId, Ownership(p)
  PROVE  TypeOK'
<1>1. Exists(p) => product[p] \in Product /\ product[p].owner \in Address
  BY DEF TypeOK, Exists, Product
<1>2. escrow[p] # NoEscrow =>
        /\ escrow[p] \in TransferEscrow
        /\ escrow[p].current_owner \in Address
        /\ escrow[p].proposed_owner \in Address
  BY DEF TypeOK, TransferEscrow
<1>3. ASSUME NEW a \in Address, NEW k \in 0..MaxNonce, TransferOwnership(p, a, k)
      PROVE  TypeOK'
  <2>1. nonce' \in [Address -> Nat]
    BY <1>1, <1>3, NonceType DEF TransferOwnership, TypeOK
  <2>2. [product[p] EXCEPT !.owner = a] \in Product
    BY <1>1, <1>3 DEF TransferOwnership, Product
  <2> QED
    BY <1>1, <1>3, <2>1, <2>2, ProductWriteType DEF TransferOwnership, TypeOK
<1>4. ASSUME NEW a \in Address, RequestTransfer(p, a)
      PROVE  TypeOK'
  <2>1. [current_owner |-> product[p].owner, proposed_owner |-> a, disputed |-> FALSE]
          \in TransferEscrow
    BY <1>1, <1>4 DEF RequestTransfer, TransferEscrow
  <2> QED
    BY <1>1, <1>4, <2>1 DEF RequestTransfer, TypeOK, eventVars
<1>5. CASE AcceptTransfer(p)
  <2>1. [product[p] EXCEPT !.owner = escrow[p].proposed_owner] \in Product
    BY <1>1, <1>2, <1>5 DEF AcceptTransfer, Product
  <2> QED
    BY <1>2, <1>5, <2>1, ProductWriteType DEF AcceptTransfer, TypeOK
<1>6. CASE CancelTransfer(p)
  BY <1>2, <1>6 DEF CancelTransfer, TypeOK, eventVars
<1>7. CASE DisputeTransfer(p)
  <2>1. [escrow[p] EXCEPT !.disputed = TRUE] \in TransferEscrow
    BY <1>2, <1>7 DEF DisputeTransfer, TransferEscrow
  <2> QED
    BY <1>2, <1>7, <2>1 DEF DisputeTransfer, TypeOK, eventVars
<1>8. ASSUME NEW a \in Address, RotateOwnerKey(p, a)
      PROVE  TypeOK'
  <2>1. [product[p] EXCEPT !.owner = a] \in Product
    BY <1>1, <1>8 DEF RotateOwnerKey, Product
  <2> QED
    BY <1>1, <1>8, <2>1, ProductWriteType DEF RotateOwnerKey, TypeOK
<1> QED
  BY <1>3, <1>4, <1>5, <1>6, <1>7, <1>8 DEF Ownership

LEMMA ActorsType ==
  ASSUME TypeOK, NEW p \in ProductId, Actors(p)
  PROVE  TypeOK'
<1> DEFINE actors == product[p].authorized_actors
<1>1. Exists(p) =>
        /\ product[p] \in Product
        /\ product[p].owner \in Address
        /\ actors \in [Address -> Nat]
  BY DEF TypeOK, Exists, Product
<1>2. ASSUME NEW f \in [Address -> Nat], Exists(p)
      PROVE  [product[p] EXCEPT !.authorized_actors = f] \in Product
  BY <1>1, <1>2 DEF Product
<1>3. ASSUME NEW a \in Address, NEW k \in 0..MaxNonce, AddAuthorizedActor(p, a, k)
      PROVE  TypeOK'
  <2>1. nonce' \in [Address -> Nat]
    BY <1>1, <1>3, NonceType DEF AddAuthorizedActor, TypeOK
  <2>2. [actors EXCEPT ![a] = actors[a] + 1] \in [Address -> Nat]
    BY <1>1, <1>3 DEF AddAuthorizedActor
  <2>3. [product[p] EXCEPT !.authorized_actors = [actors EXCEPT ![a] = actors[a] + 1]] \in Product
    BY <1>2, <1>3, <2>2 DEF AddAuthorizedActor
  <2> QED
    BY <1>1, <1>3, <2>1, <2>3, ProductWriteType DEF AddAuthorizedActor, TypeOK
<1>4. ASSUME NEW a \in Address, NEW k \in 0..MaxNonce, RemoveAuthorizedActor(p, a, k)
      PROVE  TypeOK'
  <2>1. nonce' \in [Address -> Nat]
    BY <1>1, <1>4, NonceType DEF RemoveAuthorizedActor, TypeOK
  <2>2. [actors EXCEPT ![a] = 0] \in [Address -> Nat]
    BY <1>1, <1>4 DEF RemoveAuthorizedActor
  <2>3. [product[p] EXCEPT !.authorized_actors = [actors EXCEPT ![a] = 0]] \in Product
    BY <1>2, <1>4, <2>2 DEF RemoveAuthorizedActor
  <2> QED
    BY <1>1, <1>4, <2>1, <2>3, ProductWriteType DEF RemoveAuthorizedActor, TypeOK
<1>5. ASSUME NEW a \in Address, NEW b \in Address, RotateActorKey(p, a, b)
      PROVE  TypeOK'
  <2> DEFINE rotated == [actors EXCEPT ![b] = actors[b] + actors[a], ![a] = 0]
  <2>1. rotated \in [Address -> Nat]
    BY <1>1, <1>5 DEF RotateActorKey
  <2>2. [product[p] EXCEPT !.authorized_actors = rotated] \in Product
    BY <1>2, <1>5, <2>1 DEF RotateActorKey
  <2> QED
    BY <1>1, <1>5, <2>2, ProductWriteType DEF RotateActorKey, TypeOK
<1> QED
  BY <1>3, <1>4, <1>5 DEF Actors

LEMMA PausingType ==
  ASSUME TypeOK, Pausing
  PROVE  TypeOK'
BY DEF Pausing, SetPauseState, TypeOK, eventVars

-----------------------------------------------------------------------------
(* The handlers of Events *)

LEMMA AddTrackingEventsType ==
  ASSUME TypeOK, NEW p \in ProductId, NEW types \in Batches(EventTypes),
         AddTrackingEvents(p, types)
  PROVE  TypeOK'
<1> DEFINE owner == product[p].owner
           es == [i \in 1..Len(types) |-> NewEvent(types[i], owner, FALSE)]
<1>1. product[p] \in Product /\ owner \in Address
  BY DEF TypeOK, Exists, AddTrackingEvents, Product
<1>2. /\ Len(types) \in Nat \ {0}
      /\ \A i \in 1..Len(types) : types[i] \in EventTypes
  BY BatchType
<1>3. es \in Seq(Event)
  <2>1. \A i \in 1..Len(types) : NewEvent(types[i], owner, FALSE) \in Event
    BY <1>1, <1>2, NewEventType DEF TypeOK
  <2>2. es \in [1..Len(types) -> Event]
    BY <2>1
  <2> QED
    BY <1>2, <2>2, SeqDef, ZenonT(40)
<1>4. RecordEvents(p, es) /\ Exists(p)
  BY DEF AddTrackingEvents
<1>5. EventStoresType'
  BY <1>3, <1>4, RecordEventsType
<1>6. types[Len(types)] \in LifecycleStage
  <2>1. EventTypes \subseteq LifecycleStage
    BY EventTypesAssumption DEF LifecycleStage
  <2> QED
    BY <1>2, <2>1
<1>7. [product[p] EXCEPT !.lifecycle_stage = types[Len(types)]] \in Product
  BY <1>1, <1>6 DEF Product
<1>8. product' \in [ProductId -> Product \cup {NoProduct}]
  BY <1>7 DEF AddTrackingEvents, TypeOK
<1> QED
  BY <1>1, <1>5, <1>8 DEF AddTrackingEvents, TypeOK, EventStoresType

LEMMA AddPrivateTrackingEventType ==
  ASSUME TypeOK, NEW p \in ProductId, NEW a \in Address, NEW t \in EventTypes,
         AddPrivateTrackingEvent(p, a, t)
  PROVE  TypeOK'
<1>1. <<NewEvent(t, a, TRUE)>> \in Seq(Event)
  BY NewEventType, SingletonType DEF TypeOK
<1>2. EventStoresType'
  BY <1>1, RecordEventsType DEF AddPrivateTrackingEvent
<1> QED
  BY <1>2 DEF AddPrivateTrackingEvent, TypeOK, EventStoresType

\* Approvals: what an approval leaves is again a sequence of addresses.
LEMMA ApprovalsType ==
  ASSUME NEW e \in PendingEvent, NEW a \in Address
  PROVE  /\ Approvals(e, a) \in Seq(Address)
         /\ [e EXCEPT !.approvals = Approvals(e, a)] \in PendingEvent
<1>1. e.approvals \in Seq(Address)
  BY DEF PendingEvent
<1>2. Append(e.approvals, a) \in Seq(Address)
  BY <1>1
<1>3. Approvals(e, a) \in Seq(Address)
  BY <1>1, <1>2 DEF Approvals
<1> QED
  BY <1>3 DEF PendingEvent

LEMMA ApproveEventType ==
  ASSUME TypeOK, NEW p \in ProductId, NEW e \in pending[p], NEW a \in Address,
         NEW k \in 0..MaxNonce, ApproveEvent(p, e, a, k)
  PROVE  TypeOK'
<1>1. e \in PendingEvent /\ e.event \in Event
  BY DEF TypeOK, PendingEvent
<1>2. [e EXCEPT !.approvals = Approvals(e, a)] \in PendingEvent
  BY <1>1, ApprovalsType
<1>3. nonce' \in [Address -> Nat]
  BY NonceType DEF ApproveEvent, TypeOK
<1>4. /\ pending' \in [ProductId -> SUBSET PendingEvent]
      /\ events' \in [ProductId -> Seq(Event)]
      /\ provenanceRoot' \in [ProductId -> Seq(Event)]
  <2>1. CASE Finalizes(e, a)
    <3>1. /\ events' = [events EXCEPT ![p] = Append(@, e.event)]
          /\ provenanceRoot' = [provenanceRoot EXCEPT ![p] = Append(@, e.event)]
          /\ pending' = [pending EXCEPT ![p] = @ \ {e}]
      BY <2>1 DEF ApproveEvent
    <3>2. Append(events[p], e.event) \in Seq(Event)
      BY <1>1 DEF TypeOK
    <3>3. Append(provenanceRoot[p], e.event) \in Seq(Event)
      BY <1>1 DEF TypeOK
    <3> QED
      BY <3>1, <3>2, <3>3 DEF TypeOK
  <2>2. CASE ~Finalizes(e, a)
    <3>1. /\ pending' = [pending EXCEPT ![p] =
                 (@ \ {e}) \cup {[e EXCEPT !.approvals = Approvals(e, a)]}]
          /\ UNCHANGED <<events, provenanceRoot>>
      BY <2>2 DEF ApproveEvent
    <3> QED
      BY <1>2, <3>1 DEF TypeOK
  <2> QED
    BY <2>1, <2>2
<1> QED
  BY <1>3, <1>4 DEF ApproveEvent, TypeOK

LEMMA CleanupExpiredEventsType ==
  ASSUME TypeOK, NEW p \in ProductId, CleanupExpiredEvents(p)
  PROVE  TypeOK'
<1>1. pending' \in [ProductId -> SUBSET PendingEvent]
  BY DEF CleanupExpiredEvents, TypeOK
<1> QED
  BY <1>1 DEF CleanupExpiredEvents, TypeOK

\* WithoutIndex: removing one element leaves a sequence one shorter.
LEMMA WithoutIndexType ==
  ASSUME NEW S, NEW s \in Seq(S), NEW i \in 1..Len(s)
  PROVE  WithoutIndex(s, i) \in Seq(S)
<1>1. Len(s) \in Nat /\ \A j \in 1..Len(s) : s[j] \in S
  BY LenProperties, ElementOfSeq
<1>2. \A j \in 1..(i - 1) : s[j] \in S
  BY <1>1
<1>3. \A j \in (i + 1)..Len(s) : s[j] \in S
  BY <1>1
<1>4. SubSeq(s, 1, i - 1) \in Seq(S)
  BY <1>1, <1>2, SubSeqProperties
<1>5. SubSeq(s, i + 1, Len(s)) \in Seq(S)
  BY <1>1, <1>3, SubSeqProperties
<1> QED
  BY <1>4, <1>5, ConcatProperties DEF WithoutIndex

LEMMA ArchiveTrackingEventType ==
  ASSUME TypeOK, NEW p \in ProductId, NEW a \in Address, NEW i \in 1..Len(events[p]),
         ArchiveTrackingEvent(p, a, i)
  PROVE  TypeOK'
<1>1. events[p] \in Seq(Event)
  BY DEF TypeOK
<1>2. events[p][i] \in Event
  BY <1>1, ElementOfSeq
<1>3. WithoutIndex(events[p], i) \in Seq(Event)
  BY <1>1, WithoutIndexType
<1>4. events' \in [ProductId -> Seq(Event)] /\ archived' \in [ProductId -> Seq(Event)]
  BY <1>2, <1>3, SMTT(20) DEF ArchiveTrackingEvent, TypeOK
<1> QED
  BY <1>4 DEF ArchiveTrackingEvent, TypeOK

-----------------------------------------------------------------------------
(* The type invariant *)

LEMMA InitTypeOK == Init => TypeOK
<1> SUFFICES ASSUME Init PROVE TypeOK
  OBVIOUS
<1>1. /\ productIndex \in Seq(ProductId)
      /\ \A p \in ProductId :
           entries[p] = <<>> /\ events[p] = <<>> /\ archived[p] = <<>>
           /\ provenanceRoot[p] = <<>> /\ pending[p] = {}
  BY DEF Init
<1>2. <<>> \in Seq(Event)
  OBVIOUS
<1>3. /\ entries \in [ProductId -> Seq(Event)]
      /\ events \in [ProductId -> Seq(Event)]
      /\ archived \in [ProductId -> Seq(Event)]
      /\ provenanceRoot \in [ProductId -> Seq(Event)]
  BY <1>2 DEF Init
<1>4. pending \in [ProductId -> SUBSET PendingEvent]
  BY DEF Init
<1> QED
  BY <1>1, <1>3, <1>4 DEF Init, TypeOK

LEMMA StepTypeOK ==
  ASSUME TypeOK, [Next]_vars
  PROVE  TypeOK'
<1>1. CASE Registration
  BY <1>1, RegisterProductType, RegisterProductsBatchType DEF Registration
<1>2. ASSUME NEW p \in ProductId, Flags(p)
      PROVE  TypeOK'
  BY <1>2, FlagsType
<1>3. ASSUME NEW p \in ProductId, MarkSpoiled(p)
      PROVE  TypeOK'
  BY <1>3, MarkSpoiledType
<1>4. ASSUME NEW p \in ProductId, Ownership(p)
      PROVE  TypeOK'
  BY <1>4, OwnershipType
<1>5. ASSUME NEW p \in ProductId, Actors(p)
      PROVE  TypeOK'
  BY <1>5, ActorsType
<1>6. ASSUME NEW p \in ProductId, Recording(p)
      PROVE  TypeOK'
  BY <1>6, AddTrackingEventsType, AddPrivateTrackingEventType DEF Recording
<1>7. ASSUME NEW p \in ProductId, Approval(p)
      PROVE  TypeOK'
  BY <1>7, ApproveEventType, CleanupExpiredEventsType DEF Approval
<1>8. ASSUME NEW p \in ProductId, Archival(p)
      PROVE  TypeOK'
  BY <1>8, ArchiveTrackingEventType DEF Archival
<1>9. CASE Pausing
  BY <1>9, PausingType
<1>10. CASE Tick
  BY <1>10, SMTT(20) DEF Tick, TypeOK, eventVars
<1>11. CASE UNCHANGED vars
  BY <1>11 DEF TypeOK, vars, eventVars
<1> QED
  BY <1>1, <1>2, <1>3, <1>4, <1>5, <1>6, <1>7, <1>8, <1>9, <1>10, <1>11 DEF Next

\* Every reachable state of the contract is well typed, for any sets of
\* products, addresses and event types and any bounds.
THEOREM TypeCorrect == Spec => []TypeOK
BY InitTypeOK, StepTypeOK, PTL DEF Spec

-----------------------------------------------------------------------------
(* The approval queue.  Only three handlers write it. *)

\* The address that signs the call is the actor of every event it records.
SignedBySender(es) == \A i \in 1..Len(es) : es[i].actor = signer'

\* A staging step: some events of a product with a quorum above one.
Stages(p, es) ==
  /\ product[p] \in Product
  /\ product[p].required_signatures > 1
  /\ StageEvents(p, es)
  /\ SignedBySender(es)
  /\ UNCHANGED <<provenanceRoot, now>>

QueueUnchanged ==
  /\ UNCHANGED <<pending, nextPendingId, provenanceRoot>>
  /\ UNCHANGED now \/ now' > now

Approves == \E p \in ProductId : \E e \in pending[p], a \in Address, k \in 0..MaxNonce :
              ApproveEvent(p, e, a, k)

\* Every step leaves the queue alone, stages events, approves one or purges.
LEMMA RecordEventsQueue ==
  ASSUME TypeOK, NEW p \in ProductId, Exists(p), NEW es \in Seq(Event),
         RecordEvents(p, es), SignedBySender(es), UNCHANGED <<provenanceRoot, now>>
  PROVE  QueueUnchanged \/ Stages(p, es)
<1>1. product[p] \in Product
  BY DEF TypeOK, Exists
<1> QED
  BY <1>1 DEF RecordEvents, StoreEvents, Stages, QueueUnchanged

LEMMA AddTrackingEventsRecords ==
  ASSUME TypeOK, NEW p \in ProductId, NEW types \in Batches(EventTypes),
         AddTrackingEvents(p, types)
  PROVE  \E es \in Seq(Event) : RecordEvents(p, es) /\ SignedBySender(es)
<1> DEFINE owner == product[p].owner
           es == [i \in 1..Len(types) |-> NewEvent(types[i], owner, FALSE)]
<1>1. owner \in Address
  BY DEF TypeOK, Exists, AddTrackingEvents, Product
<1>2. /\ Len(types) \in Nat \ {0}
      /\ \A i \in 1..Len(types) : types[i] \in EventTypes
  BY BatchType
<1>3. \A i \in 1..Len(types) : NewEvent(types[i], owner, FALSE) \in Event
  BY <1>1, <1>2, NewEventType DEF TypeOK
<1>4. es \in [1..Len(types) -> Event]
  BY <1>3
<1>5. es \in Seq(Event)
  BY <1>2, <1>4, SeqDef, ZenonT(40)
<1>6. RecordEvents(p, es) /\ SignedBySender(es)
  BY DEF AddTrackingEvents, SignedBySender, NewEvent
<1> QED
  BY <1>5, <1>6

LEMMA QueueSteps ==
  ASSUME TypeOK, [Next]_vars
  PROVE  \/ QueueUnchanged
         \/ \E p \in ProductId : \E es \in Seq(Event) : Stages(p, es)
         \/ Approves
         \/ \E p \in ProductId : CleanupExpiredEvents(p)
<1>1. CASE Registration
  BY <1>1 DEF Registration, RegisterProduct, RegisterProductsBatch, eventVars,
              QueueUnchanged
<1>2. ASSUME NEW p \in ProductId, Flags(p) \/ MarkSpoiled(p)
      PROVE  QueueUnchanged
  BY <1>2 DEF Flags, RecallProduct, UnrecallProduct, DeactivateProduct,
              ReactivateProduct, SetFlag, MarkSpoiled, eventVars, QueueUnchanged
<1>3. ASSUME NEW p \in ProductId, Ownership(p)
      PROVE  QueueUnchanged
  BY <1>3 DEF Ownership, TransferOwnership, RequestTransfer, AcceptTransfer,
              CancelTransfer, DisputeTransfer, RotateOwnerKey, eventVars, QueueUnchanged
<1>4. ASSUME NEW p \in ProductId, Actors(p)
      PROVE  QueueUnchanged
  BY <1>4 DEF Actors, AddAuthorizedActor, RemoveAuthorizedActor, RotateActorKey,
              eventVars, QueueUnchanged
<1>5. ASSUME NEW p \in ProductId, Recording(p)
      PROVE  QueueUnchanged \/ \E es \in Seq(Event) : Stages(p, es)
  <2>1. ASSUME NEW types \in Batches(EventTypes), AddTrackingEvents(p, types)
        PROVE  QueueUnchanged \/ \E es \in Seq(Event) : Stages(p, es)
    <3>1. Exists(p) /\ UNCHANGED <<provenanceRoot, now>>
      BY <2>1 DEF AddTrackingEvents
    <3> QED
      BY <2>1, <3>1, AddTrackingEventsRecords, RecordEventsQueue
  <2>2. ASSUME NEW a \in Address, NEW t \in EventTypes, AddPrivateTrackingEvent(p, a, t)
        PROVE  QueueUnchanged \/ \E es \in Seq(Event) : Stages(p, es)
    <3>1. <<NewEvent(t, a, TRUE)>> \in Seq(Event)
      BY NewEventType, SingletonType DEF TypeOK
    <3>2. SignedBySender(<<NewEvent(t, a, TRUE)>>)
      BY <2>2 DEF AddPrivateTrackingEvent, SignedBySender, NewEvent
    <3> QED
      BY <2>2, <3>1, <3>2, RecordEventsQueue DEF AddPrivateTrackingEvent
  <2> QED
    BY <1>5, <2>1, <2>2 DEF Recording
<1>6. ASSUME NEW p \in ProductId, Approval(p)
      PROVE  Approves \/ CleanupExpiredEvents(p)
  BY <1>6 DEF Approval, Approves
<1>7. ASSUME NEW p \in ProductId, Archival(p)
      PROVE  QueueUnchanged
  BY <1>7 DEF Archival, ArchiveTrackingEvent, QueueUnchanged
<1>8. CASE Pausing \/ Tick \/ UNCHANGED vars
  BY <1>8 DEF Pausing, SetPauseState, Tick, vars, eventVars, QueueUnchanged, TypeOK
<1> QED
  BY <1>1, <1>2, <1>3, <1>4, <1>5, <1>6, <1>7, <1>8 DEF Next

\* One pending event, as the queue may hold it.
SoundPending(e) ==
  /\ e.approvals # <<>>
  /\ e.approvals[1] = e.event.actor
  /\ \A i, j \in 1..Len(e.approvals) : e.approvals[i] = e.approvals[j] => i = j
  /\ Len(e.approvals) < e.required_signatures

LEMMA QueueSoundByElement ==
  PendingQueueSound <=>
    PendingIdsFresh /\ \A p \in ProductId : \A e \in pending[p] : SoundPending(e)
BY DEF PendingQueueSound, ApprovalsDistinct, ApprovalsIncomplete, SoundPending

\* record_event stages events of fresh ids, one approval below their quorum.
LEMMA StagedSound ==
  ASSUME TypeOK, NEW p \in ProductId, NEW es \in Seq(Event), Stages(p, es),
         NEW d \in StagedEvents(p, es)
  PROVE  /\ SoundPending(d)
         /\ d.id \in Nat /\ d.id >= nextPendingId[p] /\ d.id < nextPendingId[p] + Len(es)
         /\ \A c \in StagedEvents(p, es) : c.id = d.id => c = d
<1>1. nextPendingId[p] \in Nat /\ Len(es) \in Nat
  BY LenProperties DEF TypeOK
<1>2. \A c \in StagedEvents(p, es) : \E i \in 1..Len(es) :
        /\ c = NewPending(nextPendingId[p] + i - 1, es[i], product[p].required_signatures)
        /\ c.id = nextPendingId[p] + i - 1
  BY DEF StagedEvents, NewPending
<1>3. PICK i \in 1..Len(es) :
        /\ d = NewPending(nextPendingId[p] + i - 1, es[i], product[p].required_signatures)
        /\ d.id = nextPendingId[p] + i - 1
  BY <1>2
<1>4. SoundPending(d)
  BY <1>3 DEF NewPending, SoundPending, Stages
<1>5. \A c \in StagedEvents(p, es) : c.id = d.id => c = d
  <2> TAKE c \in StagedEvents(p, es)
  <2>1. PICK j \in 1..Len(es) :
          /\ c = NewPending(nextPendingId[p] + j - 1, es[j], product[p].required_signatures)
          /\ c.id = nextPendingId[p] + j - 1
    BY <1>2
  <2>2. c.id = d.id => i = j
    BY <1>1, <1>3, <2>1
  <2> QED
    BY <1>3, <2>1, <2>2
<1> QED
  BY <1>1, <1>3, <1>4, <1>5

LEMMA StageKeepsQueue ==
  ASSUME TypeOK, PendingQueueSound, NEW p \in ProductId, NEW es \in Seq(Event),
         Stages(p, es)
  PROVE  PendingQueueSound'
<1>1. /\ pending' = [pending EXCEPT ![p] = @ \cup StagedEvents(p, es)]
      /\ nextPendingId' = [nextPendingId EXCEPT ![p] = @ + Len(es)]
      /\ Len(es) \in Nat
  BY LenProperties DEF Stages, StageEvents
<1>2. \A q \in ProductId : q # p =>
        pending'[q] = pending[q] /\ nextPendingId'[q] = nextPendingId[q]
  BY <1>1 DEF TypeOK
<1>3. /\ pending'[p] = pending[p] \cup StagedEvents(p, es)
      /\ nextPendingId'[p] = nextPendingId[p] + Len(es)
      /\ nextPendingId[p] \in Nat
  BY <1>1 DEF TypeOK
<1>4. \A e \in pending[p] : e.id \in Nat /\ e.id < nextPendingId[p]
  BY DEF TypeOK, PendingEvent, PendingQueueSound, PendingIdsFresh
<1>5. \A d \in StagedEvents(p, es) :
        /\ SoundPending(d)
        /\ d.id \in Nat /\ d.id >= nextPendingId[p] /\ d.id < nextPendingId[p] + Len(es)
        /\ \A c \in StagedEvents(p, es) : c.id = d.id => c = d
  BY StagedSound
<1>6. \A e \in pending'[p] :
        e.id < nextPendingId'[p] /\ \A d \in pending'[p] : d.id = e.id => d = e
  <2>1. \A e \in pending'[p] : e.id < nextPendingId'[p]
    BY <1>1, <1>3, <1>4, <1>5
  <2>2. \A e, d \in pending'[p] : d.id = e.id => d = e
    <3> TAKE e, d \in pending'[p]
    <3>1. CASE e \in pending[p] /\ d \in pending[p]
      BY <3>1 DEF PendingQueueSound, PendingIdsFresh
    <3>2. CASE e \in StagedEvents(p, es) /\ d \in StagedEvents(p, es)
      BY <3>2, <1>5
    <3>3. CASE e \in pending[p] /\ d \in StagedEvents(p, es)
      BY <3>3, <1>3, <1>4, <1>5
    <3>4. CASE e \in StagedEvents(p, es) /\ d \in pending[p]
      BY <3>4, <1>3, <1>4, <1>5
    <3> QED
      BY <1>3, <3>1, <3>2, <3>3, <3>4
  <2> QED
    BY <2>1, <2>2
<1>7. PendingIdsFresh'
  BY <1>2, <1>6 DEF PendingIdsFresh, PendingQueueSound
<1>8. \A q \in ProductId : \A e \in pending'[q] : SoundPending(e)
  BY <1>2, <1>3, <1>5, QueueSoundByElement
<1> QED
  BY <1>7, <1>8 DEF PendingQueueSound, ApprovalsDistinct, ApprovalsIncomplete, SoundPending

\* approve_event adds an approver that is not there yet; short of the quorum the
\* event stays sound.
LEMMA ApprovedSound ==
  ASSUME NEW e \in PendingEvent, SoundPending(e), NEW a \in Address, ~Finalizes(e, a)
  PROVE  SoundPending([e EXCEPT !.approvals = Approvals(e, a)])
<1> DEFINE d == [e EXCEPT !.approvals = Approvals(e, a)]
<1>1. e.approvals \in Seq(Address) /\ e.required_signatures \in Nat
  BY DEF PendingEvent
<1>2. /\ d.approvals = Approvals(e, a)
      /\ d.event = e.event
      /\ d.required_signatures = e.required_signatures
  BY DEF PendingEvent
<1>3. Approvals(e, a) \in Seq(Address)
  BY ApprovalsType
<1>4. Len(Approvals(e, a)) < e.required_signatures
  BY <1>1, <1>3, LenProperties DEF Finalizes
<1>5. CASE \E i \in 1..Len(e.approvals) : e.approvals[i] = a
  <2>1. Approvals(e, a) = e.approvals
    BY <1>5 DEF Approvals
  <2> QED
    BY <1>2, <1>4, <2>1 DEF SoundPending
<1>6. CASE \A i \in 1..Len(e.approvals) : e.approvals[i] # a
  <2> DEFINE s == e.approvals
             t == Append(s, a)
  <2>1. Approvals(e, a) = t
    BY <1>6 DEF Approvals
  <2>2. /\ Len(s) \in Nat /\ Len(s) > 0
        /\ Len(t) = Len(s) + 1
        /\ t[Len(s) + 1] = a
        /\ \A i \in 1..Len(s) : t[i] = s[i]
    BY <1>1, EmptySeq DEF SoundPending
  <2>3. \A i, j \in 1..Len(t) : t[i] = t[j] => i = j
    <3> TAKE i, j \in 1..Len(t)
    <3>1. CASE i \in 1..Len(s) /\ j \in 1..Len(s)
      BY <2>2, <3>1 DEF SoundPending
    <3>2. CASE i = Len(s) + 1 /\ j \in 1..Len(s)
      BY <1>6, <2>2, <3>2
    <3>3. CASE i \in 1..Len(s) /\ j = Len(s) + 1
      BY <1>6, <2>2, <3>3
    <3> QED
      BY <2>2, <3>1, <3>2, <3>3
  <2>4. t # <<>> /\ t[1] = e.event.actor
    BY <2>2 DEF SoundPending
  <2> QED
    BY <1>2, <1>4, <2>1, <2>3, <2>4 DEF SoundPending
<1> QED
  BY <1>5, <1>6

LEMMA ApproveKeepsQueue ==
  ASSUME TypeOK, PendingQueueSound, NEW p \in ProductId, NEW e \in pending[p],
         NEW a \in Address, NEW k \in 0..MaxNonce, ApproveEvent(p, e, a, k)
  PROVE  PendingQueueSound'
<1> DEFINE d == [e EXCEPT !.approvals = Approvals(e, a)]
<1>1. e \in PendingEvent /\ SoundPending(e) /\ nextPendingId' = nextPendingId
  BY QueueSoundByElement DEF TypeOK, ApproveEvent
<1>2. d.id = e.id
  BY <1>1 DEF PendingEvent
<1>3. \/ pending' = [pending EXCEPT ![p] = @ \ {e}]
      \/ ~Finalizes(e, a) /\ pending' = [pending EXCEPT ![p] = (@ \ {e}) \cup {d}]
  BY DEF ApproveEvent
<1>4. \A q \in ProductId : q # p => pending'[q] = pending[q]
  BY <1>3 DEF TypeOK
<1>5. \/ pending'[p] = pending[p] \ {e}
      \/ ~Finalizes(e, a) /\ pending'[p] = (pending[p] \ {e}) \cup {d}
  BY <1>3 DEF TypeOK
<1>6. /\ \A c \in pending[p] : c.id < nextPendingId[p]
      /\ \A b, c \in pending[p] : b.id = c.id => b = c
  BY DEF PendingQueueSound, PendingIdsFresh
<1> HIDE DEF d
<1>7. \A b, c \in pending'[p] : b.id = c.id => b = c
  BY <1>2, <1>5, <1>6
<1>8. \A c \in pending'[p] : c.id < nextPendingId[p]
  BY <1>2, <1>5, <1>6
<1>9. PendingIdsFresh'
  BY <1>1, <1>4, <1>7, <1>8 DEF PendingIdsFresh, PendingQueueSound
<1>10. ~Finalizes(e, a) => SoundPending(d)
  BY <1>1, ApprovedSound DEF d
<1>11. \A q \in ProductId : \A c \in pending'[q] : SoundPending(c)
  BY <1>4, <1>5, <1>10, QueueSoundByElement
<1> QED
  BY <1>9, <1>11 DEF PendingQueueSound, ApprovalsDistinct, ApprovalsIncomplete, SoundPending

LEMMA StepQueueSound ==
  ASSUME TypeOK, PendingQueueSound, [Next]_vars
  PROVE  PendingQueueSound'
<1>1. CASE QueueUnchanged
  BY <1>1 DEF QueueUnchanged, PendingQueueSound, PendingIdsFresh, ApprovalsDistinct,
              ApprovalsIncomplete
<1>2. ASSUME NEW p \in ProductId, NEW es \in Seq(Event), Stages(p, es)
      PROVE  PendingQueueSound'
  BY <1>2, StageKeepsQueue
<1>3. CASE Approves
  BY <1>3, ApproveKeepsQueue DEF Approves
<1>4. ASSUME NEW p \in ProductId, CleanupExpiredEvents(p)
      PROVE  PendingQueueSound'
  <2>1. /\ nextPendingId' = nextPendingId
        /\ \A q \in ProductId : pending'[q] \subseteq pending[q]
    BY <1>4 DEF CleanupExpiredEvents, TypeOK
  <2> QED
    BY <2>1 DEF PendingQueueSound, PendingIdsFresh, ApprovalsDistinct, ApprovalsIncomplete
<1> QED
  BY <1>1, <1>2, <1>3, <1>4, QueueSteps

\* The approval queue of every product stays sound, whatever the handlers do in
\* whatever order: unique fresh ids, distinct approvers led by the event's
\* actor, and never enough approvals left waiting.
THEOREM QueueSound == Spec => []PendingQueueSound
<1>1. Init => PendingQueueSound
  BY DEF Init, PendingQueueSound, PendingIdsFresh, ApprovalsDistinct, ApprovalsIncomplete
<1>2. TypeOK /\ PendingQueueSound /\ [Next]_vars => PendingQueueSound'
  BY StepQueueSound
<1> QED
  BY <1>1, <1>2, TypeCorrect, PTL DEF Spec

-----------------------------------------------------------------------------
(* Nonces and ownership *)

\* The body of NonceMovesOnlyForItsSigner, for one step.
NonceStep == \A a \in Address : nonce'[a] # nonce[a] => nonce'[a] = nonce[a] + 1 /\ signer' = a

\* ConsumeNonce with the matching signature moves that signer's nonce only.
LEMMA ConsumeNonceStep ==
  ASSUME TypeOK, NEW a, NEW k, ConsumeNonce(a, k), signer' = a
  PROVE  NonceStep
BY DEF ConsumeNonce, NonceStep, TypeOK

LEMMA StepNonce ==
  ASSUME TypeOK, [Next]_vars
  PROVE  NonceStep
<1>0. nonce' = nonce => NonceStep
  BY DEF NonceStep
<1>1. CASE Registration
  BY <1>0, <1>1 DEF Registration, RegisterProduct, RegisterProductsBatch
<1>2. ASSUME NEW p \in ProductId, Flags(p) \/ MarkSpoiled(p)
      PROVE  NonceStep
  BY <1>0, <1>2 DEF Flags, RecallProduct, UnrecallProduct, DeactivateProduct,
                    ReactivateProduct, SetFlag, MarkSpoiled
<1>3. ASSUME NEW p \in ProductId, Ownership(p)
      PROVE  NonceStep
  <2>1. ASSUME NEW a \in Address, NEW k \in 0..MaxNonce, TransferOwnership(p, a, k)
        PROVE  NonceStep
    BY <2>1, ConsumeNonceStep DEF TransferOwnership
  <2>2. CASE ~ \E a \in Address, k \in 0..MaxNonce : TransferOwnership(p, a, k)
    BY <1>0, <1>3, <2>2 DEF Ownership, RequestTransfer, AcceptTransfer, CancelTransfer,
                            DisputeTransfer, RotateOwnerKey
  <2> QED
    BY <2>1, <2>2
<1>4. ASSUME NEW p \in ProductId, Actors(p)
      PROVE  NonceStep
  <2>1. ASSUME NEW a \in Address, NEW k \in 0..MaxNonce, AddAuthorizedActor(p, a, k)
        PROVE  NonceStep
    BY <2>1, ConsumeNonceStep DEF AddAuthorizedActor
  <2>2. ASSUME NEW a \in Address, NEW k \in 0..MaxNonce, RemoveAuthorizedActor(p, a, k)
        PROVE  NonceStep
    BY <2>2, ConsumeNonceStep DEF RemoveAuthorizedActor
  <2>3. ASSUME NEW a \in Address, NEW b \in Address, RotateActorKey(p, a, b)
        PROVE  NonceStep
    BY <1>0, <2>3 DEF RotateActorKey
  <2> QED
    BY <1>4, <2>1, <2>2, <2>3 DEF Actors
<1>5. ASSUME NEW p \in ProductId, Recording(p)
      PROVE  NonceStep
  BY <1>0, <1>5 DEF Recording, AddTrackingEvents, AddPrivateTrackingEvent
<1>6. ASSUME NEW p \in ProductId, Approval(p)
      PROVE  NonceStep
  <2>1. ASSUME NEW e \in pending[p], NEW a \in Address, NEW k \in 0..MaxNonce,
               ApproveEvent(p, e, a, k)
        PROVE  NonceStep
    BY <2>1, ConsumeNonceStep DEF ApproveEvent
  <2>2. CASE CleanupExpiredEvents(p)
    BY <1>0, <2>2 DEF CleanupExpiredEvents
  <2> QED
    BY <1>6, <2>1, <2>2 DEF Approval
<1>7. ASSUME NEW p \in ProductId, Archival(p)
      PROVE  NonceStep
  BY <1>0, <1>7 DEF Archival, ArchiveTrackingEvent
<1>8. CASE Pausing \/ Tick \/ UNCHANGED vars
  BY <1>0, <1>8 DEF Pausing, SetPauseState, Tick, vars
<1> QED
  BY <1>1, <1>2, <1>3, <1>4, <1>5, <1>6, <1>7, <1>8 DEF Next

\* No call moves the nonce of an address that did not sign it, and a nonce
\* never skips or repeats a value.
THEOREM NonceBelongsToSigner == Spec => NonceMovesOnlyForItsSigner
<1>1. TypeOK /\ [Next]_vars =>
        [\A a \in Address : nonce'[a] # nonce[a] =>
           nonce'[a] = nonce[a] + 1 /\ signer' = a]_vars
  BY StepNonce DEF NonceStep
<1> QED
  BY <1>1, TypeCorrect, PTL DEF Spec, NonceMovesOnlyForItsSigner

\* The body of OwnerChangeJustified, for one product.
OwnerKept(p) ==
  (Exists(p) /\ product'[p].owner # product[p].owner) =>
    \/ signer' = product[p].owner
    \/ /\ escrow[p] # NoEscrow
       /\ ~escrow[p].disputed
       /\ signer' = escrow[p].proposed_owner
       /\ product'[p].owner = signer'
       /\ escrow'[p] = NoEscrow
    \/ Len(productIndex') > Len(productIndex) /\ product'[p].owner = signer'

OwnersKept == \A p \in ProductId : OwnerKept(p)

\* A write that keeps the owner of the product written keeps all owners.
LEMMA SameOwner ==
  ASSUME TypeOK, NEW p \in ProductId, NEW q,
         product' = [product EXCEPT ![p] = q],
         q.owner = product[p].owner
  PROVE  OwnersKept
BY DEF OwnersKept, OwnerKept, TypeOK

\* The owner may sign the product over.
LEMMA SignedByOwner ==
  ASSUME TypeOK, NEW p \in ProductId, NEW q,
         product' = [product EXCEPT ![p] = q],
         signer' = product[p].owner
  PROVE  OwnersKept
BY DEF OwnersKept, OwnerKept, TypeOK

LEMMA RegistrationOwners ==
  ASSUME TypeOK, Registration
  PROVE  OwnersKept
<1>1. ASSUME NEW p \in ProductId, NEW a \in Address, NEW k \in Signatures,
             RegisterProduct(p, a, k)
      PROVE  OwnersKept
  <2>1. /\ Len(productIndex') > Len(productIndex)
        /\ product' = [product EXCEPT ![p] = FreshProduct(a, k)]
        /\ ~Exists(p)
    BY <1>1 DEF RegisterProduct, TypeOK
  <2> QED
    BY <2>1 DEF OwnersKept, OwnerKept, Exists, TypeOK
<1>2. ASSUME NEW a \in Address, NEW ids \in Batches(ProductId),
             RegisterProductsBatch(a, ids)
      PROVE  OwnersKept
  <2>1. Len(productIndex') > Len(productIndex) /\ signer' = a
    <3>1. Len(ids) \in Nat \ {0} /\ Len(productIndex) \in Nat
      BY BatchType, LenProperties DEF TypeOK
    <3>2. Len(productIndex') = Len(productIndex) + Len(ids)
      BY <1>2, BatchType, ConcatProperties DEF RegisterProductsBatch, TypeOK
    <3> QED
      BY <1>2, <3>1, <3>2 DEF RegisterProductsBatch
  <2>2. FreshProduct(a, 1).owner = a
    BY DEF FreshProduct
  <2>3. \A p \in ProductId : product'[p] = FreshProduct(a, 1) \/ product'[p] = product[p]
    BY <1>2 DEF RegisterProductsBatch
  <2> QED
    BY <2>1, <2>2, <2>3 DEF OwnersKept, OwnerKept
<1> QED
  BY <1>1, <1>2 DEF Registration

LEMMA StepOwners ==
  ASSUME TypeOK, [Next]_vars
  PROVE  OwnersKept
<1>0. /\ product' = product => OwnersKept
      /\ \A p \in ProductId : Exists(p) => product[p] \in Product
  BY DEF OwnersKept, OwnerKept, TypeOK, Exists
<1>1. CASE Registration
  BY <1>1, RegistrationOwners
<1>2. ASSUME NEW p \in ProductId, Flags(p)
      PROVE  OwnersKept
  BY <1>2, SignedByOwner DEF Flags, RecallProduct, UnrecallProduct, DeactivateProduct,
                             ReactivateProduct, SetFlag
<1>3. ASSUME NEW p \in ProductId, MarkSpoiled(p)
      PROVE  OwnersKept
  BY <1>3, SignedByOwner DEF MarkSpoiled
<1>4. ASSUME NEW p \in ProductId, Ownership(p)
      PROVE  OwnersKept
  <2>1. ASSUME NEW a \in Address, NEW k \in 0..MaxNonce, TransferOwnership(p, a, k)
        PROVE  OwnersKept
    BY <2>1, SignedByOwner DEF TransferOwnership
  <2>2. CASE AcceptTransfer(p)
    <3>1. /\ product' = [product EXCEPT ![p].owner = escrow[p].proposed_owner]
          /\ escrow[p] # NoEscrow /\ ~escrow[p].disputed
          /\ signer' = escrow[p].proposed_owner
          /\ escrow'[p] = NoEscrow
      BY <2>2 DEF AcceptTransfer, TypeOK
    <3>2. product[p] \in Product
      BY <1>0, <2>2 DEF AcceptTransfer
    <3>3. product'[p].owner = escrow[p].proposed_owner
      BY <3>1, <3>2 DEF TypeOK, Product
    <3>4. \A q \in ProductId : q # p => product'[q] = product[q]
      BY <3>1 DEF TypeOK
    <3> QED
      BY <3>1, <3>3, <3>4 DEF OwnersKept, OwnerKept
  <2>3. ASSUME NEW a \in Address, RotateOwnerKey(p, a)
        PROVE  OwnersKept
    BY <2>3, SignedByOwner DEF RotateOwnerKey
  <2>4. ASSUME NEW a \in Address, RequestTransfer(p, a)
        PROVE  OwnersKept
    BY <1>0, <2>4 DEF RequestTransfer
  <2>5. CASE CancelTransfer(p) \/ DisputeTransfer(p)
    BY <1>0, <2>5 DEF CancelTransfer, DisputeTransfer
  <2> QED
    BY <1>4, <2>1, <2>2, <2>3, <2>4, <2>5 DEF Ownership
<1>5. ASSUME NEW p \in ProductId, Actors(p)
      PROVE  OwnersKept
  <2>1. ASSUME NEW a \in Address, NEW k \in 0..MaxNonce, AddAuthorizedActor(p, a, k)
        PROVE  OwnersKept
    BY <2>1, SignedByOwner DEF AddAuthorizedActor
  <2>2. ASSUME NEW a \in Address, NEW k \in 0..MaxNonce, RemoveAuthorizedActor(p, a, k)
        PROVE  OwnersKept
    BY <2>2, SignedByOwner DEF RemoveAuthorizedActor
  <2>3. ASSUME NEW a \in Address, NEW b \in Address, RotateActorKey(p, a, b)
        PROVE  OwnersKept
    <3>1. product[p] \in Product
      BY <1>0, <2>3 DEF RotateActorKey
    <3> QED
      BY <2>3, <3>1, SameOwner DEF RotateActorKey, Product
  <2> QED
    BY <1>5, <2>1, <2>2, <2>3 DEF Actors
<1>6. ASSUME NEW p \in ProductId, Recording(p)
      PROVE  OwnersKept
  <2>1. ASSUME NEW types \in Batches(EventTypes), AddTrackingEvents(p, types)
        PROVE  OwnersKept
    BY <2>1, SignedByOwner DEF AddTrackingEvents
  <2>2. ASSUME NEW a \in Address, NEW t \in EventTypes, AddPrivateTrackingEvent(p, a, t)
        PROVE  OwnersKept
    BY <1>0, <2>2 DEF AddPrivateTrackingEvent
  <2> QED
    BY <1>6, <2>1, <2>2 DEF Recording
<1>7. ASSUME NEW p \in ProductId, Approval(p)
      PROVE  OwnersKept
  BY <1>0, <1>7 DEF Approval, ApproveEvent, CleanupExpiredEvents
<1>8. ASSUME NEW p \in ProductId, Archival(p)
      PROVE  OwnersKept
  BY <1>0, <1>8 DEF Archival, ArchiveTrackingEvent
<1>9. CASE Pausing \/ Tick \/ UNCHANGED vars
  BY <1>0, <1>9 DEF Pausing, SetPauseState, Tick, vars
<1> QED
  BY <1>1, <1>2, <1>3, <1>4, <1>5, <1>6, <1>7, <1>8, <1>9 DEF Next

\* A product changes hands only by its owner's signature, by an undisputed
\* escrow signed by its beneficiary, or by a registration over it.
THEOREM OwnershipJustified == Spec => OwnerChangeJustified
<1>1. TypeOK /\ [Next]_vars =>
        [\A p \in ProductId :
           (Exists(p) /\ product'[p].owner # product[p].owner) =>
             \/ signer' = product[p].owner
             \/ /\ escrow[p] # NoEscrow
                /\ ~escrow[p].disputed
                /\ signer' = escrow[p].proposed_owner
                /\ product'[p].owner = signer'
                /\ escrow'[p] = NoEscrow
             \/ Len(productIndex') > Len(productIndex) /\ product'[p].owner = signer']_vars
  BY StepOwners DEF OwnersKept, OwnerKept
<1> QED
  BY <1>1, TypeCorrect, PTL DEF Spec, OwnerChangeJustified
=============================================================================
