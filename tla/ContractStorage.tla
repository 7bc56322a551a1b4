-------------------------- MODULE ContractStorage --------------------------
(***************************************************************************)
(* The persistent storage of the Soroban contract in                       *)
(* src/smart-contract/contracts/src: one variable per DataKey the custody  *)
(* and event handlers read or write, and the helpers of lib.rs they share. *)
(* Every contract call is one atomic transaction: a panic or an Err rolls  *)
(* the whole call back, so a handler is one action whose guard is the      *)
(* conjunction of everything that lets it commit.                          *)
(***************************************************************************)
EXTENDS Integers, Sequences, FiniteSets, FiniteSetsExt

CONSTANTS
  ProductId,         \* product ids that may be registered
  Address,           \* Stellar addresses
  NoAddress,         \* the signer of a call that requires no signature
  NoProduct,         \* absent DataKey::Product entry
  NoEscrow,          \* absent DataKey::TransferEscrow entry
  Signatures,        \* values of required_signatures a registrant may ask for
  EventTypes,        \* lifecycle event types callers submit
  ExpirationWindow,  \* EXPIRATION_WINDOW, in ticks of the ledger clock
  MaxTime,           \* bound: ledger timestamps
  MaxNonce,          \* bound: nonce of one address
  MaxActors,         \* bound: entries in one authorized_actors list
  MaxBatch,          \* bound: items in one batch call
  MaxIndex,          \* bound: registrations
  MaxPending,        \* bound: pending ids handed out per product
  MaxEvents          \* bound: entries in each event store of a product

VARIABLES
  product,         \* DataKey::Product(id)
  productIndex,    \* DataKey::ProductIndex(0 .. ProductCount-1)
  nonce,           \* DataKey::ActorNonce(address)
  escrow,          \* DataKey::TransferEscrow(id)
  paused,          \* DataKey::ContractPaused
  pending,         \* DataKey::PendingEvents(id)
  nextPendingId,   \* DataKey::NextPendingId(id)
  entries,         \* DataKey::EventEntry(id, 0 .. EventCount-1)
  events,          \* DataKey::Events(id), the older list-valued event store
  archived,        \* DataKey::ArchivedEvents(id)
  provenanceRoot,  \* DataKey::ProvenanceRoot(id): the events hashed into it
  seen,            \* DataKey::EventHashSeen(stable id)
  now,             \* ledger timestamp
  signer           \* whose require_auth the last committed call passed

eventVars == <<pending, nextPendingId, entries, events, archived,
               provenanceRoot, seen>>
vars == <<product, productIndex, nonce, escrow, paused, eventVars, now, signer>>

ASSUME NoAddressAssumption == NoAddress \notin Address
ASSUME SignaturesAssumption == Signatures \subseteq Nat
ASSUME EventTypesAssumption == EventTypes \subseteq 1..5
ASSUME WindowAssumption == ExpirationWindow \in Nat
ASSUME BoundsAssumption ==
  /\ MaxTime \in Nat /\ MaxNonce \in Nat /\ MaxActors \in Nat
  /\ MaxBatch \in Nat \ {0} /\ MaxIndex \in Nat
  /\ MaxPending \in Nat /\ MaxEvents \in Nat

-----------------------------------------------------------------------------
(* Event types, numbered by the lifecycle stage they lead to.  SPOILED is   *)
(* the one type outside the lifecycle that the contract itself records.     *)
SPOILED == 0
LifecycleTypes == 1..5   \* HARVEST, PROCESSING, SHIPPING, DELIVERY, RETAIL
LifecycleStage == 0..5   \* Registered, Harvested, ..., Delivered, Retail

Event == [type : {SPOILED} \cup LifecycleTypes, actor : Address, time : Nat,
          private : BOOLEAN]

(* authorized_actors is a list that may hold an address several times: only *)
(* membership and length matter to the handlers, so it is kept as the       *)
(* number of occurrences of each address.                                   *)
Product == [owner : Address, authorized_actors : [Address -> Nat],
            required_signatures : Nat, lifecycle_stage : LifecycleStage,
            active : BOOLEAN, recalled : BOOLEAN, spoiled : BOOLEAN]

TransferEscrow == [current_owner : Address, proposed_owner : Address,
                   disputed : BOOLEAN]

PendingEvent == [id : Nat, event : Event, approvals : Seq(Address),
                 required_signatures : Nat, expiration : Nat]

\* What stands for an absent entry is none of the entries.
ASSUME AbsenceAssumption == NoProduct \notin Product /\ NoEscrow \notin TransferEscrow

-----------------------------------------------------------------------------
Exists(p) == product[p] # NoProduct

ActorCount(actors) == MapThenSumSet(LAMBDA a : actors[a], Address)

IsActor(p, a) == product[p].authorized_actors[a] > 0
IsOwnerOrActor(p, a) == a = product[p].owner \/ IsActor(p, a)

\* The product a registration writes over whatever is stored under the id.
FreshProduct(owner, required) ==
  [owner |-> owner, authorized_actors |-> [a \in Address |-> 0],
   required_signatures |-> required, lifecycle_stage |-> 0,
   active |-> TRUE, recalled |-> FALSE, spoiled |-> FALSE]

\* validate_and_increment_nonce: the caller supplies the stored value, which
\* then moves on by one; any other value aborts the call.
ConsumeNonceFrom(a, provided) ==   \* faulty variant: takes a later nonce too
  /\ provided >= nonce[a]
  /\ nonce[a] < MaxNonce
  /\ nonce' = [nonce EXCEPT ![a] = provided + 1]
ConsumeNonce(a, provided) ==
  /\ provided = nonce[a]
  /\ nonce[a] < MaxNonce
  /\ nonce' = [nonce EXCEPT ![a] = provided + 1]

\* compute_stable_id is a SHA-256 over these fields; it is taken to be
\* injective, so the tuple stands for the digest.
StableId(p, e) == <<p, e.actor, e.type, e.time>>

\* validate_lifecycle_transition: only the type that leads to the next stage.
LifecycleAllowsUpTo(stage, type) == type <= stage + 1  \* faulty: repeats allowed
LifecycleAllows(stage, type) == type = stage + 1

NewPending(id, e, required) ==
  [id |-> id, event |-> e, approvals |-> <<e.actor>>,
   required_signatures |-> required,
   expiration |-> now + ExpirationWindow]

\* record_event for the events es one after the other: a product that requires
\* more than one signature stages each under the next pending id.
StagedEvents(p, es) ==
  {NewPending(nextPendingId[p] + i - 1, es[i], product[p].required_signatures) :
     i \in 1..Len(es)}

StageEvents(p, es) ==
  /\ nextPendingId[p] + Len(es) <= MaxPending
  /\ pending' = [pending EXCEPT ![p] = @ \cup StagedEvents(p, es)]
  /\ nextPendingId' = [nextPendingId EXCEPT ![p] = @ + Len(es)]
  /\ UNCHANGED <<entries, seen>>

\* Any other product appends them to the keyed store and marks their hashes as
\* seen.  (A private event carries no stable id, so it marks nothing.)
StableIds(p, es) == {StableId(p, es[i]) : i \in {j \in 1..Len(es) : ~es[j].private}}

StoreEvents(p, es) ==
  /\ Len(entries[p]) + Len(es) <= MaxEvents
  /\ entries' = [entries EXCEPT ![p] = @ \o es]
  /\ seen' = seen \cup StableIds(p, es)
  /\ UNCHANGED <<pending, nextPendingId>>

RecordEvents(p, es) ==
  IF product[p].required_signatures > 1 THEN StageEvents(p, es) ELSE StoreEvents(p, es)
=============================================================================
