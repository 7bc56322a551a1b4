--------------------------- MODULE EventStoreProofs ---------------------------
(***************************************************************************)
(* The event stores of a product: no approved event is lost or doubled, no *)
(* public event is stored twice, no lifecycle stage is recorded twice.     *)
(* All three are about how often something occurs in a sequence.           *)
(***************************************************************************)
EXTENDS SupplyLinkContractProofs, FiniteSetTheorems

(* Counting in sequences *)

Places(s, S) == {i \in 1..Len(s) : s[i] \in S}
CountIn(s, S) == Cardinality(Places(s, S))

LEMMA CountType ==
  ASSUME NEW T, NEW s \in Seq(T), NEW S
  PROVE  IsFiniteSet(Places(s, S)) /\ CountIn(s, S) \in Nat
<1>1. Len(s) \in Nat
  BY LenProperties
<1>2. IsFiniteSet(1..Len(s))
  BY <1>1, FS_Interval
<1>3. Places(s, S) \subseteq 1..Len(s)
  BY DEF Places
<1> QED
  BY <1>2, <1>3, FS_Subset, FS_CardinalityType DEF CountIn

LEMMA CountEmpty ==
  ASSUME NEW S
  PROVE  CountIn(<<>>, S) = 0
<1>1. Places(<<>>, S) = {}
  BY DEF Places
<1> QED
  BY <1>1, FS_EmptySet DEF CountIn

LEMMA CountOne ==
  ASSUME NEW x, NEW S
  PROVE  CountIn(<<x>>, S) = IF x \in S THEN 1 ELSE 0
<1>1. Places(<<x>>, S) = IF x \in S THEN {1} ELSE {}
  BY DEF Places
<1> QED
  BY <1>1, FS_EmptySet, FS_Singleton DEF CountIn

\* The places of a concatenation are those of the front and, moved, of the back.
LEMMA CountConcat ==
  ASSUME NEW T, NEW s \in Seq(T), NEW t \in Seq(T), NEW S
  PROVE  CountIn(s \o t, S) = CountIn(s, S) + CountIn(t, S)
<1> DEFINE m == Len(s)
           n == Len(t)
           Back == {i \in (m + 1)..(m + n) : (s \o t)[i] \in S}
           f == [i \in Places(t, S) |-> m + i]
<1>1. m \in Nat /\ n \in Nat
  BY LenProperties
<1>2. /\ Len(s \o t) = m + n
      /\ \A i \in 1..m : (s \o t)[i] = s[i]
      /\ \A i \in (m + 1)..(m + n) : (s \o t)[i] = t[i - m]
  BY <1>1, ConcatProperties
<1>3. Places(s \o t, S) = Places(s, S) \cup Back
  BY <1>1, <1>2 DEF Places
<1>4. Places(s, S) \cap Back = {}
  BY <1>1 DEF Places
<1>5. ExistsBijection(Places(t, S), Back)
  <2>1. \A i \in Places(t, S) : i \in 1..n /\ t[i] \in S
    BY DEF Places
  <2>2. f \in [Places(t, S) -> Back]
    <3>1. ASSUME NEW i \in Places(t, S)
          PROVE  m + i \in Back
      <4>1. m + i \in (m + 1)..(m + n) /\ (m + i) - m = i
        BY <1>1, <2>1
      <4> QED
        BY <1>2, <2>1, <4>1
    <3> HIDE DEF Back, m
    <3> QED
      BY <3>1
  <2>3. \A i, j \in Places(t, S) : f[i] = f[j] => i = j
    BY <1>1, <2>1
  <2>4. \A k \in Back : \E i \in Places(t, S) : f[i] = k
    <3> TAKE k \in Back
    <3>1. k - m \in 1..n /\ m + (k - m) = k
      BY <1>1
    <3>2. k - m \in Places(t, S)
      BY <1>2, <3>1 DEF Places
    <3> WITNESS k - m \in Places(t, S)
    <3> QED
      BY <3>1, <3>2
  <2> HIDE DEF f, Back
  <2>5. f \in Bijection(Places(t, S), Back)
    BY <2>2, <2>3, <2>4 DEF Bijection, Injection, Surjection, IsInjective
  <2> QED
    BY <2>5 DEF ExistsBijection
<1>6. /\ IsFiniteSet(Places(s, S)) /\ IsFiniteSet(Places(t, S))
      /\ CountIn(s, S) \in Nat /\ CountIn(t, S) \in Nat
  BY CountType
<1> HIDE DEF Back
<1>7. IsFiniteSet(Back) /\ Cardinality(Back) = CountIn(t, S)
  BY <1>5, <1>6, FS_Bijection DEF CountIn
<1>8. Cardinality(Places(s, S) \cup Back) = CountIn(s, S) + CountIn(t, S) - 0
  BY <1>4, <1>6, <1>7, FS_Union, FS_EmptySet DEF CountIn
<1> QED
  BY <1>3, <1>6, <1>8 DEF CountIn

LEMMA CountAppend ==
  ASSUME NEW T, NEW s \in Seq(T), NEW x \in T, NEW S
  PROVE  CountIn(Append(s, x), S) = CountIn(s, S) + (IF x \in S THEN 1 ELSE 0)
<1>1. <<x>> \in Seq(T)
  BY SingletonType
<1>2. Append(s, x) = s \o <<x>>
  BY AppendIsConcat
<1>3. CountIn(s \o <<x>>, S) = CountIn(s, S) + CountIn(<<x>>, S)
  BY <1>1, CountConcat
<1> QED
  BY <1>2, <1>3, CountOne

\* WithoutIndex takes one place away.
LEMMA CountWithout ==
  ASSUME NEW T, NEW s \in Seq(T), NEW i \in 1..Len(s), NEW S
  PROVE  CountIn(s, S) = CountIn(WithoutIndex(s, i), S) + (IF s[i] \in S THEN 1 ELSE 0)
<1> DEFINE n == Len(s)
           front == SubSeq(s, 1, i - 1)
           back == SubSeq(s, i + 1, n)
<1>1. n \in Nat /\ i \in Nat /\ i <= n /\ \A j \in 1..n : s[j] \in T
  BY LenProperties, ElementOfSeq
<1>2. s[i] \in T
  BY <1>1
<1>3. \A j \in 1..(i - 1) : s[j] \in T
  BY <1>1
<1>4. \A j \in (i + 1)..n : s[j] \in T
  BY <1>1
<1>5. front \in Seq(T)
  BY <1>1, <1>3, SubSeqProperties
<1>6. back \in Seq(T)
  BY <1>1, <1>4, SubSeqProperties
<1>7. s = SubSeq(s, 1, i) \o back
  <2>1. i \in 0..n
    BY <1>1
  <2>2. 1 \in 1..(n + 1) /\ i \in (1 - 1)..n /\ n \in i..n
    BY <1>1
  <2>3. SubSeq(s, 1, i) \o SubSeq(s, i + 1, n) = SubSeq(s, 1, n)
    BY <2>2, ConcatAdjacentSubSeq
  <2> QED
    BY <2>3, SubSeqFull
<1>8. SubSeq(s, 1, i) = front \o <<s[i]>>
  <2>1. 1 \in 1..n /\ i \in 1..n
    BY <1>1
  <2> QED
    BY <2>1, SubSeqRecursiveSecond
<1> HIDE DEF front, back
<1>9. <<s[i]>> \in Seq(T)
  BY <1>2
<1>10. front \o <<s[i]>> \in Seq(T)
  BY <1>5, <1>9, ConcatProperties
<1>11. CountIn(s, S) = CountIn(front \o <<s[i]>>, S) + CountIn(back, S)
  <2>1. CountIn((front \o <<s[i]>>) \o back, S)
          = CountIn(front \o <<s[i]>>, S) + CountIn(back, S)
    BY <1>6, <1>10, CountConcat
  <2> QED
    BY <1>7, <1>8, <2>1
<1>12. CountIn(front \o <<s[i]>>, S) = CountIn(front, S) + CountIn(<<s[i]>>, S)
  BY <1>5, <1>9, CountConcat
<1>13. CountIn(front \o back, S) = CountIn(front, S) + CountIn(back, S)
  BY <1>5, <1>6, CountConcat
<1>14. /\ CountIn(front, S) \in Nat /\ CountIn(back, S) \in Nat
       /\ CountIn(<<s[i]>>, S) = IF s[i] \in S THEN 1 ELSE 0
  BY <1>5, <1>6, CountType, CountOne
<1>15. WithoutIndex(s, i) = front \o back
  BY DEF WithoutIndex, front, back
<1> QED
  BY <1>11, <1>12, <1>13, <1>14, <1>15

-----------------------------------------------------------------------------
(* Approved events: root, list and archive *)

\* ApprovedEventsConserved for every event, stored or not.
EventsConserved ==
  \A p \in ProductId : \A v \in Event :
    v.type # SPOILED =>
      CountIn(provenanceRoot[p], {v}) = CountIn(events[p], {v}) + CountIn(archived[p], {v})

LEMMA ConservedCovers == TypeOK /\ EventsConserved => ApprovedEventsConserved
<1> SUFFICES ASSUME TypeOK, EventsConserved PROVE ApprovedEventsConserved
  OBVIOUS
<1>1. \A p \in ProductId : \A v \in Members(provenanceRoot[p]) \cup Members(events[p])
                                    \cup Members(archived[p]) : v \in Event
  <2> SUFFICES ASSUME NEW s \in Seq(Event), NEW v \in Members(s) PROVE v \in Event
    BY DEF TypeOK
  <2> QED
    BY ElementOfSeq DEF Members
<1>2. \A s, v : Occurrences(s, v) = CountIn(s, {v})
  BY DEF Occurrences, CountIn, Places
<1> QED
  BY <1>1, <1>2 DEF ApprovedEventsConserved, EventsConserved

ListsKept == UNCHANGED <<events, archived, provenanceRoot>>

\* Three handlers write the lists and the root.
LEMMA ListSteps ==
  ASSUME [Next]_vars
  PROVE  \/ ListsKept
         \/ \E p \in ProductId : MarkSpoiled(p)
         \/ Approves
         \/ \E p \in ProductId : Archival(p)
<1>1. CASE Registration
  BY <1>1 DEF Registration, RegisterProduct, RegisterProductsBatch, eventVars, ListsKept
<1>2. ASSUME NEW p \in ProductId, Flags(p)
      PROVE  ListsKept
  BY <1>2 DEF Flags, RecallProduct, UnrecallProduct, DeactivateProduct,
              ReactivateProduct, SetFlag, eventVars, ListsKept
<1>3. ASSUME NEW p \in ProductId, Ownership(p)
      PROVE  ListsKept
  BY <1>3 DEF Ownership, TransferOwnership, RequestTransfer, AcceptTransfer,
              CancelTransfer, DisputeTransfer, RotateOwnerKey, eventVars, ListsKept
<1>4. ASSUME NEW p \in ProductId, Actors(p)
      PROVE  ListsKept
  BY <1>4 DEF Actors, AddAuthorizedActor, RemoveAuthorizedActor, RotateActorKey,
              eventVars, ListsKept
<1>5. ASSUME NEW p \in ProductId, Recording(p)
      PROVE  ListsKept
  BY <1>5 DEF Recording, AddTrackingEvents, AddPrivateTrackingEvent, ListsKept
<1>6. ASSUME NEW p \in ProductId, Approval(p)
      PROVE  ListsKept \/ Approves
  BY <1>6 DEF Approval, Approves, CleanupExpiredEvents, ListsKept
<1>7. CASE Pausing \/ Tick \/ UNCHANGED vars
  BY <1>7 DEF Pausing, SetPauseState, Tick, vars, eventVars, ListsKept
<1> QED
  BY <1>1, <1>2, <1>3, <1>4, <1>5, <1>6, <1>7 DEF Next

\* Only the product written needs to be looked at.
LEMMA ConservedAt ==
  ASSUME EventsConserved, NEW p \in ProductId,
         \A q \in ProductId : q # p =>
           /\ events'[q] = events[q]
           /\ archived'[q] = archived[q]
           /\ provenanceRoot'[q] = provenanceRoot[q],
         \A v \in Event : v.type # SPOILED =>
           CountIn(provenanceRoot'[p], {v})
             = CountIn(events'[p], {v}) + CountIn(archived'[p], {v})
  PROVE  EventsConserved'
BY DEF EventsConserved

LEMMA MarkSpoiledConserves ==
  ASSUME TypeOK, EventsConserved, NEW p \in ProductId, MarkSpoiled(p)
  PROVE  EventsConserved'
<1>1. PICK x : x = [type |-> SPOILED, actor |-> product[p].owner, time |-> now,
                    private |-> FALSE]
  OBVIOUS
<1>2. x \in Event /\ x.type = SPOILED
  <2>1. product[p] \in Product
    BY DEF TypeOK, Exists, MarkSpoiled
  <2> QED
    BY <1>1, <2>1 DEF Event, Product, TypeOK
<1>3. events[p] \in Seq(Event) /\ events'[p] = Append(events[p], x)
      /\ archived' = archived /\ provenanceRoot' = provenanceRoot
      /\ \A q \in ProductId : q # p => events'[q] = events[q]
  BY <1>1 DEF MarkSpoiled, TypeOK
<1>4. ASSUME NEW v \in Event, v.type # SPOILED
      PROVE  CountIn(events'[p], {v}) = CountIn(events[p], {v})
  <2>1. x \notin {v}
    BY <1>2, <1>4
  <2>2. CountIn(Append(events[p], x), {v}) = CountIn(events[p], {v}) + 0
    BY <1>2, <1>3, <2>1, CountAppend
  <2>3. CountIn(events[p], {v}) \in Nat
    BY <1>3, CountType
  <2> QED
    BY <1>3, <2>2, <2>3
<1> QED
  BY <1>3, <1>4, ConservedAt DEF EventsConserved

LEMMA ApproveConserves ==
  ASSUME TypeOK, EventsConserved, NEW p \in ProductId, NEW e \in pending[p],
         NEW a \in Address, NEW k \in 0..MaxNonce, ApproveEvent(p, e, a, k)
  PROVE  EventsConserved'
<1>1. e.event \in Event /\ archived' = archived
  BY DEF ApproveEvent, TypeOK, PendingEvent
<1>2. CASE UNCHANGED <<events, provenanceRoot>>
  BY <1>1, <1>2 DEF EventsConserved
<1>3. CASE /\ events' = [events EXCEPT ![p] = Append(@, e.event)]
           /\ provenanceRoot' = [provenanceRoot EXCEPT ![p] = Append(@, e.event)]
  <2>1. /\ events[p] \in Seq(Event) /\ events'[p] = Append(events[p], e.event)
        /\ provenanceRoot[p] \in Seq(Event)
        /\ provenanceRoot'[p] = Append(provenanceRoot[p], e.event)
        /\ archived[p] \in Seq(Event)
        /\ \A q \in ProductId : q # p =>
             events'[q] = events[q] /\ provenanceRoot'[q] = provenanceRoot[q]
    BY <1>3 DEF TypeOK
  <2>2. ASSUME NEW v \in Event, v.type # SPOILED
        PROVE  CountIn(provenanceRoot'[p], {v})
                 = CountIn(events'[p], {v}) + CountIn(archived[p], {v})
    <3>1. PICK one \in Nat : one = IF e.event \in {v} THEN 1 ELSE 0
      OBVIOUS
    <3>2. CountIn(events'[p], {v}) = CountIn(events[p], {v}) + one
      BY <1>1, <2>1, <3>1, CountAppend
    <3>3. CountIn(provenanceRoot'[p], {v}) = CountIn(provenanceRoot[p], {v}) + one
      BY <1>1, <2>1, <3>1, CountAppend
    <3>4. /\ CountIn(events[p], {v}) \in Nat /\ CountIn(archived[p], {v}) \in Nat
          /\ CountIn(provenanceRoot[p], {v})
               = CountIn(events[p], {v}) + CountIn(archived[p], {v})
      BY <2>1, <2>2, CountType DEF EventsConserved
    <3> QED
      BY <3>2, <3>3, <3>4
  <2> QED
    BY <1>1, <2>1, <2>2, ConservedAt
<1> QED
  BY <1>2, <1>3 DEF ApproveEvent

LEMMA ArchiveConserves ==
  ASSUME TypeOK, EventsConserved, NEW p \in ProductId, NEW a \in Address,
         NEW i \in 1..Len(events[p]), ArchiveTrackingEvent(p, a, i)
  PROVE  EventsConserved'
<1>1. /\ events[p] \in Seq(Event) /\ events'[p] = WithoutIndex(events[p], i)
      /\ archived[p] \in Seq(Event)
      /\ archived'[p] = Append(archived[p], events[p][i])
      /\ provenanceRoot' = provenanceRoot
      /\ \A q \in ProductId : q # p =>
           events'[q] = events[q] /\ archived'[q] = archived[q]
  BY DEF ArchiveTrackingEvent, TypeOK
<1>2. events[p][i] \in Event
  BY <1>1, ElementOfSeq
<1>3. ASSUME NEW v \in Event, v.type # SPOILED
      PROVE  CountIn(provenanceRoot[p], {v})
               = CountIn(events'[p], {v}) + CountIn(archived'[p], {v})
  <2>1. PICK one \in Nat : one = IF events[p][i] \in {v} THEN 1 ELSE 0
    OBVIOUS
  <2>2. CountIn(events[p], {v}) = CountIn(events'[p], {v}) + one
    BY <1>1, <2>1, CountWithout
  <2>3. CountIn(archived'[p], {v}) = CountIn(archived[p], {v}) + one
    BY <1>1, <1>2, <2>1, CountAppend
  <2>4. CountIn(events'[p], {v}) \in Nat /\ CountIn(archived[p], {v}) \in Nat
    BY <1>1, WithoutIndexType, CountType
  <2>5. CountIn(provenanceRoot[p], {v})
          = CountIn(events[p], {v}) + CountIn(archived[p], {v})
    BY <1>3 DEF EventsConserved
  <2> QED
    BY <2>2, <2>3, <2>4, <2>5
<1> QED
  BY <1>1, <1>3, ConservedAt

LEMMA StepConserves ==
  ASSUME TypeOK, EventsConserved, [Next]_vars
  PROVE  EventsConserved'
<1>1. CASE ListsKept
  BY <1>1 DEF ListsKept, EventsConserved
<1>2. CASE \E p \in ProductId : MarkSpoiled(p)
  BY <1>2, MarkSpoiledConserves
<1>3. CASE Approves
  BY <1>3, ApproveConserves DEF Approves
<1>4. CASE \E p \in ProductId : Archival(p)
  BY <1>4, ArchiveConserves DEF Archival
<1> QED
  BY <1>1, <1>2, <1>3, <1>4, ListSteps

\* Whatever is approved, archived, spoiled or registered over, the provenance
\* root counts each approved event as often as list and archive together.
THEOREM ApprovedConserved == Spec => []ApprovedEventsConserved
<1>1. Init => EventsConserved
  BY CountEmpty DEF Init, EventsConserved
<1>2. TypeOK /\ EventsConserved /\ [Next]_vars => EventsConserved'
  BY StepConserves
<1> QED
  BY <1>1, <1>2, TypeCorrect, ConservedCovers, PTL DEF Spec

-----------------------------------------------------------------------------
(* Public entries of the keyed store and the ids marked as seen *)

\* The events of one call that may be stored: no public one repeats a stable id
\* that is marked, or that of another event of the call.
Fresh(p, es) ==
  \A i \in 1..Len(es) : ~es[i].private =>
    /\ StableId(p, es[i]) \notin seen
    /\ \A j \in 1..Len(es) : StableId(p, es[j]) = StableId(p, es[i]) => j = i

\* A batch climbs the lifecycle one stage at a time, so its types differ.
LEMMA BatchClimbs ==
  ASSUME TypeOK, NEW p \in ProductId, NEW types \in Batches(EventTypes),
         AddTrackingEvents(p, types)
  PROVE  /\ product[p] \in Product
         /\ Len(types) \in Nat \ {0}
         /\ \A i \in 1..Len(types) : types[i] = product[p].lifecycle_stage + i
<1>1. product[p] \in Product /\ product[p].lifecycle_stage \in Nat
  BY SMTT(20) DEF AddTrackingEvents, Exists, TypeOK, Product, LifecycleStage
<1>2. \A i \in 1..Len(types) :
        LifecycleAllows(product[p].lifecycle_stage + i - 1, types[i])
  BY DEF AddTrackingEvents
<1>3. Len(types) \in Nat \ {0}
  BY BatchType
<1> QED
  BY <1>1, <1>2, <1>3 DEF LifecycleAllows

\* What add_tracking_event and its batch record.
LEMMA RecordedEvents ==
  ASSUME TypeOK, NEW p \in ProductId, NEW types \in Batches(EventTypes),
         AddTrackingEvents(p, types)
  PROVE  \E es \in Seq(Event) :
           /\ RecordEvents(p, es)
           /\ Len(es) = Len(types)
           /\ \A i \in 1..Len(es) :
                es[i].type = product[p].lifecycle_stage + i /\ ~es[i].private
           /\ \A i \in 1..Len(es) : StableId(p, es[i]) \notin seen
<1> DEFINE owner == product[p].owner
           es == [i \in 1..Len(types) |-> NewEvent(types[i], owner, FALSE)]
<1>1. owner \in Address
  BY BatchClimbs DEF Product
<1>2. /\ Len(types) \in Nat \ {0}
      /\ \A i \in 1..Len(types) : types[i] \in EventTypes
  BY BatchType
<1>3. \A i \in 1..Len(types) : NewEvent(types[i], owner, FALSE) \in Event
  BY <1>1, <1>2, NewEventType DEF TypeOK
<1>4. es \in Seq(Event) /\ Len(es) = Len(types)
  <2>1. es \in [1..Len(types) -> Event]
    BY <1>3
  <2>2. es \in Seq(Event)
    BY <1>2, <2>1, SeqDef, ZenonT(40)
  <2>3. 1..Len(es) = 1..Len(types) /\ Len(es) \in Nat
    BY <2>1, <2>2, LenProperties
  <2> QED
    <3> HIDE DEF es
    <3>1. Len(types) \in 1..Len(es) /\ 1 \in 1..Len(es)
      BY <1>2, <2>3
    <3>2. Len(es) \in 1..Len(types)
      BY <2>3, <3>1
    <3> QED
      BY <1>2, <2>2, <2>3, <3>1, <3>2
<1>5. \A i \in 1..Len(types) : es[i].type = types[i] /\ es[i].private = FALSE
  BY DEF NewEvent
<1>6. RecordEvents(p, es) /\ NotReplayed(p, es)
  BY DEF AddTrackingEvents
<1> HIDE DEF es
<1>7. \A i \in 1..Len(es) : es[i].type = product[p].lifecycle_stage + i /\ ~es[i].private
  BY <1>4, <1>5, BatchClimbs
<1>8. \A i \in 1..Len(es) : StableId(p, es[i]) \notin seen
  BY <1>6 DEF NotReplayed
<1> QED
  BY <1>4, <1>6, <1>7, <1>8

LEMMA RecordedAreFresh ==
  ASSUME TypeOK, NEW p \in ProductId, NEW types \in Batches(EventTypes),
         AddTrackingEvents(p, types)
  PROVE  \E es \in Seq(Event) : RecordEvents(p, es) /\ Fresh(p, es)
<1>1. PICK es \in Seq(Event) :
        /\ RecordEvents(p, es)
        /\ \A i \in 1..Len(es) :
             es[i].type = product[p].lifecycle_stage + i /\ ~es[i].private
        /\ \A i \in 1..Len(es) : StableId(p, es[i]) \notin seen
  BY RecordedEvents
<1>2. Len(es) \in Nat /\ product[p].lifecycle_stage \in Nat
  BY LenProperties, BatchClimbs DEF Product, LifecycleStage
<1>3. \A i, j \in 1..Len(es) : StableId(p, es[j]) = StableId(p, es[i]) => j = i
  <2> SUFFICES ASSUME NEW i \in 1..Len(es), NEW j \in 1..Len(es),
                      StableId(p, es[j]) = StableId(p, es[i])
               PROVE  j = i
    OBVIOUS
  <2>1. es[j].type = es[i].type
    BY DEF StableId
  <2> QED
    BY <1>1, <1>2, <2>1
<1> QED
  BY <1>1, <1>3 DEF Fresh

EntriesKept == UNCHANGED <<entries, seen>>

Stores(p, es) == StoreEvents(p, es) /\ Fresh(p, es)

\* Only a recording call on a product of one signature writes the keyed store.
LEMMA EntrySteps ==
  ASSUME TypeOK, [Next]_vars
  PROVE  EntriesKept \/ \E p \in ProductId : \E es \in Seq(Event) : Stores(p, es)
<1>1. CASE Registration
  BY <1>1 DEF Registration, RegisterProduct, RegisterProductsBatch, eventVars, EntriesKept
<1>2. ASSUME NEW p \in ProductId, Flags(p) \/ MarkSpoiled(p)
      PROVE  EntriesKept
  BY <1>2 DEF Flags, RecallProduct, UnrecallProduct, DeactivateProduct,
              ReactivateProduct, SetFlag, MarkSpoiled, eventVars, EntriesKept
<1>3. ASSUME NEW p \in ProductId, Ownership(p)
      PROVE  EntriesKept
  BY <1>3 DEF Ownership, TransferOwnership, RequestTransfer, AcceptTransfer,
              CancelTransfer, DisputeTransfer, RotateOwnerKey, eventVars, EntriesKept
<1>4. ASSUME NEW p \in ProductId, Actors(p)
      PROVE  EntriesKept
  BY <1>4 DEF Actors, AddAuthorizedActor, RemoveAuthorizedActor, RotateActorKey,
              eventVars, EntriesKept
<1>5. ASSUME NEW p \in ProductId, NEW es \in Seq(Event), RecordEvents(p, es), Fresh(p, es)
      PROVE  EntriesKept \/ Stores(p, es)
  BY <1>5 DEF RecordEvents, StageEvents, Stores, EntriesKept
<1>6. ASSUME NEW p \in ProductId, Recording(p)
      PROVE  EntriesKept \/ \E es \in Seq(Event) : Stores(p, es)
  <2>1. ASSUME NEW types \in Batches(EventTypes), AddTrackingEvents(p, types)
        PROVE  EntriesKept \/ \E es \in Seq(Event) : Stores(p, es)
    BY <1>5, <2>1, RecordedAreFresh
  <2>2. ASSUME NEW a \in Address, NEW t \in EventTypes, AddPrivateTrackingEvent(p, a, t)
        PROVE  EntriesKept \/ \E es \in Seq(Event) : Stores(p, es)
    <3>1. <<NewEvent(t, a, TRUE)>> \in Seq(Event)
      BY NewEventType, SingletonType DEF TypeOK
    <3>2. Fresh(p, <<NewEvent(t, a, TRUE)>>)
      BY DEF Fresh, NewEvent
    <3> QED
      BY <1>5, <2>2, <3>1, <3>2 DEF AddPrivateTrackingEvent
  <2> QED
    BY <1>6, <2>1, <2>2 DEF Recording
<1>7. ASSUME NEW p \in ProductId, Approval(p) \/ Archival(p)
      PROVE  EntriesKept
  BY <1>7 DEF Approval, ApproveEvent, CleanupExpiredEvents, Archival,
              ArchiveTrackingEvent, EntriesKept
<1>8. CASE Pausing \/ Tick \/ UNCHANGED vars
  BY <1>8 DEF Pausing, SetPauseState, Tick, vars, eventVars, EntriesKept
<1> QED
  BY <1>1, <1>2, <1>3, <1>4, <1>6, <1>7, <1>8 DEF Next

\* What a product's entries mark: the ids of its public entries.
Marks(p) == {StableId(p, entries[p][i]) : i \in PublicEntries(p)}

LEMMA StoreKeepsReplay ==
  ASSUME TypeOK, NoReplayedEntry, NEW p \in ProductId, NEW es \in Seq(Event),
         Stores(p, es)
  PROVE  NoReplayedEntry'
<1> DEFINE m == Len(entries[p])
           n == Len(es)
<1>1. entries[p] \in Seq(Event) /\ m \in Nat /\ n \in Nat
  BY LenProperties DEF TypeOK
<1>2. /\ entries'[p] = entries[p] \o es
      /\ \A q \in ProductId : q # p => entries'[q] = entries[q]
      /\ seen' = seen \cup StableIds(p, es)
  BY DEF Stores, StoreEvents, TypeOK
<1>3. /\ Len(entries'[p]) = m + n
      /\ \A i \in 1..m : entries'[p][i] = entries[p][i]
      /\ \A i \in 1..n : entries'[p][m + i] = es[i]
  BY <1>1, <1>2, ConcatProperties
<1> HIDE DEF m, n
<1>4. ASSUME NEW i \in 1..(m + n)
      PROVE  i \in 1..m \/ \E k \in 1..n : i = m + k
  <2>1. i \in 1..m \/ (i - m \in 1..n /\ i = m + (i - m))
    BY <1>1
  <2> QED
    BY <2>1
<1>5. PublicEntries(p)' = PublicEntries(p) \cup {m + k : k \in {j \in 1..n : ~es[j].private}}
  <2>1. \A i : i \in PublicEntries(p)' <=> i \in 1..(m + n) /\ ~entries'[p][i].private
    BY <1>3 DEF PublicEntries
  <2>2. \A i : i \in PublicEntries(p) <=> i \in 1..m /\ ~entries[p][i].private
    BY DEF PublicEntries, m
  <2>3. \A i \in 1..m : i \in 1..(m + n)
    BY <1>1
  <2>4. \A k \in 1..n : m + k \in 1..(m + n)
    BY <1>1
  <2> QED
    BY <1>3, <1>4, <2>1, <2>2, <2>3, <2>4
<1>6. \A i \in PublicEntries(p) : i \in 1..m
  BY DEF PublicEntries, m
<1>7. Marks(p)' = Marks(p) \cup StableIds(p, es)
  <2>1. Marks(p)' = {StableId(p, entries'[p][i]) : i \in PublicEntries(p)'}
    BY DEF Marks, StableId
  <2>2. \A i \in PublicEntries(p) : entries'[p][i] = entries[p][i]
    BY <1>3, <1>6
  <2>3. \A k \in {j \in 1..n : ~es[j].private} : entries'[p][m + k] = es[k]
    BY <1>3
  <2>4. StableIds(p, es) = {StableId(p, es[i]) : i \in {j \in 1..n : ~es[j].private}}
    BY DEF StableIds, n
  <2> QED
    BY <1>5, <2>1, <2>2, <2>3, <2>4 DEF Marks
<1>8. \A q \in ProductId : q # p =>
        /\ Marks(q)' = Marks(q)
        /\ PublicEntries(q)' = PublicEntries(q)
  BY <1>2 DEF Marks, PublicEntries, StableId
<1>9. seen = UNION {Marks(q) : q \in ProductId}
  BY DEF NoReplayedEntry, Marks
<1>10. seen' = UNION {Marks(q)' : q \in ProductId}
  BY <1>2, <1>7, <1>8, <1>9
<1>11. ASSUME NEW i \in PublicEntries(p)', NEW j \in PublicEntries(p)',
              StableId(p, entries'[p][i]) = StableId(p, entries'[p][j])
       PROVE  i = j
  <2>1. ASSUME NEW x \in PublicEntries(p)
        PROVE  /\ entries'[p][x] = entries[p][x]
               /\ StableId(p, entries[p][x]) \in seen
    BY <1>3, <1>6, <1>9 DEF Marks
  <2>2. ASSUME NEW k \in {l \in 1..n : ~es[l].private}
        PROVE  /\ entries'[p][m + k] = es[k]
               /\ StableId(p, es[k]) \notin seen
               /\ \A l \in 1..n : StableId(p, es[l]) = StableId(p, es[k]) => l = k
    BY <1>3 DEF Stores, Fresh, n
  <2>3. CASE i \in PublicEntries(p) /\ j \in PublicEntries(p)
    BY <1>11, <2>1, <2>3 DEF NoReplayedEntry
  <2>4. CASE i \in PublicEntries(p) /\ \E k \in {l \in 1..n : ~es[l].private} : j = m + k
    BY <1>11, <2>1, <2>2, <2>4
  <2>5. CASE j \in PublicEntries(p) /\ \E k \in {l \in 1..n : ~es[l].private} : i = m + k
    BY <1>11, <2>1, <2>2, <2>5
  <2>6. CASE /\ \E k \in {l \in 1..n : ~es[l].private} : i = m + k
             /\ \E k \in {l \in 1..n : ~es[l].private} : j = m + k
    BY <1>11, <2>2, <2>6
  <2> QED
    BY <1>5, <2>3, <2>4, <2>5, <2>6
<1>12. \A q \in ProductId : \A i, j \in PublicEntries(q)' :
         StableId(q, entries'[q][i]) = StableId(q, entries'[q][j]) => i = j
  <2> TAKE q \in ProductId
  <2>1. CASE q = p
    BY <1>11, <2>1
  <2>2. CASE q # p
    <3>1. PublicEntries(q)' = PublicEntries(q) /\ entries'[q] = entries[q]
      BY <1>2, <1>8, <2>2
    <3> QED
      BY <3>1 DEF NoReplayedEntry
  <2> QED
    BY <2>1, <2>2
<1> QED
  BY <1>10, <1>12 DEF NoReplayedEntry, Marks, StableId

\* No public event enters the keyed store twice, whatever is registered over it:
\* every stored one is marked, and a marked one is refused.
THEOREM NothingReplayed == Spec => []NoReplayedEntry
<1>1. Init => NoReplayedEntry
  BY DEF Init, NoReplayedEntry, PublicEntries
<1>2. TypeOK /\ NoReplayedEntry /\ EntriesKept => NoReplayedEntry'
  BY DEF EntriesKept, NoReplayedEntry, PublicEntries, StableId
<1>3. TypeOK /\ NoReplayedEntry /\ [Next]_vars => NoReplayedEntry'
  BY <1>2, EntrySteps, StoreKeepsReplay
<1> QED
  BY <1>1, <1>3, TypeCorrect, PTL DEF Spec

-----------------------------------------------------------------------------
(* Lifecycle stages over one registration *)

PublicOf(t) == {e \in Event : e.type = t /\ ~e.private}
StagedIn(queue, t) == {e \in queue : e.event.type = t /\ ~e.event.private}

\* How often stage t is recorded in a queue and three stores together.
TotalOf(queue, r, s, u, t) ==
  Cardinality(StagedIn(queue, t)) + CountIn(r, PublicOf(t)) + CountIn(s, PublicOf(t))
    + CountIn(u, PublicOf(t))
Recorded(p, t) == TotalOf(pending[p], entries[p], events[p], archived[p], t)
Registrations(p) == CountIn(productIndex, {p})

\* LifecycleRecordedOnce with what it rests on: an id that is not registered has
\* no events, and the index names exactly the products there are.
LifecycleInv ==
  \A p \in ProductId :
    /\ IsFiniteSet(pending[p])
    /\ Exists(p) <=> Registrations(p) > 0
    /\ \A t \in LifecycleTypes :
         /\ Registrations(p) = 0 => Recorded(p, t) = 0
         /\ Registrations(p) = 1 =>
              Recorded(p, t) <= (IF t <= product[p].lifecycle_stage THEN 1 ELSE 0)

LEMMA LifecycleCovers == TypeOK /\ LifecycleInv => LifecycleRecordedOnce
<1> SUFFICES ASSUME TypeOK, LifecycleInv, NEW p \in ProductId, RegisteredOnce(p),
                    NEW t \in LifecycleTypes
             PROVE  Cardinality(StagedIn(pending[p], t)) + LifecycleEvents(entries[p], t)
                      + LifecycleEvents(events[p], t) + LifecycleEvents(archived[p], t)
                      <= (IF t <= product[p].lifecycle_stage THEN 1 ELSE 0)
  BY DEF LifecycleRecordedOnce, StagedIn
<1>1. ASSUME NEW s \in Seq(Event)
      PROVE  LifecycleEvents(s, t) = CountIn(s, PublicOf(t))
  <2>1. {i \in 1..Len(s) : s[i].type = t /\ ~s[i].private} = Places(s, PublicOf(t))
    BY ElementOfSeq DEF Places, PublicOf
  <2> QED
    BY <2>1 DEF LifecycleEvents, CountIn
<1>2. Registrations(p) = 1
  BY DEF RegisteredOnce, Registrations, CountIn, Places
<1>3. entries[p] \in Seq(Event) /\ events[p] \in Seq(Event) /\ archived[p] \in Seq(Event)
  BY DEF TypeOK
<1>4. Recorded(p, t) <= (IF t <= product[p].lifecycle_stage THEN 1 ELSE 0)
  BY <1>2 DEF LifecycleInv
<1> QED
  BY <1>1, <1>3, <1>4 DEF Recorded, TotalOf

\* The counts are numbers.
LEMMA TotalType ==
  ASSUME NEW queue, IsFiniteSet(queue), NEW t,
         NEW r \in Seq(Event), NEW s \in Seq(Event), NEW u \in Seq(Event)
  PROVE  /\ IsFiniteSet(StagedIn(queue, t)) /\ Cardinality(StagedIn(queue, t)) \in Nat
         /\ CountIn(r, PublicOf(t)) \in Nat /\ CountIn(s, PublicOf(t)) \in Nat
         /\ CountIn(u, PublicOf(t)) \in Nat
         /\ TotalOf(queue, r, s, u, t) \in Nat
<1>1. IsFiniteSet(StagedIn(queue, t))
  BY FS_Subset DEF StagedIn
<1>2. Cardinality(StagedIn(queue, t)) \in Nat
  BY <1>1, FS_CardinalityType
<1>3. /\ CountIn(r, PublicOf(t)) \in Nat /\ CountIn(s, PublicOf(t)) \in Nat
      /\ CountIn(u, PublicOf(t)) \in Nat
  BY CountType
<1> QED
  BY <1>1, <1>2, <1>3 DEF TotalOf

\* A call brings the product to stage t.
Reaches(p, t) ==
  /\ Exists(p)
  /\ product[p].lifecycle_stage < t
  /\ t <= product'[p].lifecycle_stage

\* What a call that registers nothing may do to a product: record one event of
\* each stage it brings the product to.
RecordsInOrder(p) ==
  /\ (product'[p] # NoProduct) <=> Exists(p)
  /\ Exists(p) => product'[p].lifecycle_stage >= product[p].lifecycle_stage
  /\ IsFiniteSet(pending'[p])
  /\ \A t \in LifecycleTypes :
       Recorded(p, t)' <= Recorded(p, t) + (IF Reaches(p, t) THEN 1 ELSE 0)

LEMMA InOrderKeepsLifecycle ==
  ASSUME TypeOK, TypeOK', LifecycleInv, productIndex' = productIndex,
         \A p \in ProductId : RecordsInOrder(p)
  PROVE  LifecycleInv'
<1> SUFFICES ASSUME NEW p \in ProductId
             PROVE  (/\ IsFiniteSet(pending[p])
                     /\ Exists(p) <=> Registrations(p) > 0
                     /\ \A t \in LifecycleTypes :
                          /\ Registrations(p) = 0 => Recorded(p, t) = 0
                          /\ Registrations(p) = 1 =>
                               Recorded(p, t) <=
                                 (IF t <= product[p].lifecycle_stage THEN 1 ELSE 0))'
  BY DEF LifecycleInv
<1>1. /\ IsFiniteSet(pending'[p])
      /\ (product'[p] # NoProduct) <=> Exists(p)
      /\ Exists(p) => product'[p].lifecycle_stage >= product[p].lifecycle_stage
  BY DEF RecordsInOrder
<1>2. Registrations(p)' = Registrations(p)
  BY DEF Registrations
<1>3. Exists(p)' <=> Exists(p)
  BY <1>1 DEF Exists
<1>4. ASSUME NEW t \in LifecycleTypes
      PROVE  /\ Recorded(p, t) \in Nat
             /\ Recorded(p, t)' \in Nat
             /\ Recorded(p, t)' <= Recorded(p, t) + (IF Reaches(p, t) THEN 1 ELSE 0)
  <2>1. Recorded(p, t) \in Nat
    BY TotalType DEF LifecycleInv, TypeOK, Recorded
  <2>2. Recorded(p, t)' \in Nat
    BY <1>1, TotalType DEF TypeOK, Recorded
  <2> QED
    BY <2>1, <2>2 DEF RecordsInOrder
<1>5. /\ Exists(p) <=> Registrations(p) > 0
      /\ \A t \in LifecycleTypes :
           /\ Registrations(p) = 0 => Recorded(p, t) = 0
           /\ Registrations(p) = 1 =>
                Recorded(p, t) <= (IF t <= product[p].lifecycle_stage THEN 1 ELSE 0)
  BY DEF LifecycleInv
<1>6. CASE ~Exists(p)
  <2>1. Registrations(p) \in Nat
    BY CountType DEF Registrations, TypeOK
  <2>2. Registrations(p) = 0
    BY <1>5, <1>6, <2>1
  <2>3. ASSUME NEW t \in LifecycleTypes
        PROVE  Recorded(p, t)' = 0
    BY <1>4, <1>5, <1>6, <2>2 DEF Reaches
  <2> QED
    BY <1>1, <1>2, <1>3, <1>6, <2>2, <2>3
<1>7. CASE Exists(p)
  <2>1. Registrations(p) > 0
    BY <1>5, <1>7
  <2>2. product[p].lifecycle_stage \in Nat /\ product'[p].lifecycle_stage \in Nat
    <3>1. product[p] \in Product /\ product'[p] \in Product
      BY <1>3, <1>7 DEF TypeOK, Exists
    <3> QED
      BY <3>1 DEF Product, LifecycleStage
  <2>3. ASSUME NEW t \in LifecycleTypes, Registrations(p) = 1
        PROVE  Recorded(p, t)' <= (IF t <= product'[p].lifecycle_stage THEN 1 ELSE 0)
    <3>1. t \in Nat
      BY DEF LifecycleTypes
    <3> QED
      BY <1>1, <1>4, <1>5, <1>7, <2>2, <2>3, <3>1 DEF Reaches
  <2> QED
    BY <1>1, <1>2, <1>3, <1>7, <2>1, <2>3
<1> QED
  BY <1>6, <1>7

\* The stores of a product and the stage it is in stay as they are.
RecordsKept(p) ==
  /\ pending'[p] = pending[p] /\ entries'[p] = entries[p]
  /\ events'[p] = events[p] /\ archived'[p] = archived[p]
  /\ (product'[p] # NoProduct) <=> Exists(p)
  /\ Exists(p) => product'[p].lifecycle_stage = product[p].lifecycle_stage

LEMMA KeptInOrder ==
  ASSUME TypeOK, LifecycleInv, NEW p \in ProductId, RecordsKept(p)
  PROVE  RecordsInOrder(p)
<1>1. \A t : Recorded(p, t)' = Recorded(p, t)
  BY DEF RecordsKept, Recorded
<1>2. \A t \in LifecycleTypes : Recorded(p, t) \in Nat
  BY TotalType DEF LifecycleInv, TypeOK, Recorded
<1>3. Exists(p) => product[p].lifecycle_stage \in Nat
  <2> SUFFICES ASSUME Exists(p) PROVE product[p].lifecycle_stage \in Nat
    OBVIOUS
  <2>1. product[p] \in Product
    BY DEF TypeOK, Exists
  <2> QED
    BY <2>1 DEF Product, LifecycleStage
<1>4. \A t \in LifecycleTypes :
        Recorded(p, t)' <= Recorded(p, t) + (IF Reaches(p, t) THEN 1 ELSE 0)
  BY <1>1, <1>2
<1>5. IsFiniteSet(pending'[p])
  BY DEF LifecycleInv, RecordsKept
<1> QED
  BY <1>3, <1>4, <1>5 DEF RecordsKept, RecordsInOrder

\* The queue gains at most one element for each event staged.
LEMMA StagedCount ==
  ASSUME NEW p, NEW es \in Seq(Event), NEW t
  PROVE  /\ IsFiniteSet(StagedEvents(p, es))
         /\ Cardinality(StagedIn(StagedEvents(p, es), t)) <= CountIn(es, PublicOf(t))
<1> DEFINE at(i) == NewPending(nextPendingId[p] + i - 1, es[i],
                               product[p].required_signatures)
           f == [i \in 1..Len(es) |-> at(i)]
           g == [i \in Places(es, PublicOf(t)) |-> at(i)]
<1>1. IsFiniteSet(1..Len(es)) /\ IsFiniteSet(Places(es, PublicOf(t)))
  BY LenProperties, FS_Interval, CountType
<1>2. StagedEvents(p, es) = {at(i) : i \in 1..Len(es)}
  BY DEF StagedEvents
<1>3. \A i \in 1..Len(es) : at(i).event = es[i] /\ es[i] \in Event
  BY ElementOfSeq DEF NewPending
<1>4. StagedIn(StagedEvents(p, es), t) = {at(i) : i \in Places(es, PublicOf(t))}
  <2> HIDE DEF at
  <2> QED
    BY <1>2, <1>3 DEF StagedIn, Places, PublicOf
<1> HIDE DEF at
<1>5. f \in Surjection(1..Len(es), StagedEvents(p, es))
  BY <1>2 DEF Surjection
<1>6. g \in Surjection(Places(es, PublicOf(t)), StagedIn(StagedEvents(p, es), t))
  BY <1>4 DEF Surjection
<1> QED
  BY <1>1, <1>5, <1>6, FS_Surjection DEF CountIn

\* record_event: a product records each event at most once, staged or stored.
LEMMA RecordGrowth ==
  ASSUME TypeOK, LifecycleInv, NEW p \in ProductId, NEW es \in Seq(Event),
         RecordEvents(p, es), UNCHANGED <<events, archived>>
  PROVE  /\ IsFiniteSet(pending'[p])
         /\ \A t : Recorded(p, t)' <= Recorded(p, t) + CountIn(es, PublicOf(t))
         /\ \A q \in ProductId : q # p =>
              pending'[q] = pending[q] /\ entries'[q] = entries[q]
<1>1. /\ IsFiniteSet(pending[p])
      /\ entries[p] \in Seq(Event) /\ events[p] \in Seq(Event) /\ archived[p] \in Seq(Event)
  BY DEF LifecycleInv, TypeOK
<1>2. CASE StageEvents(p, es)
  <2> DEFINE new == StagedEvents(p, es)
  <2>1. /\ pending'[p] = pending[p] \cup new /\ entries' = entries
        /\ \A q \in ProductId : q # p => pending'[q] = pending[q]
    BY <1>2 DEF StageEvents, TypeOK
  <2>2. IsFiniteSet(pending'[p])
    BY <1>1, <2>1, StagedCount, FS_Union
  <2>3. ASSUME NEW t
        PROVE  Recorded(p, t)' <= Recorded(p, t) + CountIn(es, PublicOf(t))
    <3>1. /\ IsFiniteSet(new)
          /\ Cardinality(StagedIn(new, t)) <= CountIn(es, PublicOf(t))
      BY StagedCount
    <3>2. IsFiniteSet(StagedIn(pending[p], t)) /\ IsFiniteSet(StagedIn(new, t))
      BY <1>1, <3>1, FS_Subset DEF StagedIn
    <3>3. StagedIn(pending'[p], t) = StagedIn(pending[p], t) \cup StagedIn(new, t)
      BY <2>1 DEF StagedIn
    <3>4. PICK k \in Nat : k = Cardinality(StagedIn(pending[p], t) \cap StagedIn(new, t))
      BY <3>2, FS_Intersection, FS_CardinalityType
    <3>5. Cardinality(StagedIn(pending'[p], t))
            = Cardinality(StagedIn(pending[p], t)) + Cardinality(StagedIn(new, t)) - k
      BY <3>2, <3>3, <3>4, FS_Union
    <3>6. /\ Cardinality(StagedIn(pending[p], t)) \in Nat
          /\ Cardinality(StagedIn(new, t)) \in Nat
          /\ CountIn(es, PublicOf(t)) \in Nat
          /\ CountIn(entries[p], PublicOf(t)) \in Nat
          /\ CountIn(events[p], PublicOf(t)) \in Nat
          /\ CountIn(archived[p], PublicOf(t)) \in Nat
      BY <1>1, <3>2, FS_CardinalityType, CountType
    <3>7. Recorded(p, t)' = Cardinality(StagedIn(pending'[p], t))
            + CountIn(entries[p], PublicOf(t)) + CountIn(events[p], PublicOf(t))
            + CountIn(archived[p], PublicOf(t))
      BY <2>1 DEF Recorded, TotalOf
    <3>8. Recorded(p, t) = Cardinality(StagedIn(pending[p], t))
            + CountIn(entries[p], PublicOf(t)) + CountIn(events[p], PublicOf(t))
            + CountIn(archived[p], PublicOf(t))
      BY DEF Recorded, TotalOf
    <3>9. /\ Cardinality(StagedIn(pending'[p], t))
               <= Cardinality(StagedIn(pending[p], t)) + CountIn(es, PublicOf(t))
          /\ Cardinality(StagedIn(pending'[p], t)) \in Int
      <4> HIDE DEF new
      <4> QED
        BY <3>1, <3>4, <3>5, <3>6
    <3> QED
      BY <3>6, <3>7, <3>8, <3>9
  <2> QED
    BY <2>1, <2>2, <2>3
<1>3. CASE StoreEvents(p, es)
  <2>1. /\ entries'[p] = entries[p] \o es /\ pending' = pending
        /\ \A q \in ProductId : q # p => entries'[q] = entries[q]
    BY <1>3 DEF StoreEvents, TypeOK
  <2>2. ASSUME NEW t
        PROVE  Recorded(p, t)' <= Recorded(p, t) + CountIn(es, PublicOf(t))
    <3>1. CountIn(entries'[p], PublicOf(t))
            = CountIn(entries[p], PublicOf(t)) + CountIn(es, PublicOf(t))
      BY <1>1, <2>1, CountConcat
    <3>2. /\ Cardinality(StagedIn(pending[p], t)) \in Nat
          /\ CountIn(es, PublicOf(t)) \in Nat
          /\ CountIn(entries[p], PublicOf(t)) \in Nat
          /\ CountIn(events[p], PublicOf(t)) \in Nat
          /\ CountIn(archived[p], PublicOf(t)) \in Nat
      BY <1>1, TotalType, CountType
    <3> QED
      BY <2>1, <3>1, <3>2 DEF Recorded, TotalOf
  <2> QED
    BY <1>1, <2>1, <2>2
<1> QED
  BY <1>2, <1>3 DEF RecordEvents

LEMMA AddTrackingInOrder ==
  ASSUME TypeOK, LifecycleInv, NEW p \in ProductId, NEW types \in Batches(EventTypes),
         AddTrackingEvents(p, types)
  PROVE  \A q \in ProductId : RecordsInOrder(q)
<1> DEFINE s == product[p].lifecycle_stage
           n == Len(types)
<1>1. PICK es \in Seq(Event) :
        /\ RecordEvents(p, es)
        /\ Len(es) = n
        /\ \A i \in 1..Len(es) : es[i].type = s + i /\ ~es[i].private
  BY RecordedEvents
<1>2. /\ product[p] \in Product /\ n \in Nat \ {0} /\ s \in Nat
      /\ types[n] = s + n
  <2>1. /\ product[p] \in Product /\ n \in Nat \ {0}
        /\ \A i \in 1..n : types[i] = s + i
    BY BatchClimbs
  <2> QED
    BY <2>1 DEF Product, LifecycleStage
<1>3. /\ product' = [product EXCEPT ![p].lifecycle_stage = types[n]]
      /\ UNCHANGED <<events, archived>>
  BY DEF AddTrackingEvents
<1>4. /\ product'[p].lifecycle_stage = s + n
      /\ \A q \in ProductId : q # p => product'[q] = product[q]
  BY <1>2, <1>3 DEF TypeOK, Product
<1>5. Exists(p) /\ product'[p] # NoProduct
  <2>1. TypeOK'
    BY AddTrackingEventsType
  <2>2. product'[p] = [product[p] EXCEPT !.lifecycle_stage = s + n]
    BY <1>2, <1>3 DEF TypeOK
  <2>3. s + n \in LifecycleStage
    BY <1>2, BatchType, EventTypesAssumption, SMTT(20) DEF LifecycleStage
  <2>4. product'[p] \in Product
    BY <1>2, <2>2, <2>3 DEF Product
  <2> QED
    BY <2>4, AbsenceAssumption DEF AddTrackingEvents
<1>6. ASSUME NEW t \in LifecycleTypes
      PROVE  CountIn(es, PublicOf(t)) <= (IF Reaches(p, t) THEN 1 ELSE 0)
  <2>1. \A i \in Places(es, PublicOf(t)) : i \in 1..n /\ s + i = t
    BY <1>1 DEF Places, PublicOf
  <2>2. t \in Nat
    BY DEF LifecycleTypes
  <2>3. CASE Reaches(p, t)
    <3>1. Places(es, PublicOf(t)) \subseteq {t - s}
      BY <1>2, <2>1, <2>2
    <3>2. IsFiniteSet({t - s}) /\ Cardinality({t - s}) = 1
      BY FS_Singleton
    <3>3. CountIn(es, PublicOf(t)) <= 1
      BY <3>1, <3>2, FS_Subset DEF CountIn
    <3> QED
      BY <2>3, <3>3
  <2>4. CASE ~Reaches(p, t)
    <3>1. Places(es, PublicOf(t)) = {}
      BY <1>2, <1>4, <1>5, <2>1, <2>2, <2>4 DEF Reaches
    <3> QED
      BY <2>4, <3>1, FS_EmptySet DEF CountIn
  <2> QED
    BY <2>3, <2>4
<1>7. RecordsInOrder(p)
  <2>1. ASSUME NEW t \in LifecycleTypes
        PROVE  Recorded(p, t)' <= Recorded(p, t) + (IF Reaches(p, t) THEN 1 ELSE 0)
    <3>1. Recorded(p, t)' <= Recorded(p, t) + CountIn(es, PublicOf(t))
      BY <1>1, <1>3, RecordGrowth
    <3>2. Recorded(p, t) \in Nat /\ CountIn(es, PublicOf(t)) \in Nat
      BY TotalType, CountType DEF LifecycleInv, TypeOK, Recorded
    <3>3. Recorded(p, t)' \in Nat
      <4>1. IsFiniteSet(pending'[p]) /\ TypeOK'
        BY <1>1, <1>3, RecordGrowth, AddTrackingEventsType
      <4> QED
        BY <4>1, TotalType DEF TypeOK, Recorded
    <3> QED
      BY <1>6, <3>1, <3>2, <3>3
  <2>2. IsFiniteSet(pending'[p])
    BY <1>1, <1>3, RecordGrowth
  <2> QED
    BY <1>2, <1>4, <1>5, <2>1, <2>2 DEF RecordsInOrder
<1>8. ASSUME NEW q \in ProductId, q # p
      PROVE  RecordsInOrder(q)
  <2>1. /\ pending'[q] = pending[q] /\ entries'[q] = entries[q]
        /\ events'[q] = events[q] /\ archived'[q] = archived[q]
        /\ product'[q] = product[q]
    BY <1>1, <1>3, <1>4, <1>8, RecordGrowth
  <2> QED
    BY <2>1, KeptInOrder DEF RecordsKept, Exists
<1> QED
  BY <1>7, <1>8

\* A call that leaves the stage of every product, and writes the stores of p
\* only, is in order when it adds nothing to what p has recorded.
LEMMA NothingAddedInOrder ==
  ASSUME TypeOK, TypeOK', LifecycleInv, NEW p \in ProductId,
         IsFiniteSet(pending'[p]),
         (product'[p] # NoProduct) <=> Exists(p),
         Exists(p) => product'[p].lifecycle_stage = product[p].lifecycle_stage,
         \A t \in LifecycleTypes : Recorded(p, t)' <= Recorded(p, t),
         \A q \in ProductId : q # p =>
           /\ pending'[q] = pending[q] /\ entries'[q] = entries[q]
           /\ events'[q] = events[q] /\ archived'[q] = archived[q]
           /\ product'[q] = product[q]
  PROVE  \A q \in ProductId : RecordsInOrder(q)
<1>1. ASSUME NEW q \in ProductId, q # p
      PROVE  RecordsInOrder(q)
  BY <1>1, KeptInOrder DEF RecordsKept, Exists
<1>2. \A t \in LifecycleTypes : Recorded(p, t) \in Nat /\ Recorded(p, t)' \in Nat
  BY TotalType DEF LifecycleInv, TypeOK, Recorded
<1>3. \A t \in LifecycleTypes :
        Recorded(p, t)' <= Recorded(p, t) + (IF Reaches(p, t) THEN 1 ELSE 0)
  BY <1>2
<1>4. Exists(p) => product[p].lifecycle_stage \in Nat
  <2> SUFFICES ASSUME Exists(p) PROVE product[p].lifecycle_stage \in Nat
    OBVIOUS
  <2>1. product[p] \in Product
    BY DEF TypeOK, Exists
  <2> QED
    BY <2>1 DEF Product, LifecycleStage
<1>5. RecordsInOrder(p)
  BY <1>3, <1>4 DEF RecordsInOrder
<1> QED
  BY <1>1, <1>5

LEMMA AddPrivateInOrder ==
  ASSUME TypeOK, LifecycleInv, NEW p \in ProductId, NEW a \in Address, NEW t \in EventTypes,
         AddPrivateTrackingEvent(p, a, t)
  PROVE  \A q \in ProductId : RecordsInOrder(q)
<1> DEFINE es == <<NewEvent(t, a, TRUE)>>
<1>1. es \in Seq(Event)
  BY NewEventType, SingletonType DEF TypeOK
<1>2. RecordEvents(p, es) /\ UNCHANGED <<product, events, archived>>
  BY DEF AddPrivateTrackingEvent
<1>3. ASSUME NEW u \in LifecycleTypes
      PROVE  CountIn(es, PublicOf(u)) = 0
  BY CountOne DEF PublicOf, NewEvent
<1> HIDE DEF es
<1>4. TypeOK'
  BY AddPrivateTrackingEventType
<1>5. /\ IsFiniteSet(pending'[p])
      /\ \A u : Recorded(p, u)' <= Recorded(p, u) + CountIn(es, PublicOf(u))
      /\ \A q \in ProductId : q # p =>
           pending'[q] = pending[q] /\ entries'[q] = entries[q]
  BY <1>1, <1>2, RecordGrowth
<1>6. \A u \in LifecycleTypes : Recorded(p, u) \in Nat
  BY TotalType DEF LifecycleInv, TypeOK, Recorded
<1>7. \A u \in LifecycleTypes : Recorded(p, u)' <= Recorded(p, u)
  BY <1>3, <1>5, <1>6
<1> QED
  BY <1>2, <1>4, <1>5, <1>7, NothingAddedInOrder DEF Exists

LEMMA MarkSpoiledInOrder ==
  ASSUME TypeOK, LifecycleInv, NEW p \in ProductId, MarkSpoiled(p)
  PROVE  \A q \in ProductId : RecordsInOrder(q)
<1>1. PICK x : x = [type |-> SPOILED, actor |-> product[p].owner, time |-> now,
                    private |-> FALSE]
  OBVIOUS
<1>2. product[p] \in Product /\ TypeOK'
  BY MarkSpoiledType DEF TypeOK, Exists, MarkSpoiled
<1>3. x \in Event /\ x.type = 0
  BY <1>1, <1>2 DEF Event, Product, TypeOK, SPOILED
<1>4. /\ events[p] \in Seq(Event) /\ events'[p] = Append(events[p], x)
      /\ UNCHANGED <<pending, entries, archived>>
      /\ \A q \in ProductId : q # p => events'[q] = events[q] /\ product'[q] = product[q]
      /\ product'[p] = [product[p] EXCEPT !.spoiled = TRUE]
  BY <1>1 DEF MarkSpoiled, TypeOK
<1>5. /\ product'[p].lifecycle_stage = product[p].lifecycle_stage
      /\ product'[p] # NoProduct /\ Exists(p)
  <2>1. product'[p] \in Product
    BY <1>2, <1>4 DEF Product
  <2>2. product'[p].lifecycle_stage = product[p].lifecycle_stage
    BY <1>2, <1>4 DEF Product
  <2>3. product'[p] # NoProduct
    BY <2>1, AbsenceAssumption
  <2> QED
    BY <2>2, <2>3 DEF MarkSpoiled
<1>6. ASSUME NEW t \in LifecycleTypes
      PROVE  Recorded(p, t)' <= Recorded(p, t)
  <2>1. x \notin PublicOf(t)
    BY <1>3 DEF PublicOf, LifecycleTypes
  <2>2. CountIn(events[p], PublicOf(t)) \in Nat
    BY <1>4, CountType
  <2>3. CountIn(events'[p], PublicOf(t)) = CountIn(events[p], PublicOf(t))
    BY <1>3, <1>4, <2>1, <2>2, CountAppend
  <2>4. Recorded(p, t)' = Recorded(p, t)
    BY <1>4, <2>3 DEF Recorded, TotalOf
  <2>5. Recorded(p, t) \in Nat
    BY TotalType DEF LifecycleInv, TypeOK, Recorded
  <2> QED
    BY <2>4, <2>5
<1> QED
  BY <1>2, <1>4, <1>5, <1>6, NothingAddedInOrder DEF LifecycleInv

LEMMA CleanupInOrder ==
  ASSUME TypeOK, LifecycleInv, NEW p \in ProductId, CleanupExpiredEvents(p)
  PROVE  \A q \in ProductId : RecordsInOrder(q)
<1>1. /\ pending'[p] \subseteq pending[p]
      /\ \A q \in ProductId : q # p => pending'[q] = pending[q]
      /\ UNCHANGED <<product, entries, events, archived>>
      /\ IsFiniteSet(pending[p])
  BY DEF CleanupExpiredEvents, TypeOK, LifecycleInv
<1>2. IsFiniteSet(pending'[p]) /\ TypeOK'
  BY <1>1, FS_Subset, CleanupExpiredEventsType
<1>3. ASSUME NEW t \in LifecycleTypes
      PROVE  Recorded(p, t)' <= Recorded(p, t)
  <2>1. StagedIn(pending'[p], t) \subseteq StagedIn(pending[p], t)
    BY <1>1 DEF StagedIn
  <2>2. IsFiniteSet(StagedIn(pending[p], t))
    BY <1>1, FS_Subset DEF StagedIn
  <2>3. /\ Cardinality(StagedIn(pending'[p], t)) <= Cardinality(StagedIn(pending[p], t))
        /\ Cardinality(StagedIn(pending'[p], t)) \in Nat
        /\ Cardinality(StagedIn(pending[p], t)) \in Nat
    BY <2>1, <2>2, FS_Subset, FS_CardinalityType
  <2>4. /\ CountIn(entries[p], PublicOf(t)) \in Nat
        /\ CountIn(events[p], PublicOf(t)) \in Nat
        /\ CountIn(archived[p], PublicOf(t)) \in Nat
    BY CountType DEF TypeOK
  <2> QED
    BY <1>1, <2>3, <2>4 DEF Recorded, TotalOf
<1> QED
  BY <1>1, <1>2, <1>3, NothingAddedInOrder DEF Exists

LEMMA ArchiveInOrder ==
  ASSUME TypeOK, LifecycleInv, NEW p \in ProductId, NEW a \in Address,
         NEW i \in 1..Len(events[p]), ArchiveTrackingEvent(p, a, i)
  PROVE  \A q \in ProductId : RecordsInOrder(q)
<1>1. /\ events[p] \in Seq(Event) /\ events'[p] = WithoutIndex(events[p], i)
      /\ archived[p] \in Seq(Event)
      /\ archived'[p] = Append(archived[p], events[p][i])
      /\ UNCHANGED <<product, pending, entries>>
      /\ \A q \in ProductId : q # p =>
           events'[q] = events[q] /\ archived'[q] = archived[q]
  BY DEF ArchiveTrackingEvent, TypeOK
<1>2. events[p][i] \in Event /\ TypeOK'
  BY <1>1, ElementOfSeq, ArchiveTrackingEventType
<1>3. ASSUME NEW t \in LifecycleTypes
      PROVE  Recorded(p, t)' <= Recorded(p, t)
  <2>1. PICK one \in Nat : one = IF events[p][i] \in PublicOf(t) THEN 1 ELSE 0
    OBVIOUS
  <2>2. CountIn(events[p], PublicOf(t)) = CountIn(events'[p], PublicOf(t)) + one
    BY <1>1, <2>1, CountWithout
  <2>3. CountIn(archived'[p], PublicOf(t)) = CountIn(archived[p], PublicOf(t)) + one
    BY <1>1, <1>2, <2>1, CountAppend
  <2>4. /\ CountIn(events'[p], PublicOf(t)) \in Nat
        /\ CountIn(archived[p], PublicOf(t)) \in Nat
        /\ CountIn(entries[p], PublicOf(t)) \in Nat
        /\ Cardinality(StagedIn(pending[p], t)) \in Nat
    BY <1>1, WithoutIndexType, CountType, TotalType DEF LifecycleInv, TypeOK
  <2> QED
    BY <1>1, <2>1, <2>2, <2>3, <2>4 DEF Recorded, TotalOf
<1> QED
  BY <1>1, <1>2, <1>3, NothingAddedInOrder DEF Exists, LifecycleInv

LEMMA ApproveInOrder ==
  ASSUME TypeOK, LifecycleInv, NEW p \in ProductId, NEW e \in pending[p],
         NEW a \in Address, NEW k \in 0..MaxNonce, ApproveEvent(p, e, a, k)
  PROVE  \A q \in ProductId : RecordsInOrder(q)
<1> DEFINE d == [e EXCEPT !.approvals = Approvals(e, a)]
<1>1. /\ TypeOK' /\ e \in PendingEvent /\ e.event \in Event
      /\ IsFiniteSet(pending[p]) /\ events[p] \in Seq(Event)
      /\ UNCHANGED <<product, entries, archived>>
  <2>1. TypeOK'
    BY ApproveEventType
  <2>2. e \in PendingEvent /\ e.event \in Event
    BY DEF TypeOK, PendingEvent
  <2>3. IsFiniteSet(pending[p]) /\ events[p] \in Seq(Event)
    BY DEF TypeOK, LifecycleInv
  <2> QED
    BY <2>1, <2>2, <2>3 DEF ApproveEvent
<1>2. d.event = e.event
  BY <1>1 DEF PendingEvent
<1> HIDE DEF d
<1>3. /\ \A q \in ProductId : q # p => pending'[q] = pending[q] /\ events'[q] = events[q]
      /\ \/ pending'[p] = pending[p] \ {e} /\ events'[p] = Append(events[p], e.event)
         \/ pending'[p] = (pending[p] \ {e}) \cup {d} /\ events'[p] = events[p]
  <2>1. CASE Finalizes(e, a)
    BY <2>1 DEF ApproveEvent, TypeOK
  <2>2. CASE ~Finalizes(e, a)
    BY <2>2 DEF ApproveEvent, TypeOK, d
  <2> QED
    BY <2>1, <2>2
<1>4. IsFiniteSet(pending[p] \ {e})
  BY <1>1, FS_RemoveElement
<1>5. IsFiniteSet(pending'[p])
  <2>1. IsFiniteSet((pending[p] \ {e}) \cup {d})
    BY <1>4, FS_AddElement
  <2> QED
    BY <1>3, <1>4, <2>1
<1>6. ASSUME NEW t \in LifecycleTypes
      PROVE  Recorded(p, t)' <= Recorded(p, t)
  <2> DEFINE S == StagedIn(pending[p], t)
             T == StagedIn(pending'[p], t)
  <2>0. /\ IsFiniteSet(S) /\ Cardinality(S) \in Nat
        /\ CountIn(entries[p], PublicOf(t)) \in Nat
        /\ CountIn(events[p], PublicOf(t)) \in Nat
        /\ CountIn(archived[p], PublicOf(t)) \in Nat
    BY <1>1, TotalType DEF TypeOK
  <2>1. e \in S <=> e.event \in PublicOf(t)
    BY <1>1 DEF StagedIn, PublicOf
  <2>2. CASE pending'[p] = pending[p] \ {e} /\ events'[p] = Append(events[p], e.event)
    <3>1. T = S \ {e}
      BY <2>2 DEF StagedIn
    <3>2. Cardinality(T) = Cardinality(S) - (IF e.event \in PublicOf(t) THEN 1 ELSE 0)
      <4>1. Cardinality(S \ {e}) = IF e \in S THEN Cardinality(S) - 1 ELSE Cardinality(S)
        BY <2>0, FS_RemoveElement
      <4> HIDE DEF S, T
      <4> QED
        BY <2>0, <2>1, <3>1, <4>1
    <3>3. CountIn(events'[p], PublicOf(t))
            = CountIn(events[p], PublicOf(t)) + (IF e.event \in PublicOf(t) THEN 1 ELSE 0)
      BY <1>1, <2>2, CountAppend
    <3>4. Recorded(p, t)' = Cardinality(T) + CountIn(entries[p], PublicOf(t))
            + CountIn(events'[p], PublicOf(t)) + CountIn(archived[p], PublicOf(t))
      BY <1>1 DEF Recorded, TotalOf
    <3>5. Recorded(p, t) = Cardinality(S) + CountIn(entries[p], PublicOf(t))
            + CountIn(events[p], PublicOf(t)) + CountIn(archived[p], PublicOf(t))
      BY DEF Recorded, TotalOf
    <3> HIDE DEF S, T
    <3> QED
      BY <2>0, <3>2, <3>3, <3>4, <3>5
  <2>3. CASE pending'[p] = (pending[p] \ {e}) \cup {d} /\ events'[p] = events[p]
    <3>1. \/ T = S
          \/ e \in S /\ T = (S \ {e}) \cup {d}
      BY <1>2, <2>3 DEF StagedIn
    <3>2. Cardinality(T) <= Cardinality(S) /\ Cardinality(T) \in Nat
      <4>1. CASE T = S
        BY <2>0, <4>1
      <4>2. CASE e \in S /\ T = (S \ {e}) \cup {d}
        <5>1. IsFiniteSet(S \ {e}) /\ Cardinality(S \ {e}) = Cardinality(S) - 1
          BY <2>0, <4>2, FS_RemoveElement
        <5>2. /\ IsFiniteSet(T)
              /\ Cardinality(T) = IF d \in S \ {e} THEN Cardinality(S \ {e})
                                                   ELSE Cardinality(S \ {e}) + 1
          <6> DEFINE U == S \ {e}
          <6>1. IsFiniteSet(U)
            BY <5>1
          <6> HIDE DEF U
          <6>2. /\ IsFiniteSet(U \cup {d})
                /\ Cardinality(U \cup {d}) = IF d \in U THEN Cardinality(U)
                                                        ELSE Cardinality(U) + 1
            BY <6>1, FS_AddElement
          <6>3. T = U \cup {d}
            BY <4>2 DEF U
          <6> HIDE DEF S, T
          <6> QED
            BY <6>2, <6>3 DEF U
        <5>3. Cardinality(T) \in Nat
          BY <5>2, FS_CardinalityType
        <5> HIDE DEF S, T
        <5> QED
          BY <2>0, <5>1, <5>2, <5>3
      <4> QED
        BY <3>1, <4>1, <4>2
    <3>3. Recorded(p, t)' = Cardinality(T) + CountIn(entries[p], PublicOf(t))
            + CountIn(events[p], PublicOf(t)) + CountIn(archived[p], PublicOf(t))
      BY <1>1, <2>3 DEF Recorded, TotalOf
    <3>4. Recorded(p, t) = Cardinality(S) + CountIn(entries[p], PublicOf(t))
            + CountIn(events[p], PublicOf(t)) + CountIn(archived[p], PublicOf(t))
      BY DEF Recorded, TotalOf
    <3> HIDE DEF S, T
    <3> QED
      BY <2>0, <3>2, <3>3, <3>4
  <2> QED
    BY <1>3, <2>2, <2>3
<1> QED
  BY <1>1, <1>3, <1>5, <1>6, NothingAddedInOrder DEF Exists

\* The handlers of Products and Authorization that register nothing write no
\* store and leave every product in its stage.
LEMMA OthersKeepRecords ==
  ASSUME TypeOK, NEW p \in ProductId, Flags(p) \/ Ownership(p) \/ Actors(p)
  PROVE  \A q \in ProductId : RecordsKept(q)
<1>1. TypeOK'
  BY FlagsType, OwnershipType, ActorsType
<1>2. UNCHANGED <<pending, entries, events, archived>>
  <2>1. CASE Flags(p)
    BY <2>1 DEF Flags, RecallProduct, UnrecallProduct, DeactivateProduct,
                ReactivateProduct, SetFlag, eventVars
  <2>2. CASE Ownership(p)
    BY <2>2 DEF Ownership, TransferOwnership, RequestTransfer, AcceptTransfer,
                CancelTransfer, DisputeTransfer, RotateOwnerKey, eventVars
  <2>3. CASE Actors(p)
    BY <2>3 DEF Actors, AddAuthorizedActor, RemoveAuthorizedActor, RotateActorKey, eventVars
  <2> QED
    BY <2>1, <2>2, <2>3
<1>3. CASE product' = product
  BY <1>2, <1>3 DEF RecordsKept, Exists
<1>4. ASSUME Exists(p), NEW x, product' = [product EXCEPT ![p] = x],
             product[p] \in Product => x \in Product
                                       /\ x.lifecycle_stage = product[p].lifecycle_stage
      PROVE  \A q \in ProductId : RecordsKept(q)
  <2>1. product[p] \in Product
    BY <1>4 DEF TypeOK, Exists
  <2>2. product'[p] = x /\ \A q \in ProductId : q # p => product'[q] = product[q]
    BY <1>4 DEF TypeOK
  <2>3. x # NoProduct /\ x.lifecycle_stage = product[p].lifecycle_stage
    BY <1>4, <2>1, AbsenceAssumption
  <2> QED
    BY <1>2, <1>4, <2>2, <2>3 DEF RecordsKept, Exists
<1>5. CASE Flags(p)
  <2>1. \A q : SetFlag(p, q) => Exists(p) /\ product' = [product EXCEPT ![p] = q]
    BY DEF SetFlag
  <2>2. CASE RecallProduct(p)
    BY <1>4, <2>1, <2>2 DEF RecallProduct, Product
  <2>3. CASE UnrecallProduct(p)
    BY <1>4, <2>1, <2>3 DEF UnrecallProduct, Product
  <2>4. CASE DeactivateProduct(p)
    BY <1>4, <2>1, <2>4 DEF DeactivateProduct, Product
  <2>5. CASE ReactivateProduct(p)
    BY <1>4, <2>1, <2>5 DEF ReactivateProduct, Product
  <2> QED
    BY <1>5, <2>2, <2>3, <2>4, <2>5 DEF Flags
<1>6. ASSUME NEW a \in Address, Exists(p), product' = [product EXCEPT ![p].owner = a]
      PROVE  \A q \in ProductId : RecordsKept(q)
  <2>1. PICK x : x = [product[p] EXCEPT !.owner = a]
    OBVIOUS
  <2>2. product' = [product EXCEPT ![p] = x]
    BY <1>6, <2>1
  <2>3. product[p] \in Product =>
          x \in Product /\ x.lifecycle_stage = product[p].lifecycle_stage
    BY <2>1 DEF Product
  <2> QED
    BY <1>4, <1>6, <2>2, <2>3
<1>7. CASE Ownership(p)
  <2>1. ASSUME NEW a \in Address, RotateOwnerKey(p, a)
        PROVE  \A q \in ProductId : RecordsKept(q)
    BY <1>6, <2>1 DEF RotateOwnerKey
  <2>2. ASSUME NEW a \in Address, NEW k \in 0..MaxNonce, TransferOwnership(p, a, k)
        PROVE  \A q \in ProductId : RecordsKept(q)
    BY <1>6, <2>2 DEF TransferOwnership
  <2>3. CASE AcceptTransfer(p)
    <3>1. escrow[p].proposed_owner \in Address
      BY <2>3 DEF AcceptTransfer, TypeOK, TransferEscrow
    <3> QED
      BY <1>6, <2>3, <3>1 DEF AcceptTransfer
  <2>4. ASSUME NEW a \in Address, RequestTransfer(p, a)
        PROVE  \A q \in ProductId : RecordsKept(q)
    BY <1>3, <2>4 DEF RequestTransfer
  <2>5. CASE CancelTransfer(p) \/ DisputeTransfer(p)
    BY <1>3, <2>5 DEF CancelTransfer, DisputeTransfer
  <2> QED
    BY <1>7, <2>1, <2>2, <2>3, <2>4, <2>5 DEF Ownership
<1>8. CASE Actors(p)
  <2> DEFINE actors == product[p].authorized_actors
  <2>1. ASSUME NEW f \in [Address -> Nat], Exists(p),
               product' = [product EXCEPT ![p].authorized_actors = f]
        PROVE  \A q \in ProductId : RecordsKept(q)
    <3>1. PICK x : x = [product[p] EXCEPT !.authorized_actors = f]
      OBVIOUS
    <3>2. product' = [product EXCEPT ![p] = x]
      BY <2>1, <3>1
    <3>3. product[p] \in Product =>
            x \in Product /\ x.lifecycle_stage = product[p].lifecycle_stage
      BY <3>1 DEF Product
    <3> QED
      BY <1>4, <2>1, <3>2, <3>3
  <2>2. Exists(p) => actors \in [Address -> Nat]
    BY DEF TypeOK, Exists, Product
  <2>3. ASSUME NEW a \in Address, NEW k \in 0..MaxNonce, AddAuthorizedActor(p, a, k)
        PROVE  \A q \in ProductId : RecordsKept(q)
    <3>1. [actors EXCEPT ![a] = actors[a] + 1] \in [Address -> Nat]
      BY <2>2, <2>3 DEF AddAuthorizedActor
    <3> QED
      BY <2>1, <2>3, <3>1 DEF AddAuthorizedActor
  <2>4. ASSUME NEW a \in Address, NEW k \in 0..MaxNonce, RemoveAuthorizedActor(p, a, k)
        PROVE  \A q \in ProductId : RecordsKept(q)
    <3>1. [actors EXCEPT ![a] = 0] \in [Address -> Nat]
      BY <2>2, <2>4 DEF RemoveAuthorizedActor
    <3> QED
      BY <2>1, <2>4, <3>1 DEF RemoveAuthorizedActor
  <2>5. ASSUME NEW a \in Address, NEW b \in Address, RotateActorKey(p, a, b)
        PROVE  \A q \in ProductId : RecordsKept(q)
    <3>1. [actors EXCEPT ![b] = actors[b] + actors[a], ![a] = 0] \in [Address -> Nat]
      BY <2>2, <2>5 DEF RotateActorKey
    <3> QED
      BY <2>1, <2>5, <3>1 DEF RotateActorKey
  <2> QED
    BY <1>8, <2>3, <2>4, <2>5 DEF Actors
<1> QED
  BY <1>5, <1>7, <1>8

\* A registration opens products without events, or writes over products that
\* are counted twice from then on.
LEMMA RegistersInOrder ==
  ASSUME TypeOK, LifecycleInv, NEW ids \in Seq(ProductId), NEW a \in Address, NEW k \in Nat,
         productIndex' = productIndex \o ids,
         product' = [q \in ProductId |->
                       IF \E i \in 1..Len(ids) : ids[i] = q
                       THEN FreshProduct(a, k) ELSE product[q]],
         UNCHANGED <<pending, entries, events, archived>>
  PROVE  LifecycleInv'
<1> SUFFICES ASSUME NEW p \in ProductId
             PROVE  (/\ IsFiniteSet(pending[p])
                     /\ Exists(p) <=> Registrations(p) > 0
                     /\ \A t \in LifecycleTypes :
                          /\ Registrations(p) = 0 => Recorded(p, t) = 0
                          /\ Registrations(p) = 1 =>
                               Recorded(p, t) <=
                                 (IF t <= product[p].lifecycle_stage THEN 1 ELSE 0))'
  BY DEF LifecycleInv
<1> DEFINE more == CountIn(ids, {p})
           old == CountIn(productIndex, {p})
<1>1. /\ Registrations(p)' = old + more /\ Registrations(p) = old
      /\ more \in Nat /\ old \in Nat
  <2>1. productIndex \in Seq(ProductId)
    BY DEF TypeOK
  <2> QED
    BY <2>1, CountConcat, CountType DEF Registrations
<1>2. more > 0 <=> \E i \in 1..Len(ids) : ids[i] = p
  <2>1. IsFiniteSet(Places(ids, {p}))
    BY CountType
  <2>2. more = 0 <=> Places(ids, {p}) = {}
    BY <2>1, FS_EmptySet DEF CountIn
  <2>3. Places(ids, {p}) # {} <=> \E i \in 1..Len(ids) : ids[i] = p
    BY DEF Places
  <2> HIDE DEF more
  <2>4. more > 0 <=> ~(more = 0)
    BY <1>1
  <2> QED
    BY <2>2, <2>3, <2>4, Zenon
<1>3. \A t : Recorded(p, t)' = Recorded(p, t)
  BY DEF Recorded
<1>4. /\ IsFiniteSet(pending[p])
      /\ Exists(p) <=> old > 0
      /\ \A t \in LifecycleTypes :
           /\ old = 0 => Recorded(p, t) = 0
           /\ old = 1 => Recorded(p, t) <= (IF t <= product[p].lifecycle_stage THEN 1 ELSE 0)
  BY <1>1 DEF LifecycleInv
<1> HIDE DEF more, old
<1>5. CASE more = 0
  <2>1. product'[p] = product[p]
    BY <1>2, <1>5
  <2> QED
    BY <1>1, <1>3, <1>4, <1>5, <2>1 DEF Exists
<1>6. CASE more > 0
  <2>1. product'[p] = FreshProduct(a, k)
    BY <1>2, <1>6
  <2>2. product'[p] # NoProduct
    BY <2>1, FreshProductType, AbsenceAssumption
  <2>3. Registrations(p)' > 0 /\ (Registrations(p)' = 1 => old = 0)
    BY <1>1, <1>6
  <2>4. ASSUME NEW t \in LifecycleTypes, Registrations(p)' = 1
        PROVE  Recorded(p, t)' <= (IF t <= product'[p].lifecycle_stage THEN 1 ELSE 0)
    BY <1>3, <1>4, <2>3, <2>4
  <2> QED
    BY <1>4, <2>2, <2>3, <2>4 DEF Exists
<1> QED
  BY <1>1, <1>5, <1>6

LEMMA RegistrationKeepsLifecycle ==
  ASSUME TypeOK, LifecycleInv, Registration
  PROVE  LifecycleInv'
<1>1. ASSUME NEW p \in ProductId, NEW a \in Address, NEW k \in Signatures,
             RegisterProduct(p, a, k)
      PROVE  LifecycleInv'
  <2>1. <<p>> \in Seq(ProductId) /\ k \in Nat
    BY SingletonType, SignaturesAssumption
  <2>2. productIndex' = productIndex \o <<p>>
    BY <1>1, AppendIsConcat DEF RegisterProduct, TypeOK
  <2>3. product' = [q \in ProductId |->
                      IF \E i \in 1..Len(<<p>>) : <<p>>[i] = q
                      THEN FreshProduct(a, k) ELSE product[q]]
    <3>1. \A q : (\E i \in 1..Len(<<p>>) : <<p>>[i] = q) <=> q = p
      OBVIOUS
    <3>2. product' = [q \in ProductId |-> IF q = p THEN FreshProduct(a, k) ELSE product[q]]
      BY <1>1 DEF RegisterProduct, TypeOK
    <3> QED
      BY <3>1, <3>2
  <2>4. UNCHANGED <<pending, entries, events, archived>>
    BY <1>1 DEF RegisterProduct, eventVars
  <2> QED
    BY <2>1, <2>2, <2>3, <2>4, RegistersInOrder
<1>2. ASSUME NEW a \in Address, NEW ids \in Batches(ProductId),
             RegisterProductsBatch(a, ids)
      PROVE  LifecycleInv'
  BY <1>2, BatchType, RegistersInOrder DEF RegisterProductsBatch, eventVars
<1> QED
  BY <1>1, <1>2 DEF Registration

LEMMA StepLifecycle ==
  ASSUME TypeOK, LifecycleInv, [Next]_vars
  PROVE  LifecycleInv'
<1>1. TypeOK'
  BY StepTypeOK
<1>2. CASE Registration
  BY <1>2, RegistrationKeepsLifecycle
<1>3. ASSUME \A q \in ProductId : RecordsKept(q), productIndex' = productIndex
      PROVE  LifecycleInv'
  BY <1>1, <1>3, KeptInOrder, InOrderKeepsLifecycle
<1>4. ASSUME NEW p \in ProductId, Flags(p) \/ Ownership(p) \/ Actors(p)
      PROVE  LifecycleInv'
  <2>1. productIndex' = productIndex
    BY <1>4 DEF Flags, RecallProduct, UnrecallProduct, DeactivateProduct, ReactivateProduct,
                SetFlag, Ownership, TransferOwnership, RequestTransfer, AcceptTransfer,
                CancelTransfer, DisputeTransfer, RotateOwnerKey, Actors,
                AddAuthorizedActor, RemoveAuthorizedActor, RotateActorKey
  <2> QED
    BY <1>3, <1>4, <2>1, OthersKeepRecords
<1>5. CASE Pausing \/ Tick \/ UNCHANGED vars
  <2>1. UNCHANGED <<product, productIndex, pending, entries, events, archived>>
    BY <1>5 DEF Pausing, SetPauseState, Tick, vars, eventVars
  <2> QED
    BY <1>3, <2>1 DEF RecordsKept, Exists
<1>6. ASSUME NEW p \in ProductId, MarkSpoiled(p)
      PROVE  LifecycleInv'
  BY <1>1, <1>6, MarkSpoiledInOrder, InOrderKeepsLifecycle DEF MarkSpoiled
<1>7. ASSUME NEW p \in ProductId, Recording(p)
      PROVE  LifecycleInv'
  <2>1. productIndex' = productIndex
    BY <1>7 DEF Recording, AddTrackingEvents, AddPrivateTrackingEvent
  <2> QED
    BY <1>1, <1>7, <2>1, AddTrackingInOrder, AddPrivateInOrder, InOrderKeepsLifecycle
       DEF Recording
<1>8. ASSUME NEW p \in ProductId, Approval(p)
      PROVE  LifecycleInv'
  <2>1. productIndex' = productIndex
    BY <1>8 DEF Approval, ApproveEvent, CleanupExpiredEvents
  <2> QED
    BY <1>1, <1>8, <2>1, ApproveInOrder, CleanupInOrder, InOrderKeepsLifecycle DEF Approval
<1>9. ASSUME NEW p \in ProductId, Archival(p)
      PROVE  LifecycleInv'
  <2>1. productIndex' = productIndex
    BY <1>9 DEF Archival, ArchiveTrackingEvent
  <2> QED
    BY <1>1, <1>9, <2>1, ArchiveInOrder, InOrderKeepsLifecycle DEF Archival
<1> QED
  BY <1>2, <1>4, <1>5, <1>6, <1>7, <1>8, <1>9 DEF Next

\* In one registration no lifecycle stage is recorded twice, over the approval
\* queue, both stores and the archive together, and none before the product
\* has reached it.
THEOREM LifecycleOnce == Spec => []LifecycleRecordedOnce
<1>1. Init => LifecycleInv
  <2> SUFFICES ASSUME Init, NEW p \in ProductId
               PROVE  /\ IsFiniteSet(pending[p])
                      /\ ~Exists(p)
                      /\ Registrations(p) = 0
                      /\ \A t \in LifecycleTypes : Recorded(p, t) = 0
    BY DEF LifecycleInv
  <2>1. /\ pending[p] = {} /\ ~Exists(p) /\ productIndex = <<>>
        /\ entries[p] = <<>> /\ events[p] = <<>> /\ archived[p] = <<>>
    BY DEF Init, Exists
  <2>2. \A t : StagedIn({}, t) = {}
    BY DEF StagedIn
  <2>3. Registrations(p) = 0
    BY <2>1, CountEmpty DEF Registrations
  <2>4. ASSUME NEW t \in LifecycleTypes
        PROVE  Recorded(p, t) = 0
    <3>1. Recorded(p, t) = 0 + 0 + 0 + 0
      BY <2>1, <2>2, CountEmpty, FS_EmptySet DEF Recorded, TotalOf
    <3> QED
      BY <3>1
  <2> QED
    BY <2>1, <2>3, <2>4, FS_EmptySet
<1>2. TypeOK /\ LifecycleInv /\ [Next]_vars => LifecycleInv'
  BY StepLifecycle
<1> QED
  BY <1>1, <1>2, TypeCorrect, LifecycleCovers, PTL DEF Spec
=============================================================================
