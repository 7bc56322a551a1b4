----------------------------- MODULE WebhookProofs -----------------------------
(***************************************************************************)
(* What webhook delivery and registration promise, for any number of       *)
(* webhooks, subscriptions, events, overlapping ticks and administrators.  *)
(***************************************************************************)
EXTENDS Webhooks, TLAPS

-----------------------------------------------------------------------------
(* The states of the processes *)

TickAt == {"idle", "lock?", "claim?", "claim!", "failing", "disable?", "disable!", "active",
           "match", "fetch", "broadcast", "stamp?", "stamp!", "lock!", "due", "retry"}
TickRecord == [at : TickAt, event : AnyEvent \cup {NoEvent}, todo : SUBSET (Webhook \cup Attempt),
               copy : HookRecord \cup SubRecord \cup {Gone}, subs : SUBSET Subscription]

\* What a tick holds where it is.
Fits(r) ==
  /\ r.at \in {"claim?", "claim!", "failing", "disable?", "disable!", "active", "match",
               "fetch", "broadcast"} => r.event \in AnyEvent
  /\ r.at \in {"disable?", "disable!", "fetch"} => r.todo \subseteq Webhook
  /\ r.at \in {"disable?", "disable!"} => r.todo # {}
  /\ r.at = "disable!" => r.copy \in HookRecord
  /\ r.at = "stamp!" => r.copy \in SubRecord /\ r.subs # {}
  /\ r.at = "retry" => r.todo \subseteq Attempt
TickState == {r \in TickRecord : Fits(r)}

SendState ==
  {Quiet}
  \cup [at : {"sent"}, payload : Payload, n : 1..MaxAttempts]
  \cup [at : {"list?"}, payload : Payload, n : 1..MaxAttempts, ok : {"pending", "failed"}]
  \cup [at : {"list!"}, payload : Payload, n : 1..MaxAttempts, ok : {"pending", "failed"},
        list : SUBSET Attempt]
  \cup [at : {"count"}, payload : Payload, n : 1..MaxAttempts, ok : Status]
  \cup [at : {"merge"}, payload : Payload, n : 1..MaxAttempts, failures : 0..MaxFailures]
  \cup [at : {"write"}, payload : Payload, n : 1..MaxAttempts, copy : HookRecord]

\* What a request goes on with once a list is written.
Follow == {NoRequest} \cup [at : {"orphans"}, hook : Webhook]
                      \cup [at : {"sweep"}, todo : SUBSET Subscription]
RequestState ==
  Follow
  \cup [at : {"list?"}, list : {"hooks"}, how : {"add", "remove"}, value : Webhook, then : Follow]
  \cup [at : {"list?"}, list : {"subs"}, how : {"add", "remove"}, value : Subscription,
        then : Follow]
  \cup [at : {"list!"}, list : {"hooks"}, then : Follow, value : Webhook, copy : SUBSET Webhook]
  \cup [at : {"list!"}, list : {"subs"}, then : Follow, value : Subscription,
        copy : SUBSET Subscription]
  \cup [at : {"create"}, hook : Webhook]
  \cup [at : {"patch"}, hook : Webhook, copy : HookRecord]
  \cup [at : {"del"}, hook : Webhook]
  \cup [at : {"subscribe"}, hook : Webhook, sub : Subscription, wants : Filter]
  \cup [at : {"repatch"}, sub : Subscription, copy : SubRecord]

HistoryTyped == owed \subseteq Attempt /\ refused \subseteq Attempt

\* A delivery is under way only while its tick waits for it.
SendingAwaited == \A t \in Tick : tick[t].at \notin {"broadcast", "retry"} =>
                    \A w \in Webhook : send[t][w] = Quiet

\* Attempts that are owed can be repeated, and a retry repeats one of them.
OwedGoesOn ==
  /\ \A k \in owed : k.n < MaxAttempts
  /\ pending \subseteq owed
  /\ \A t \in Tick : tick[t].at = "retry" => tick[t].todo \subseteq owed

\* What a delivery is about to add to the pending list was owed.
ListsOwed == \A t \in Tick, w \in Webhook :
  LET d == send[t][w] IN
  d.at \in {"list?", "list!"} /\ d.ok = "pending" =>
    /\ AttemptKey(w, d.payload, d.n) \in owed
    /\ d.at = "list!" => d.list \subseteq owed

ProcessesTyped ==
  /\ tick \in [Tick -> TickState]
  /\ send \in [Tick -> [Webhook -> SendState]]
  /\ request \in [Admin -> RequestState]

Shapes == TypeOK /\ ProcessesTyped /\ HistoryTyped /\ SendingAwaited /\ OwedGoesOn /\ ListsOwed

\* A delivery is putting attempt k on the list of its status.
Recording(k, status) == \E t \in Tick :
  LET d == send[t][k.hook] IN
  /\ d.at \in {"list?", "list!"}
  /\ d.payload = k.payload /\ d.n = k.n /\ d.ok = status
WellKept ==
  /\ \A k \in owed : k \in pending \cup dropped \cup abandoned \/ Recording(k, "pending")
  /\ \A k \in refused : k \in dead \cup dropped \cup abandoned \/ Recording(k, "failed")
  /\ \A t \in Tick, w \in Webhook : send[t][w].at = "list!" =>
       AttemptKey(w, send[t][w].payload, send[t][w].n) \in send[t][w].list

\* Ids a request is about to list; ids that were listed once or are about to be.
BeingAdded(list) ==
  {request[a].value : a \in {b \in Admin : /\ request[b].at \in {"list?", "list!"}
                                           /\ request[b].then = NoRequest
                                           /\ request[b].list = list}}
KnownHooks == hookList \cup deleted \cup forgotten \cup BeingAdded("hooks")
KnownSubs == subList \cup deleted \cup forgotten \cup BeingAdded("subs")

\* What a request writes is known, and what it takes off a list is deleted.
Writes(r, webhooks, subscriptions, gone) ==
  /\ r.at \in {"patch", "del"} => r.hook \in webhooks
  /\ r.at = "repatch" => r.sub \in subscriptions
  /\ r.at = "list?" => (r.then = NoRequest <=> r.how = "add")
  /\ r.at \in {"list?", "list!"} /\ r.then # NoRequest => r.value \in gone
  /\ r.at = "list!" /\ r.then = NoRequest => r.value \in r.copy

RecordsKnown == /\ \A w \in Webhook : Present(w) => w \in KnownHooks
                /\ \A s \in Subscription : subs[s] # Gone => s \in KnownSubs
RequestsKnown == \A a \in Admin : Writes(request[a], KnownHooks, KnownSubs, deleted)
TicksKnown == \A t \in Tick :
  /\ tick[t].at = "disable!" => (CHOOSE x \in tick[t].todo : TRUE) \in KnownHooks
  /\ tick[t].at = "stamp!" => (CHOOSE x \in tick[t].subs : TRUE) \in KnownSubs
SendsKnown == \A t \in Tick, w \in Webhook : send[t][w].at = "write" => w \in KnownHooks

ListedOrDeleted == RecordsKnown /\ RequestsKnown /\ TicksKnown /\ SendsKnown

-----------------------------------------------------------------------------
(* The shapes are kept *)

LEMMA ShapesStart == Init => Shapes
<1> SUFFICES ASSUME Init PROVE Shapes
  OBVIOUS
<1> USE DEF Init, DeliveryInit, RegistryInit
<1>1. FreshHook \in HookRecord
  BY TickAssumption DEF FreshHook, HookRecord
<1>2. TypeOK
  BY <1>1 DEF TypeOK, AnyEvent
<1>3. Resting \in TickState
  <2>1. Resting \in TickRecord
    BY DEF Resting, TickRecord, TickAt
  <2> QED
    BY <2>1 DEF Resting, Fits, TickState
<1>4. Quiet \in SendState /\ NoRequest \in RequestState
  BY DEF SendState, RequestState, Follow
<1>5. ProcessesTyped
  BY <1>3, <1>4 DEF ProcessesTyped
<1>6. HistoryTyped /\ SendingAwaited /\ OwedGoesOn
  BY DEF HistoryTyped, SendingAwaited, OwedGoesOn, Resting
<1>7. ListsOwed
  BY DEF ListsOwed, Quiet
<1> QED
  BY <1>2, <1>5, <1>6, <1>7 DEF Shapes

\* A step of one tick that leaves the deliveries alone.
LEMMA TickMoves ==
  ASSUME Shapes, NEW t \in Tick, NEW next \in TickState,
         tick' = [tick EXCEPT ![t] = next],
         next.at \notin {"broadcast", "retry"} => \A w \in Webhook : send[t][w] = Quiet,
         next.at = "retry" => next.todo \subseteq owed,
         UNCHANGED <<request, send, pending, owed, refused>>
  PROVE  ProcessesTyped' /\ HistoryTyped' /\ SendingAwaited' /\ OwedGoesOn' /\ ListsOwed'
<1> USE DEF Shapes
<1>1. ProcessesTyped'
  BY DEF ProcessesTyped
<1>2. HistoryTyped'
  BY DEF HistoryTyped
<1>3. SendingAwaited'
  BY DEF SendingAwaited, ProcessesTyped
<1>4. OwedGoesOn'
  BY DEF OwedGoesOn, ProcessesTyped
<1>5. ListsOwed'
  BY DEF ListsOwed
<1> QED
  BY <1>1, <1>2, <1>3, <1>4, <1>5

\* A step of one delivery.
LEMMA SendMoves ==
  ASSUME Shapes, NEW t \in Tick, NEW w \in Webhook, NEW next \in SendState,
         send[t][w] # Quiet,
         send' = [send EXCEPT ![t][w] = next],
         owed \subseteq owed', HistoryTyped', pending' \subseteq owed',
         \A k \in owed' : k.n < MaxAttempts,
         next.at \in {"list?", "list!"} /\ next.ok = "pending" =>
           /\ AttemptKey(w, next.payload, next.n) \in owed'
           /\ next.at = "list!" => next.list \subseteq owed',
         UNCHANGED <<tick, request>>
  PROVE  ProcessesTyped' /\ SendingAwaited' /\ OwedGoesOn' /\ ListsOwed'
<1> USE DEF Shapes
<1>1. ProcessesTyped'
  BY DEF ProcessesTyped
<1>2. SendingAwaited'
  BY DEF SendingAwaited, ProcessesTyped
<1>3. OwedGoesOn'
  BY DEF OwedGoesOn
<1>4. ListsOwed'
  BY DEF ListsOwed, ProcessesTyped
<1> QED
  BY <1>1, <1>2, <1>3, <1>4

\* What the registry does leaves deliveries and ticks alone.
LEMMA RequestMoves ==
  ASSUME Shapes, NEW a \in Admin, NEW next \in RequestState,
         request' = [request EXCEPT ![a] = next],
         UNCHANGED deliveryVars
  PROVE  ProcessesTyped' /\ HistoryTyped' /\ SendingAwaited' /\ OwedGoesOn' /\ ListsOwed'
<1> USE DEF Shapes, deliveryVars, records, claims, history
<1>1. ProcessesTyped'
  BY DEF ProcessesTyped
<1>2. HistoryTyped' /\ SendingAwaited' /\ OwedGoesOn'
  BY DEF HistoryTyped, SendingAwaited, OwedGoesOn
<1>3. ListsOwed'
  BY DEF ListsOwed
<1> QED
  BY <1>1, <1>2, <1>3

\* The state a tick goes on to is a tick's.
LEMMA MovedTick ==
  ASSUME NEW r \in TickState, NEW at \in TickAt, NEW left \in SUBSET (Webhook \cup Attempt),
         at \in {"claim?", "claim!", "failing", "disable?", "disable!", "active", "match",
                 "fetch", "broadcast"} => r.event \in AnyEvent,
         at \in {"disable?", "disable!", "fetch"} => left \subseteq Webhook,
         at \in {"disable?", "disable!"} => left # {},
         at = "disable!" => r.copy \in HookRecord,
         at = "stamp!" => r.copy \in SubRecord /\ r.subs # {},
         at = "retry" => left \subseteq Attempt
  PROVE  [r EXCEPT !.at = at, !.todo = left] \in TickState
<1> DEFINE next == [r EXCEPT !.at = at, !.todo = left]
<1>1. r \in TickRecord
  BY DEF TickState
<1>2. next \in TickRecord
  BY <1>1 DEF TickRecord
<1>3. next.at = at /\ next.todo = left /\ next.event = r.event /\ next.copy = r.copy
      /\ next.subs = r.subs
  BY <1>1 DEF TickRecord
<1>4. Fits(next)
  BY <1>3 DEF Fits
<1> QED
  BY <1>2, <1>4 DEF TickState

LEMMA RestingTick == Resting \in TickState /\ Resting.at = "idle"
<1>1. Resting \in TickRecord
  BY DEF Resting, TickRecord, TickAt
<1> QED
  BY <1>1 DEF Resting, Fits, TickState

\* A tick that only goes on to another point.
LEMMA GoesTo ==
  ASSUME Shapes, NEW t \in Tick, NEW at \in TickAt,
         at \notin {"disable?", "disable!", "fetch", "broadcast", "retry", "stamp!"},
         at \in {"claim!", "claim?", "failing", "active", "match"} => tick[t].event \in AnyEvent,
         \A w \in Webhook : send[t][w] = Quiet,
         GoTo(t, at),
         UNCHANGED <<request, send, pending, owed, refused>>
  PROVE  ProcessesTyped' /\ HistoryTyped' /\ SendingAwaited' /\ OwedGoesOn' /\ ListsOwed'
<1>1. tick \in [Tick -> TickState]
  BY DEF Shapes, ProcessesTyped
<1>2. tick[t] \in TickState /\ tick[t] \in TickRecord
  BY <1>1 DEF TickState
<1>3. [tick[t] EXCEPT !.at = at] = [tick[t] EXCEPT !.at = at, !.todo = tick[t].todo]
  BY <1>2 DEF TickRecord
<1>4. tick[t].todo \in SUBSET (Webhook \cup Attempt)
  BY <1>2 DEF TickRecord
<1>5. [tick[t] EXCEPT !.at = at] \in TickState
  BY <1>2, <1>3, <1>4, MovedTick
<1>6. tick' = [tick EXCEPT ![t] = [tick[t] EXCEPT !.at = at]]
  BY <1>1 DEF GoTo
<1>7. [tick[t] EXCEPT !.at = at].at = at
  BY <1>2 DEF TickRecord
<1> QED
  BY <1>5, <1>6, <1>7, TickMoves

\* The steps of a tick that change nothing but its point and the claims.
LEMMA ClaimsTyped ==
  ASSUME Shapes, NEW t \in Tick, UNCHANGED registryVars,
         \/ LookForClaim(t) \/ Claim(t) \/ LookForLock(t) \/ Lock(t) \/ BroadcastDone(t)
         \/ Finish(t)
  PROVE  Shapes'
<1> USE DEF storeVars, records, claims, history, registryVars
<1>1. tick[t] \in TickState /\ tick[t] \in TickRecord /\ Fits(tick[t])
  BY DEF Shapes, ProcessesTyped, TickState
<1>2. \A w \in Webhook : send[t][w] = Quiet
  BY DEF Shapes, SendingAwaited, LookForClaim, Claim, LookForLock, Lock, BroadcastDone, Finish, Sending
<1>3. TypeOK'
  <2>1. seen' \subseteq AnyEvent /\ lock' \in BOOLEAN
    BY <1>1 DEF Shapes, TypeOK, LookForClaim, Claim, LookForLock, Lock, BroadcastDone, Finish, Fits
  <2>2. UNCHANGED <<storeVars, records>>
    BY DEF LookForClaim, Claim, LookForLock, Lock, BroadcastDone, Finish
  <2> QED
    BY <2>1, <2>2 DEF Shapes, TypeOK
<1>4. UNCHANGED <<request, send, pending, owed, refused>>
  BY DEF LookForClaim, Claim, LookForLock, Lock, BroadcastDone, Finish
<1> DEFINE Goes ==
      \/ \E at \in {"lock?", "claim!", "failing", "lock!", "due", "stamp?"} :
           GoTo(t, at) /\ (at \in {"claim!", "failing"} => tick[t].event \in AnyEvent)
      \/ tick' = [tick EXCEPT ![t] = Resting]
<1>5. Goes
  <2>1. ASSUME LookForClaim(t) \/ Claim(t) PROVE Goes
    BY <2>1, <1>1 DEF LookForClaim, Claim, Fits
  <2>2. ASSUME LookForLock(t) \/ Lock(t) PROVE Goes
    BY <2>2 DEF LookForLock, Lock
  <2>3. ASSUME BroadcastDone(t) PROVE Goes
    <3>1. tick[t].event \in AnyEvent
      BY <1>1, <2>3 DEF BroadcastDone, Fits
    <3>2. CASE tick[t].event \in Event
      BY <2>3, <3>2 DEF BroadcastDone
    <3> QED
      BY <2>3, <3>1 DEF BroadcastDone, AnyEvent
  <2> QED
    BY <2>1, <2>2, <2>3 DEF Finish
<1> QED
  BY <1>2, <1>3, <1>4, <1>5, GoesTo, TickMoves, RestingTick DEF Shapes, TickAt

\* The steps that look for webhooks to switch off or to send to.
LEMMA ReceiversTyped ==
  ASSUME Shapes, NEW t \in Tick, UNCHANGED registryVars,
         FindFailing(t) \/ ReadFailing(t) \/ Disable(t) \/ FindActive(t) \/ MatchSubscriptions(t)
  PROVE  Shapes'
<1> USE DEF storeVars, records, claims, history, registryVars
<1>1. tick[t] \in TickState /\ tick[t] \in TickRecord /\ Fits(tick[t])
  BY DEF Shapes, ProcessesTyped, TickState
<1>2. \A w \in Webhook : send[t][w] = Quiet
  BY DEF Shapes, SendingAwaited, FindFailing, ReadFailing, Disable, FindActive, MatchSubscriptions
<1>3. tick \in [Tick -> TickState] /\ TypeOK
  BY DEF Shapes, ProcessesTyped
<1>4. UNCHANGED <<request, send, pending, owed, refused>>
  BY DEF FindFailing, ReadFailing, Disable, FindActive, MatchSubscriptions
<1> DEFINE w == CHOOSE x \in tick[t].todo : TRUE
           next(at, left) == [tick[t] EXCEPT !.at = at, !.todo = left]
<1>5. ASSUME NEW at \in TickAt, NEW left \in SUBSET Webhook, at \in {"disable?", "active", "fetch"},
             tick[t].event \in AnyEvent, at = "disable?" => left # {},
             tick' = [tick EXCEPT ![t] = next(at, left)], TypeOK'
      PROVE  Shapes'
  <2>1. next(at, left) \in TickState
    BY <1>1, <1>5, MovedTick
  <2>2. next(at, left).at = at
    BY <1>1 DEF TickRecord
  <2> QED
    BY <1>2, <1>4, <1>5, <2>1, <2>2, TickMoves DEF Shapes
<1>6. ASSUME NEW at \in TickAt, NEW left \in SUBSET Webhook, at \in {"disable?", "active"},
             tick[t].event \in AnyEvent, at = "disable?" => left # {},
             tick' = [tick EXCEPT ![t] = [next(at, left) EXCEPT !.copy = Gone]], TypeOK'
      PROVE  Shapes'
  <2> DEFINE last == [next(at, left) EXCEPT !.copy = Gone]
  <2>1. next(at, left) \in TickState
    BY <1>1, <1>6, MovedTick
  <2>2. next(at, left) \in TickRecord
    BY <2>1 DEF TickState
  <2>3. last \in TickRecord /\ last.at = at /\ last.todo = left /\ last.event = tick[t].event
    BY <1>1, <2>2 DEF TickRecord
  <2>4. Fits(last)
    BY <1>6, <2>3 DEF Fits
  <2>5. last \in TickState
    BY <2>3, <2>4 DEF TickState
  <2> HIDE DEF last
  <2> QED
    BY <1>2, <1>4, <1>6, <2>3, <2>5, TickMoves DEF Shapes, last
<1>7. CASE FindFailing(t)
  <2> DEFINE failing == FailedOf(hookList, Threshold)
  <2>1. failing \subseteq Webhook /\ tick[t].event \in AnyEvent
    BY <1>1, <1>3, <1>7 DEF FindFailing, FailedOf, ActiveOf, Found, TypeOK, Fits
  <2>2. tick' = [tick EXCEPT ![t] = next(IF failing = {} THEN "active" ELSE "disable?", failing)]
    BY <1>3, <1>7 DEF FindFailing, GoToWith
  <2>3. TypeOK'
    BY <1>3, <1>7 DEF FindFailing, TypeOK
  <2> HIDE DEF next, failing
  <2> QED
    BY <1>5, <2>1, <2>2, <2>3 DEF TickAt
<1>8. CASE ReadFailing(t)
  <2>1. w \in tick[t].todo /\ tick[t].todo \subseteq Webhook /\ tick[t].event \in AnyEvent
    BY <1>1, <1>8 DEF ReadFailing, Fits
  <2>2. TypeOK'
    BY <1>3, <1>8 DEF ReadFailing, TypeOK
  <2>3. CASE ~Present(w)
    <3> DEFINE left == tick[t].todo \ {w}
    <3> PICK at \in TickAt : at = IF left = {} THEN "active" ELSE "disable?"
      BY DEF TickAt
    <3>1. Disabled(tick[t], w) = [next(at, left) EXCEPT !.copy = Gone]
      BY <1>1, <2>1 DEF Disabled, TickRecord
    <3>2. tick' = [tick EXCEPT ![t] = Disabled(tick[t], w)]
      BY <1>3, <1>8, <2>3 DEF ReadFailing
    <3>3. left \in SUBSET Webhook /\ at \in {"disable?", "active"} /\ (at = "disable?" => left # {})
      BY <2>1
    <3>4. tick' = [tick EXCEPT ![t] = [next(at, left) EXCEPT !.copy = Gone]]
      BY <3>1, <3>2
    <3> HIDE DEF left, next
    <3> QED
      BY <1>6, <2>1, <2>2, <3>3, <3>4
  <2>4. CASE Present(w)
    <3> DEFINE last == [tick[t] EXCEPT !.at = "disable!", !.copy = hooks[w]]
    <3>1. hooks[w] \in HookRecord
      BY <1>3, <2>1, <2>4 DEF TypeOK, Present
    <3>2. last \in TickRecord /\ last.at = "disable!" /\ last.todo = tick[t].todo
          /\ last.copy = hooks[w] /\ last.event = tick[t].event
      BY <1>1, <3>1 DEF TickRecord, TickAt
    <3>3. last \in TickState
      BY <2>1, <3>1, <3>2 DEF TickState, Fits
    <3>4. tick' = [tick EXCEPT ![t] = last]
      BY <1>3, <1>8, <2>4 DEF ReadFailing
    <3> QED
      BY <1>2, <1>4, <2>2, <3>2, <3>3, <3>4, TickMoves DEF Shapes
  <2> QED
    BY <2>3, <2>4
<1>9. CASE Disable(t)
  <2>1. w \in tick[t].todo /\ tick[t].todo \subseteq Webhook /\ tick[t].event \in AnyEvent
        /\ tick[t].copy \in HookRecord
    BY <1>1, <1>9 DEF Disable, Fits
  <2>2. [tick[t].copy EXCEPT !.active = FALSE] \in HookRecord
    BY <2>1 DEF HookRecord
  <2>3. hooks' \in [Webhook -> HookRecord \cup {Gone}]
    BY <1>3, <1>9, <2>1, <2>2 DEF Disable, SetHook, TypeOK
  <2>4. TypeOK'
    BY <1>3, <1>9, <2>3 DEF Disable, TypeOK
  <2> DEFINE left == tick[t].todo \ {w}
  <2> PICK at \in TickAt : at = IF left = {} THEN "active" ELSE "disable?"
    BY DEF TickAt
  <2>5. Disabled(tick[t], w) = [next(at, left) EXCEPT !.copy = Gone]
    BY <1>1, <2>1 DEF Disabled, TickRecord
  <2>6. tick' = [tick EXCEPT ![t] = Disabled(tick[t], w)]
    BY <1>3, <1>9 DEF Disable
  <2>7. left \in SUBSET Webhook /\ at \in {"disable?", "active"} /\ (at = "disable?" => left # {})
    BY <2>1
  <2>8. tick' = [tick EXCEPT ![t] = [next(at, left) EXCEPT !.copy = Gone]]
    BY <2>5, <2>6
  <2> HIDE DEF left, next
  <2> QED
    BY <1>6, <2>1, <2>4, <2>7, <2>8
<1>10. CASE FindActive(t)
  <2>1. hookList \subseteq Webhook /\ tick[t].event \in AnyEvent
    BY <1>1, <1>3, <1>10 DEF FindActive, TypeOK, Fits
  <2>2. tick' = [tick EXCEPT ![t] = next("fetch", hookList)]
    BY <1>3, <1>10 DEF FindActive, GoToWith
  <2>3. TypeOK'
    BY <1>3, <1>10 DEF FindActive, TypeOK
  <2> HIDE DEF next
  <2> QED
    BY <1>5, <2>1, <2>2, <2>3 DEF TickAt
<1>11. CASE MatchSubscriptions(t)
  <2> DEFINE matching == Matching(subList, tick[t].event)
             last == [tick[t] EXCEPT !.at = "fetch", !.subs = matching,
                                     !.todo = {subs[s].webhook : s \in matching}]
  <2>1. tick[t].event \in AnyEvent
    BY <1>1, <1>11 DEF MatchSubscriptions, Fits
  <2>2. TypeOK'
    BY <1>3, <1>11 DEF MatchSubscriptions, TypeOK
  <2>3. matching \subseteq Subscription /\ \A s \in matching : subs[s] \in SubRecord
    BY <1>3 DEF Matching, TypeOK
  <2>4. {subs[s].webhook : s \in matching} \subseteq Webhook
    BY <2>3 DEF SubRecord
  <2>5. last \in TickRecord /\ last.at = "fetch" /\ last.event = tick[t].event
        /\ last.todo = {subs[s].webhook : s \in matching}
    BY <1>1, <2>3, <2>4 DEF TickRecord, TickAt
  <2>6. last \in TickState
    BY <2>1, <2>4, <2>5 DEF TickState, Fits
  <2>7. tick' = [tick EXCEPT ![t] = last] \/ tick' = [tick EXCEPT ![t] = Resting]
    BY <1>3, <1>11 DEF MatchSubscriptions
  <2> HIDE DEF last
  <2> QED
    BY <1>2, <1>4, <2>2, <2>5, <2>6, <2>7, TickMoves, RestingTick DEF Shapes
<1> QED
  BY <1>7, <1>8, <1>9, <1>10, <1>11

\* The steps that stamp the subscriptions an event matched.
LEMMA StampsTyped ==
  ASSUME Shapes, NEW t \in Tick, UNCHANGED registryVars,
         ReadSubscription(t) \/ StampSubscription(t)
  PROVE  Shapes'
<1> USE DEF storeVars, records, claims, history, registryVars
<1>1. tick[t] \in TickState /\ tick[t] \in TickRecord /\ Fits(tick[t])
  BY DEF Shapes, ProcessesTyped, TickState
<1>2. \A w \in Webhook : send[t][w] = Quiet
  BY DEF Shapes, SendingAwaited, ReadSubscription, StampSubscription
<1>3. tick \in [Tick -> TickState] /\ TypeOK
  BY DEF Shapes, ProcessesTyped
<1>4. UNCHANGED <<request, send, pending, owed, refused>>
  BY DEF ReadSubscription, StampSubscription
<1> DEFINE s == CHOOSE x \in tick[t].subs : TRUE
<1>5. ASSUME NEW next \in TickRecord, tick' = [tick EXCEPT ![t] = next], TypeOK',
             next.at \in {"stamp?", "stamp!"},
             next.at = "stamp!" => next.copy \in SubRecord /\ next.subs # {}
      PROVE  Shapes'
  <2>1. next \in TickState
    BY <1>5 DEF TickState, Fits
  <2> QED
    BY <1>2, <1>4, <1>5, <2>1, TickMoves DEF Shapes
<1>6. CASE ReadSubscription(t)
  <2>1. TypeOK'
    BY <1>3, <1>6 DEF ReadSubscription, TypeOK
  <2>2. CASE tick[t].subs = {}
    BY <1>2, <1>4, <1>6, <2>1, <2>2, TickMoves, RestingTick DEF Shapes, ReadSubscription
  <2>3. CASE tick[t].subs # {} /\ subs[s] = Gone
    <3> DEFINE next == [tick[t] EXCEPT !.subs = tick[t].subs \ {s}]
    <3>1. next \in TickRecord /\ next.at = "stamp?"
      BY <1>1, <1>6 DEF TickRecord, ReadSubscription
    <3>2. tick' = [tick EXCEPT ![t] = next]
      BY <1>3, <1>6, <2>3 DEF ReadSubscription
    <3> QED
      BY <1>5, <2>1, <3>1, <3>2
  <2>4. CASE tick[t].subs # {} /\ subs[s] # Gone
    <3> DEFINE next == [tick[t] EXCEPT !.at = "stamp!", !.copy = subs[s]]
    <3>1. s \in tick[t].subs /\ tick[t].subs \subseteq Subscription
      BY <1>1, <2>4 DEF TickRecord
    <3>2. subs[s] \in SubRecord
      BY <1>3, <2>4, <3>1 DEF TypeOK
    <3>3. next \in TickRecord /\ next.at = "stamp!" /\ next.copy = subs[s]
          /\ next.subs = tick[t].subs
      BY <1>1, <3>2 DEF TickRecord, TickAt
    <3>4. tick' = [tick EXCEPT ![t] = next]
      BY <1>3, <1>6, <2>4 DEF ReadSubscription
    <3> QED
      BY <1>5, <2>1, <2>4, <3>2, <3>3, <3>4
  <2> QED
    BY <2>2, <2>3, <2>4
<1>7. CASE StampSubscription(t)
  <2> DEFINE next == [tick[t] EXCEPT !.at = "stamp?", !.copy = Gone, !.subs = tick[t].subs \ {s}]
  <2>1. tick[t].copy \in SubRecord
    BY <1>1, <1>7 DEF Fits, StampSubscription
  <2>2. subs' \in [Subscription -> SubRecord \cup {Gone}]
    BY <1>3, <1>7, <2>1 DEF StampSubscription, TypeOK
  <2>3. TypeOK'
    BY <1>3, <1>7, <2>2 DEF StampSubscription, TypeOK
  <2>4. next \in TickRecord /\ next.at = "stamp?"
    BY <1>1 DEF TickRecord, TickAt
  <2>5. tick' = [tick EXCEPT ![t] = next]
    BY <1>3, <1>7 DEF StampSubscription
  <2> QED
    BY <1>5, <2>3, <2>4, <2>5
<1> QED
  BY <1>6, <1>7

\* The steps that begin deliveries and look for what to retry.
LEMMA BeginningsTyped ==
  ASSUME Shapes, NEW t \in Tick, UNCHANGED registryVars,
         \/ Broadcast(t) \/ Retry(t) \/ Crash(t)
         \/ \E due \in SUBSET pending : FindDue(t, due)
         \/ \E e \in AnyEvent \cup {NoEvent} : Arrive(t, e)
  PROVE  Shapes'
<1> USE DEF storeVars, records, claims, history, registryVars
<1>1. tick[t] \in TickState /\ tick[t] \in TickRecord /\ Fits(tick[t])
  BY DEF Shapes, ProcessesTyped, TickState
<1>2. tick \in [Tick -> TickState] /\ TypeOK /\ send \in [Tick -> [Webhook -> SendState]]
  BY DEF Shapes, ProcessesTyped
<1>3. Quiet \in SendState /\ 1 \in 1..MaxAttempts
  BY TickAssumption DEF SendState
<1>4. ASSUME NEW next \in TickState, NEW sends \in [Webhook -> SendState],
             tick' = [tick EXCEPT ![t] = next], send' = [send EXCEPT ![t] = sends],
             next.at \in {"broadcast", "retry"} \/ \A w \in Webhook : sends[w] = Quiet,
             \A w \in Webhook : sends[w].at \notin {"list?", "list!"},
             next.at = "retry" => next.todo \subseteq owed,
             UNCHANGED <<request, pending, owed, refused>>
      PROVE  ProcessesTyped' /\ HistoryTyped' /\ SendingAwaited' /\ OwedGoesOn' /\ ListsOwed'
  <2>1. ProcessesTyped'
    BY <1>2, <1>4 DEF Shapes, ProcessesTyped
  <2>2. HistoryTyped'
    BY <1>4 DEF Shapes, HistoryTyped
  <2>3. SendingAwaited'
    BY <1>2, <1>4 DEF Shapes, SendingAwaited
  <2>4. OwedGoesOn'
    BY <1>2, <1>4 DEF Shapes, OwedGoesOn
  <2>5. ListsOwed'
    BY <1>2, <1>4 DEF Shapes, ListsOwed
  <2> QED
    BY <2>1, <2>2, <2>3, <2>4, <2>5
<1>5. CASE Broadcast(t)
  <2> DEFINE receivers == ActiveOf(tick[t].todo)
             first == [w \in Webhook |-> IF w \in receivers
                         THEN Delivery(<<tick[t].event, t>>, 1) ELSE Quiet]
  <2>1. tick[t].event \in AnyEvent
    BY <1>1, <1>5 DEF Broadcast, SendTo, Fits
  <2>2. Delivery(<<tick[t].event, t>>, 1) \in SendState
    BY <1>3, <2>1 DEF Delivery, SendState, Payload
  <2>3. first \in [Webhook -> SendState]
    BY <1>3, <2>2
  <2>4. \A w \in Webhook : first[w].at \notin {"list?", "list!"}
    BY DEF Quiet, Delivery
  <2> PICK rest : rest = IF receivers = {} THEN {} ELSE tick[t].subs
    OBVIOUS
  <2> DEFINE next == [tick[t] EXCEPT !.at = "broadcast", !.todo = {}, !.subs = rest]
  <2>5. next \in TickRecord /\ next.at = "broadcast" /\ next.event = tick[t].event
    BY <1>1 DEF TickRecord, TickAt
  <2>6. next \in TickState
    BY <2>1, <2>5 DEF TickState, Fits
  <2>7. tick' = [tick EXCEPT ![t] = next]
    BY <1>2, <1>5 DEF Broadcast, SendTo
  <2>8. send' = [send EXCEPT ![t] = first]
    BY <1>5 DEF Broadcast, SendTo
  <2>9. UNCHANGED <<request, pending, owed, refused>> /\ TypeOK'
    BY <1>2, <1>5 DEF Broadcast, SendTo, TypeOK
  <2> HIDE DEF next, first
  <2> QED
    BY <1>4, <2>3, <2>4, <2>5, <2>6, <2>7, <2>8, <2>9 DEF Shapes
<1>6. CASE Retry(t)
  <2>1. PICK k \in tick[t].todo :
          /\ tick' = [tick EXCEPT ![t].todo = @ \ {k}]
          /\ send' = IF Present(k.hook) /\ hooks[k.hook].active
                     THEN [send EXCEPT ![t][k.hook] = Delivery(k.payload, k.n + 1)]
                     ELSE send
    BY <1>6 DEF Retry
  <2>2. tick[t].at = "retry" /\ tick[t].todo \subseteq owed /\ owed \subseteq Attempt
        /\ tick[t].todo \subseteq Attempt
    BY <1>6 DEF Retry, Shapes, OwedGoesOn, HistoryTyped
  <2> DEFINE next == [tick[t] EXCEPT !.todo = tick[t].todo \ {k}]
  <2>3. next \in TickRecord /\ next.at = "retry" /\ next.event = tick[t].event
        /\ next.todo = tick[t].todo \ {k}
    BY <1>1, <2>2 DEF TickRecord
  <2>4. next \in TickState
    BY <2>2, <2>3 DEF TickState, Fits
  <2>5. tick' = [tick EXCEPT ![t] = next]
    BY <1>2, <2>1
  <2>6. k.hook \in Webhook /\ k.payload \in Payload /\ k.n \in 1..MaxAttempts /\ k.n < MaxAttempts
    BY <2>2 DEF Attempt, Shapes, OwedGoesOn
  <2>7. Delivery(k.payload, k.n + 1) \in SendState
    <3>1. k.n + 1 \in 1..MaxAttempts
      BY <2>6, TickAssumption
    <3> QED
      BY <2>6, <3>1 DEF Delivery, SendState
  <2> PICK sends : sends = IF Present(k.hook) /\ hooks[k.hook].active
                           THEN [send[t] EXCEPT ![k.hook] = Delivery(k.payload, k.n + 1)]
                           ELSE send[t]
    OBVIOUS
  <2>8. sends \in [Webhook -> SendState]
    BY <1>2, <2>6, <2>7
  <2>9. \A w \in Webhook : send[t][w] = Quiet
    BY <1>6 DEF Retry, Sending
  <2>10. \A w \in Webhook : sends[w].at \notin {"list?", "list!"}
    BY <1>2, <2>6, <2>9 DEF Quiet, Delivery
  <2>11. send' = [send EXCEPT ![t] = sends]
    BY <1>2, <2>1
  <2>12. UNCHANGED <<request, pending, owed, refused>> /\ TypeOK'
    BY <1>2, <1>6 DEF Retry, TypeOK
  <2> HIDE DEF next
  <2> QED
    BY <1>4, <2>2, <2>3, <2>4, <2>5, <2>8, <2>10, <2>11, <2>12 DEF Shapes
<1>7. CASE Crash(t)
  <2> DEFINE none == [w \in Webhook |-> Quiet]
  <2>1. none \in [Webhook -> SendState] /\ \A w \in Webhook : none[w] = Quiet
    BY <1>3
  <2>2. \A w \in Webhook : none[w].at \notin {"list?", "list!"}
    BY <2>1 DEF Quiet
  <2>3. tick' = [tick EXCEPT ![t] = Resting] /\ send' = [send EXCEPT ![t] = none]
    BY <1>7 DEF Crash
  <2>4. UNCHANGED <<request, pending, owed, refused>> /\ TypeOK'
    BY <1>2, <1>7 DEF Crash, TypeOK
  <2> HIDE DEF none
  <2> QED
    BY <1>4, <2>1, <2>2, <2>3, <2>4, RestingTick DEF Shapes
<1>8. ASSUME NEW due \in SUBSET pending, FindDue(t, due)
      PROVE  Shapes'
  <2> DEFINE next == [tick[t] EXCEPT !.at = "retry", !.todo = due]
  <2>1. pending \subseteq owed /\ owed \subseteq Attempt
    BY DEF Shapes, OwedGoesOn, HistoryTyped
  <2>2. next \in TickState
    BY <1>1, <2>1, MovedTick DEF TickAt
  <2>3. next.at = "retry" /\ next.todo = due
    BY <1>1 DEF TickRecord
  <2>4. tick' = [tick EXCEPT ![t] = Resting] \/ tick' = [tick EXCEPT ![t] = next]
    BY <1>2, <1>8 DEF FindDue
  <2>5. UNCHANGED <<request, send, pending, owed, refused>> /\ TypeOK'
    BY <1>2, <1>8 DEF FindDue, TypeOK
  <2>6. \A w \in Webhook : send[t][w] = Quiet
    BY <1>8 DEF FindDue, Shapes, SendingAwaited
  <2> HIDE DEF next
  <2> QED
    BY <2>1, <2>2, <2>3, <2>4, <2>5, <2>6, TickMoves, RestingTick DEF Shapes
<1>9. ASSUME NEW e \in AnyEvent \cup {NoEvent}, Arrive(t, e)
      PROVE  Shapes'
  <2>1. PICK at : /\ at = CASE e = NoEvent -> "lock?"
                            [] e \in Event -> "claim?"
                            [] e \in ProductEvent -> "match"
                            [] e \in Alert -> "active"
                  /\ tick' = [tick EXCEPT ![t] = [Resting EXCEPT !.event = e, !.at = at]]
    BY <1>9 DEF Arrive
  <2>2. at \in {"lock?", "claim?", "match", "active"} /\ (at # "lock?" => e \in AnyEvent)
    BY <2>1, TickAssumption DEF AnyEvent
  <2> DEFINE next == [Resting EXCEPT !.event = e, !.at = at]
  <2>3. next \in TickRecord /\ next.at = at /\ next.event = e
    BY <2>2 DEF Resting, TickRecord, TickAt
  <2>4. next \in TickState
    BY <2>2, <2>3 DEF TickState, Fits
  <2>5. UNCHANGED <<request, send, pending, owed, refused>>
    BY <1>9 DEF Arrive
  <2>6. TypeOK'
    <3>1. seen' \subseteq AnyEvent
      BY <1>2, <1>9, TickAssumption DEF Arrive, TypeOK, AnyEvent
    <3> QED
      BY <1>2, <1>9, <3>1 DEF Arrive, TypeOK
  <2>7. \A w \in Webhook : send[t][w] = Quiet
    BY <1>9 DEF Arrive, Shapes, SendingAwaited
  <2> HIDE DEF next
  <2> QED
    BY <2>1, <2>2, <2>3, <2>4, <2>5, <2>6, <2>7, TickMoves DEF Shapes, next
<1> QED
  BY <1>5, <1>6, <1>7, <1>8, <1>9

\* The states a delivery goes through, from one to the next.
LEMMA SendStates ==
  ASSUME NEW d \in SendState
  PROVE  /\ d.at = "sent" => d.payload \in Payload /\ d.n \in 1..MaxAttempts
         /\ d.at \in {"list?", "list!"} => /\ d.payload \in Payload /\ d.n \in 1..MaxAttempts
                                           /\ d.ok \in {"pending", "failed"}
         /\ d.at = "list?" => [d EXCEPT !.at = "count"] \in SendState
         /\ d.at = "list!" => d.list \subseteq Attempt /\ Count(d) \in SendState
         /\ d.at = "count" => d.payload \in Payload /\ d.n \in 1..MaxAttempts /\ d.ok \in Status
         /\ d.at = "merge" => /\ d.payload \in Payload /\ d.n \in 1..MaxAttempts
                              /\ d.failures \in 0..MaxFailures
         /\ d.at = "write" => d.copy \in HookRecord
         /\ d.at # "quiet" <=> d # Quiet
         /\ d.at \in {"quiet", "sent", "list?", "list!", "count", "merge", "write"}
<1>1. CASE d = Quiet
  BY <1>1 DEF Quiet
<1>2. CASE d \in [at : {"sent"}, payload : Payload, n : 1..MaxAttempts]
  BY <1>2 DEF Quiet
<1>3. CASE d \in [at : {"list?"}, payload : Payload, n : 1..MaxAttempts, ok : {"pending", "failed"}]
  <2>1. [d EXCEPT !.at = "count"] \in
          [at : {"count"}, payload : Payload, n : 1..MaxAttempts, ok : Status]
    BY <1>3 DEF Status
  <2> QED
    BY <1>3, <2>1 DEF Quiet, SendState
<1>4. CASE d \in [at : {"list!"}, payload : Payload, n : 1..MaxAttempts, ok : {"pending", "failed"},
                  list : SUBSET Attempt]
  <2>1. Count(d) \in [at : {"count"}, payload : Payload, n : 1..MaxAttempts, ok : Status]
    BY <1>4 DEF Count, Status
  <2> QED
    BY <1>4, <2>1 DEF Quiet, SendState
<1>5. CASE d \in [at : {"count"}, payload : Payload, n : 1..MaxAttempts, ok : Status]
  BY <1>5 DEF Quiet
<1>6. CASE d \in [at : {"merge"}, payload : Payload, n : 1..MaxAttempts, failures : 0..MaxFailures]
  BY <1>6 DEF Quiet
<1>7. CASE d \in [at : {"write"}, payload : Payload, n : 1..MaxAttempts, copy : HookRecord]
  BY <1>7 DEF Quiet
<1> QED
  BY <1>1, <1>2, <1>3, <1>4, <1>5, <1>6, <1>7 DEF SendState

\* The answer of the receiver, recorded.
LEMMA AnswerTyped ==
  ASSUME Shapes, NEW t \in Tick, NEW w \in Webhook, NEW outcome \in Outcome,
         UNCHANGED registryVars, Answer(t, w, outcome)
  PROVE  Shapes'
<1> USE DEF storeVars, claims, registryVars
<1>1. send \in [Tick -> [Webhook -> SendState]] /\ TypeOK /\ send[t][w] \in SendState
  BY DEF Shapes, ProcessesTyped
<1> DEFINE d == send[t][w]
           key == AttemptKey(w, d.payload, d.n)
           status == StatusOf(outcome, d.n)
           next == [at |-> IF status = "success" THEN "count" ELSE "list?",
                    payload |-> d.payload, n |-> d.n, ok |-> status]
<1>2. d.at = "sent" /\ d.payload \in Payload /\ d.n \in 1..MaxAttempts /\ d # Quiet
  BY <1>1, SendStates DEF Answer
<1>3. status \in Status /\ (status = "pending" => d.n < MaxAttempts)
  BY DEF StatusOf, Status, Outcome
<1>4. key \in Attempt /\ key.n = d.n
  BY <1>2 DEF AttemptKey, Attempt
<1>5. attempts' = [k \in DOMAIN attempts \cup {key} |-> IF k = key THEN status ELSE attempts[k]]
      /\ owed' = (IF status = "pending" THEN owed \cup {key} ELSE owed)
      /\ refused' = (IF status = "failed" THEN refused \cup {key} ELSE refused)
      /\ send' = [send EXCEPT ![t][w] = next]
      /\ UNCHANGED <<hooks, hookList, subs, subList, pending, dead, seen, lock, tick, request>>
  BY DEF Answer, Put
<1>6. next \in SendState /\ next.at \in {"count", "list?"} /\ next.payload = d.payload /\ next.n = d.n
      /\ next.ok = status
  <2>1. CASE status = "success"
    BY <1>2, <2>1 DEF SendState, Status
  <2>2. CASE status # "success"
    BY <1>2, <1>3, <2>2 DEF SendState, Status
  <2> QED
    BY <2>1, <2>2
<1> HIDE DEF next, status, key
<1>7. TypeOK'
  <2>1. DOMAIN attempts' \subseteq Attempt /\ \A k \in DOMAIN attempts' : attempts'[k] \in Status
    BY <1>1, <1>3, <1>4, <1>5 DEF TypeOK
  <2> QED
    BY <1>1, <1>5, <2>1 DEF TypeOK
<1>8. HistoryTyped' /\ owed \subseteq owed'
  BY <1>4, <1>5 DEF Shapes, HistoryTyped
<1>9. pending' \subseteq owed' /\ \A k \in owed' : k.n < MaxAttempts
  BY <1>3, <1>4, <1>5 DEF Shapes, OwedGoesOn
<1>10. next.at \in {"list?", "list!"} /\ next.ok = "pending" =>
         AttemptKey(w, next.payload, next.n) \in owed' /\ next.at # "list!"
  BY <1>5, <1>6 DEF key
<1>11. ProcessesTyped' /\ SendingAwaited' /\ OwedGoesOn' /\ ListsOwed'
  BY <1>2, <1>5, <1>6, <1>8, <1>9, <1>10, SendMoves
<1> QED
  BY <1>7, <1>8, <1>11 DEF Shapes

\* The attempt put on the list of its status.
LEMMA ListTyped ==
  ASSUME Shapes, NEW t \in Tick, NEW w \in Webhook,
         UNCHANGED registryVars, ReadList(t, w) \/ WriteList(t, w)
  PROVE  Shapes'
<1> USE DEF storeVars, records, claims, history, registryVars
<1>1. send \in [Tick -> [Webhook -> SendState]] /\ TypeOK /\ send[t][w] \in SendState
  BY DEF Shapes, ProcessesTyped
<1> DEFINE d == send[t][w]
           key == AttemptKey(w, d.payload, d.n)
<1>2. d.at \in {"list?", "list!"} /\ d.payload \in Payload /\ d.n \in 1..MaxAttempts /\ d # Quiet
      /\ d.ok \in {"pending", "failed"}
  BY <1>1, SendStates DEF ReadList, WriteList
<1>3. pending \subseteq owed /\ owed \subseteq Attempt /\ \A k \in owed : k.n < MaxAttempts
  BY DEF Shapes, OwedGoesOn, HistoryTyped
<1>4. key \in Attempt /\ (d.ok = "pending" => key \in owed)
  BY <1>2 DEF AttemptKey, Attempt, Shapes, ListsOwed
<1>5. CASE ReadList(t, w)
  <2> DEFINE listing == [at |-> "list!", payload |-> d.payload, n |-> d.n, ok |-> d.ok,
                         list |-> ListOf(d.ok) \cup {key}]
             counting == [d EXCEPT !.at = "count"]
  <2>1. d.at = "list?" /\ counting \in SendState
    BY <1>1, <1>5, SendStates DEF ReadList
  <2>2. ListOf(d.ok) \subseteq Attempt /\ (d.ok = "pending" => ListOf(d.ok) \subseteq owed)
    BY <1>1, <1>3 DEF ListOf, TypeOK
  <2>3. listing \in SendState
    BY <1>2, <1>4, <2>2 DEF SendState
  <2>4. counting.at = "count"
    BY <1>1, <2>1, SendStates DEF SendState, Quiet
  <2>5. send' = [send EXCEPT ![t][w] = listing] \/ send' = [send EXCEPT ![t][w] = counting]
    BY <1>5 DEF ReadList, Put
  <2>6. UNCHANGED <<request, tick, pending, owed, refused>> /\ TypeOK'
    BY <1>1, <1>5 DEF ReadList, TypeOK
  <2>7. HistoryTyped'
    BY <2>6 DEF Shapes, HistoryTyped
  <2>8. listing.at = "list!" /\ listing.payload = d.payload /\ listing.n = d.n /\ listing.ok = d.ok
        /\ listing.list = ListOf(d.ok) \cup {key}
    OBVIOUS
  <2>9. listing.ok = "pending" => AttemptKey(w, listing.payload, listing.n) \in owed'
                                  /\ listing.list \subseteq owed'
    BY <1>4, <2>2, <2>6, <2>8
  <2> HIDE DEF listing, counting, d
  <2> QED
    BY <1>2, <1>3, <2>1, <2>3, <2>4, <2>5, <2>6, <2>7, <2>8, <2>9, SendMoves DEF Shapes, d
<1>6. CASE WriteList(t, w)
  <2>1. d.at = "list!" /\ Count(d) \in SendState /\ d.list \subseteq Attempt
    BY <1>1, <1>6, SendStates DEF WriteList
  <2>2. d.ok = "pending" => d.list \subseteq owed
    BY <2>1 DEF Shapes, ListsOwed
  <2>3. \/ d.ok = "pending" /\ pending' = d.list /\ dead' = dead
        \/ d.ok # "pending" /\ dead' = d.list /\ pending' = pending
    BY <1>6 DEF WriteList
  <2>4. UNCHANGED <<hooks, hookList, subs, subList, attempts, seen, lock, request, tick, owed, refused>>
        /\ send' = [send EXCEPT ![t][w] = Count(d)]
    BY <1>6 DEF WriteList, Put
  <2>5. TypeOK'
    BY <1>1, <2>1, <2>3, <2>4 DEF TypeOK
  <2>6. HistoryTyped'
    BY <2>4 DEF Shapes, HistoryTyped
  <2>7. pending' \subseteq owed'
    BY <1>3, <2>2, <2>3, <2>4
  <2>8. Count(d).at = "count"
    BY DEF Count
  <2> QED
    BY <1>2, <1>3, <2>1, <2>4, <2>5, <2>6, <2>7, <2>8, SendMoves DEF Shapes
<1> QED
  BY <1>5, <1>6

\* The failures counted on the webhook's record.
LEMMA CountTyped ==
  ASSUME Shapes, NEW t \in Tick, NEW w \in Webhook,
         UNCHANGED registryVars, CountFailure(t, w) \/ ReadHook(t, w) \/ WriteHook(t, w)
  PROVE  Shapes'
<1> USE DEF storeVars, records, claims, history, registryVars
<1>1. send \in [Tick -> [Webhook -> SendState]] /\ TypeOK /\ send[t][w] \in SendState
  BY DEF Shapes, ProcessesTyped
<1> DEFINE d == send[t][w]
<1>2. d.at \in {"count", "merge", "write"} /\ d # Quiet
  BY <1>1, SendStates DEF CountFailure, ReadHook, WriteHook
<1>3. Quiet \in SendState /\ Quiet.at = "quiet"
  BY DEF SendState, Quiet
<1>4. UNCHANGED <<request, tick, pending, owed, refused>>
  BY DEF CountFailure, ReadHook, WriteHook
<1>5. HistoryTyped' /\ pending' \subseteq owed' /\ \A k \in owed' : k.n < MaxAttempts
  BY <1>4 DEF Shapes, HistoryTyped, OwedGoesOn
<1>6. ASSUME NEW next \in SendState, next.at \in {"quiet", "merge", "write"},
             send' = [send EXCEPT ![t][w] = next], TypeOK'
      PROVE  Shapes'
  <2>1. next.at \notin {"list?", "list!"}
    BY <1>6
  <2> QED
    BY <1>2, <1>4, <1>5, <1>6, <2>1, SendMoves DEF Shapes
<1>7. CASE CountFailure(t, w)
  <2> PICK number : number = IF d.ok = "success" THEN 0
                             ELSE IF hooks[w].failures < MaxFailures
                                  THEN hooks[w].failures + 1 ELSE MaxFailures
    OBVIOUS
  <2> DEFINE next == [at |-> "merge", payload |-> d.payload, n |-> d.n, failures |-> number]
  <2>1. TypeOK'
    BY <1>1, <1>7 DEF CountFailure, TypeOK
  <2>2. CASE Present(w)
    <3>1. hooks[w] \in HookRecord
      BY <1>1, <2>2 DEF TypeOK, Present
    <3>2. hooks[w].failures \in 0..MaxFailures
      BY <3>1 DEF HookRecord
    <3>3. number \in 0..MaxFailures
      BY <3>2, TickAssumption
    <3>4. d.payload \in Payload /\ d.n \in 1..MaxAttempts
      BY <1>1, <1>7, SendStates DEF CountFailure
    <3>5. next \in SendState /\ next.at = "merge"
      BY <3>3, <3>4 DEF SendState
    <3>6. send' = [send EXCEPT ![t][w] = next]
      BY <1>7, <2>2 DEF CountFailure, Put
    <3> HIDE DEF next
    <3> QED
      BY <1>6, <2>1, <3>5, <3>6
  <2>3. CASE ~Present(w)
    <3>1. send' = [send EXCEPT ![t][w] = Quiet]
      BY <1>7, <2>3 DEF CountFailure, Put
    <3> QED
      BY <1>3, <1>6, <2>1, <3>1
  <2> QED
    BY <2>2, <2>3
<1>8. CASE ReadHook(t, w)
  <2> DEFINE next == [at |-> "write", payload |-> d.payload, n |-> d.n,
                      copy |-> [hooks[w] EXCEPT !.failures = d.failures]]
  <2>1. TypeOK'
    BY <1>1, <1>8 DEF ReadHook, TypeOK
  <2>2. CASE Present(w)
    <3>1. hooks[w] \in HookRecord
      BY <1>1, <2>2 DEF TypeOK, Present
    <3>2. d.payload \in Payload /\ d.n \in 1..MaxAttempts /\ d.failures \in 0..MaxFailures
      BY <1>1, <1>8, SendStates DEF ReadHook
    <3>3. [hooks[w] EXCEPT !.failures = d.failures] \in HookRecord
      BY <3>1, <3>2 DEF HookRecord
    <3>4. next \in SendState /\ next.at = "write"
      BY <3>2, <3>3 DEF SendState
    <3>5. send' = [send EXCEPT ![t][w] = next]
      BY <1>8, <2>2 DEF ReadHook, Put
    <3> HIDE DEF next
    <3> QED
      BY <1>6, <2>1, <3>4, <3>5
  <2>3. CASE ~Present(w)
    <3>1. send' = [send EXCEPT ![t][w] = Quiet]
      BY <1>8, <2>3 DEF ReadHook, Put
    <3> QED
      BY <1>3, <1>6, <2>1, <3>1
  <2> QED
    BY <2>2, <2>3
<1>9. CASE WriteHook(t, w)
  <2>1. d.copy \in HookRecord
    BY <1>1, <1>9, SendStates DEF WriteHook
  <2>2. hooks' \in [Webhook -> HookRecord \cup {Gone}]
    BY <1>1, <1>9, <2>1 DEF WriteHook, SetHook, TypeOK
  <2>3. TypeOK'
    BY <1>1, <1>9, <2>2 DEF WriteHook, TypeOK
  <2>4. send' = [send EXCEPT ![t][w] = Quiet]
    BY <1>9 DEF WriteHook, Put
  <2> QED
    BY <1>3, <1>6, <2>3, <2>4
<1> QED
  BY <1>7, <1>8, <1>9

\* The states a request goes through.
LEMMA RequestStates ==
  ASSUME NEW r \in RequestState
  PROVE  /\ r.at = "list?" => /\ r.then \in Follow
                              /\ \/ r.list = "hooks" /\ r.value \in Webhook
                                 \/ r.list = "subs" /\ r.value \in Subscription
         /\ r.at = "list!" => /\ r.then \in Follow
                              /\ \/ r.list = "hooks" /\ r.value \in Webhook /\ r.copy \subseteq Webhook
                                 \/ /\ r.list = "subs" /\ r.value \in Subscription
                                    /\ r.copy \subseteq Subscription
         /\ r.at \in {"create", "del", "orphans"} => r.hook \in Webhook
         /\ r.at = "patch" => r.hook \in Webhook /\ r.copy \in HookRecord
         /\ r.at = "sweep" => /\ r.todo \subseteq Subscription
                              /\ \A x : [r EXCEPT !.todo = r.todo \ {x}] \in Follow
         /\ r.at = "subscribe" => r.hook \in Webhook /\ r.sub \in Subscription /\ r.wants \in Filter
         /\ r.at = "repatch" => r.sub \in Subscription /\ r.copy \in SubRecord
<1> USE DEF NoRequest
<1>1. CASE r \in Follow
  BY <1>1 DEF Follow
<1>2. CASE r \in [at : {"list?"}, list : {"hooks"}, how : {"add", "remove"}, value : Webhook,
                  then : Follow]
  BY <1>2
<1>3. CASE r \in [at : {"list?"}, list : {"subs"}, how : {"add", "remove"}, value : Subscription,
                  then : Follow]
  BY <1>3
<1>4. CASE r \in [at : {"list!"}, list : {"hooks"}, then : Follow, value : Webhook,
                  copy : SUBSET Webhook]
  BY <1>4
<1>5. CASE r \in [at : {"list!"}, list : {"subs"}, then : Follow, value : Subscription,
                  copy : SUBSET Subscription]
  BY <1>5
<1>6. CASE r \in [at : {"create"}, hook : Webhook]
  BY <1>6
<1>7. CASE r \in [at : {"patch"}, hook : Webhook, copy : HookRecord]
  BY <1>7
<1>8. CASE r \in [at : {"del"}, hook : Webhook]
  BY <1>8
<1>9. CASE r \in [at : {"subscribe"}, hook : Webhook, sub : Subscription, wants : Filter]
  BY <1>9
<1>10. CASE r \in [at : {"repatch"}, sub : Subscription, copy : SubRecord]
  BY <1>10
<1> QED
  BY <1>1, <1>2, <1>3, <1>4, <1>5, <1>6, <1>7, <1>8, <1>9, <1>10 DEF RequestState

LEMMA StartsTyped ==
  /\ \A w \in Webhook :
       /\ [at |-> "create", hook |-> w] \in RequestState
       /\ [at |-> "del", hook |-> w] \in RequestState
       /\ [at |-> "orphans", hook |-> w] \in Follow
       /\ \A copy \in HookRecord : [at |-> "patch", hook |-> w, copy |-> copy] \in RequestState
       /\ \A s \in Subscription, wants \in Filter :
            [at |-> "subscribe", hook |-> w, sub |-> s, wants |-> wants] \in RequestState
  /\ \A s \in Subscription, copy \in SubRecord :
       [at |-> "repatch", sub |-> s, copy |-> copy] \in RequestState
  /\ \A todo \in SUBSET Subscription : [at |-> "sweep", todo |-> todo] \in Follow
  /\ \A then \in Follow, how \in {"add", "remove"} :
       /\ \A w \in Webhook : Listing("hooks", how, w, then) \in RequestState
       /\ \A s \in Subscription : Listing("subs", how, s, then) \in RequestState
  /\ \A then \in Follow : then \in RequestState
  /\ NoRequest \in Follow
<1>1. \A then \in Follow, how \in {"add", "remove"}, w \in Webhook :
        Listing("hooks", how, w, then) \in RequestState
  BY DEF Listing, RequestState
<1>2. \A then \in Follow, how \in {"add", "remove"}, s \in Subscription :
        Listing("subs", how, s, then) \in RequestState
  BY DEF Listing, RequestState
<1>3. \A w \in Webhook : /\ [at |-> "create", hook |-> w] \in RequestState
                         /\ [at |-> "del", hook |-> w] \in RequestState
                         /\ [at |-> "orphans", hook |-> w] \in Follow
  BY DEF RequestState, Follow
<1>4. \A w \in Webhook, copy \in HookRecord :
        [at |-> "patch", hook |-> w, copy |-> copy] \in RequestState
  BY DEF RequestState
<1>5. \A w \in Webhook, s \in Subscription, wants \in Filter :
        [at |-> "subscribe", hook |-> w, sub |-> s, wants |-> wants] \in RequestState
  BY DEF RequestState
<1>6. \A s \in Subscription, copy \in SubRecord :
        [at |-> "repatch", sub |-> s, copy |-> copy] \in RequestState
  BY DEF RequestState
<1>7. /\ \A todo \in SUBSET Subscription : [at |-> "sweep", todo |-> todo] \in Follow
      /\ \A then \in Follow : then \in RequestState
      /\ NoRequest \in Follow
  BY DEF RequestState, Follow
<1> QED
  BY <1>1, <1>2, <1>3, <1>4, <1>5, <1>6, <1>7

\* Requests on webhooks and on subscriptions, from their first look at the store.
LEMMA RequestsTyped ==
  ASSUME Shapes, NEW a \in Admin, UNCHANGED deliveryVars,
         RequestStep(a) \/ HookRequest(a) \/ SubscriptionRequest(a)
  PROVE  Shapes'
<1> USE DEF storeVars, registryHistory
<1>1. request \in [Admin -> RequestState] /\ TypeOK /\ request[a] \in RequestState
  BY DEF Shapes, ProcessesTyped
<1>2. ASSUME NEW next \in RequestState, Become(a, next), TypeOK' PROVE Shapes'
  BY <1>1, <1>2, RequestMoves DEF Become, Shapes
<1> DEFINE r == request[a]
<1> USE DEF deliveryVars, records, claims, history
<1>3. CASE ReadRegistryList(a) \/ WriteRegistryList(a)
  <2>1. \/ r.list = "hooks" /\ r.value \in Webhook
        \/ r.list = "subs" /\ r.value \in Subscription
    BY <1>1, <1>3, RequestStates DEF ReadRegistryList, WriteRegistryList, Is
  <2>2. r.then \in RequestState /\ r.then \in Follow
    BY <1>1, <1>3, RequestStates, StartsTyped DEF ReadRegistryList, WriteRegistryList, Is
  <2>3. TypeOK'
    <3>1. ASSUME WriteRegistryList(a)
          PROVE  hookList' \subseteq Webhook /\ subList' \subseteq Subscription
                 /\ UNCHANGED <<hooks, subs>>
      BY <1>1, <3>1, RequestStates DEF WriteRegistryList, Is, TypeOK
    <3> QED
      BY <1>1, <1>3, <3>1 DEF ReadRegistryList, TypeOK
  <2>4. CASE WriteRegistryList(a)
    BY <1>2, <2>2, <2>3, <2>4 DEF WriteRegistryList
  <2>5. CASE ReadRegistryList(a)
    <3> PICK copied : copied = IF r.how = "add" THEN CurrentList(r.list) \cup {r.value}
                                                ELSE CurrentList(r.list) \ {r.value}
      OBVIOUS
    <3> DEFINE next == [at |-> "list!", list |-> r.list, then |-> r.then, value |-> r.value,
                        copy |-> copied]
    <3>1. Become(a, r.then) \/ Become(a, next)
      BY <2>5 DEF ReadRegistryList
    <3>2. next \in RequestState
      <4>1. CASE r.list = "hooks"
        <5>1. copied \subseteq Webhook /\ r.value \in Webhook
          BY <1>1, <2>1, <4>1 DEF CurrentList, TypeOK
        <5> QED
          BY <2>2, <4>1, <5>1 DEF RequestState
      <4>2. CASE r.list = "subs"
        <5>1. copied \subseteq Subscription /\ r.value \in Subscription
          BY <1>1, <2>1, <4>2 DEF CurrentList, TypeOK
        <5> QED
          BY <2>2, <4>2, <5>1 DEF RequestState
      <4> QED
        BY <2>1, <4>1, <4>2
    <3> HIDE DEF next
    <3> QED
      BY <1>2, <2>2, <2>3, <3>1, <3>2
  <2> QED
    BY <1>3, <2>4, <2>5
<1>4. CASE CreateWebhook(a)
  <2>1. r.hook \in Webhook /\ FreshHook \in HookRecord
    BY <1>1, <1>4, RequestStates, TickAssumption DEF CreateWebhook, Is, FreshHook, HookRecord
  <2>2. TypeOK'
    BY <1>1, <1>4, <2>1 DEF CreateWebhook, SetHook, TypeOK
  <2> QED
    BY <1>2, <1>4, <2>1, <2>2, StartsTyped DEF CreateWebhook
<1>5. CASE WritePatch(a)
  <2>1. r.hook \in Webhook /\ r.copy \in HookRecord
    BY <1>1, <1>5, RequestStates DEF WritePatch, Is
  <2>2. TypeOK'
    BY <1>1, <1>5, <2>1 DEF WritePatch, SetHook, TypeOK
  <2> QED
    BY <1>2, <1>5, <2>2, StartsTyped DEF WritePatch, Rest
<1>6. CASE DeleteHook(a)
  <2>1. r.hook \in Webhook
    BY <1>1, <1>6, RequestStates DEF DeleteHook, Is
  <2>2. TypeOK'
    BY <1>1, <1>6, <2>1 DEF DeleteHook, DelHook, TypeOK
  <2> QED
    BY <1>2, <1>6, <2>1, <2>2, StartsTyped DEF DeleteHook
<1>7. CASE FindSubscriptions(a)
  <2>1. TypeOK'
    BY <1>1, <1>7 DEF FindSubscriptions, TypeOK
  <2>2. SubscriptionsOf(subList, r.hook) \subseteq Subscription
    BY <1>1 DEF SubscriptionsOf, TypeOK
  <2> QED
    BY <1>2, <1>7, <2>1, <2>2, StartsTyped DEF FindSubscriptions
<1>8. CASE SweepSubscription(a)
  <2>1. r.at = "sweep" /\ r.todo \subseteq Subscription
    BY <1>1, <1>8, RequestStates DEF SweepSubscription, Is
  <2>2. CASE r.todo = {}
    <3>1. TypeOK'
      BY <1>1, <1>8, <2>2 DEF SweepSubscription, TypeOK
    <3> QED
      BY <1>2, <1>8, <2>2, <3>1, StartsTyped DEF SweepSubscription, Rest
  <2>3. CASE r.todo # {}
    <3>1. PICK s \in r.todo :
            /\ subs' = [subs EXCEPT ![s] = Gone]
            /\ LET rest == [r EXCEPT !.todo = r.todo \ {s}] IN
               Become(a, IF subs[s] = Gone THEN rest ELSE Listing("subs", "remove", s, rest))
      BY <1>8, <2>3 DEF SweepSubscription
    <3> DEFINE rest == [r EXCEPT !.todo = r.todo \ {s}]
    <3>2. rest \in Follow
      BY <1>1, <2>1, RequestStates
    <3>3. TypeOK'
      BY <1>1, <1>8, <2>1, <3>1 DEF SweepSubscription, TypeOK
    <3>4. Become(a, rest) \/ Become(a, Listing("subs", "remove", s, rest))
      BY <3>1
    <3>5. rest \in RequestState /\ Listing("subs", "remove", s, rest) \in RequestState
      BY <2>1, <3>2, StartsTyped
    <3> HIDE DEF rest
    <3> QED
      BY <1>2, <3>3, <3>4, <3>5
  <2> QED
    BY <2>2, <2>3
<1>9. CASE CreateSubscription(a)
  <2>1. r.hook \in Webhook /\ r.sub \in Subscription /\ r.wants \in Filter
    BY <1>1, <1>9, RequestStates DEF CreateSubscription, Is
  <2>2. [webhook |-> r.hook, active |-> TRUE, wants |-> r.wants] \in SubRecord
    BY <2>1 DEF SubRecord
  <2>3. TypeOK'
    BY <1>1, <1>9, <2>1, <2>2 DEF CreateSubscription, TypeOK
  <2> QED
    BY <1>2, <1>9, <2>1, <2>3, StartsTyped DEF CreateSubscription
<1>10. CASE WriteSubscriptionPatch(a)
  <2>1. r.sub \in Subscription /\ r.copy \in SubRecord
    BY <1>1, <1>10, RequestStates DEF WriteSubscriptionPatch, Is
  <2>2. TypeOK'
    BY <1>1, <1>10, <2>1 DEF WriteSubscriptionPatch, TypeOK
  <2> QED
    BY <1>2, <1>10, <2>2, StartsTyped DEF WriteSubscriptionPatch, Rest
<1>11. ASSUME NEW w \in Webhook, CheckUrl(a, w) \/ FindForDelete(a, w) PROVE Shapes'
  <2>1. TypeOK'
    BY <1>1, <1>11 DEF CheckUrl, FindForDelete, TypeOK
  <2> QED
    BY <1>2, <1>11, <2>1, StartsTyped DEF CheckUrl, FindForDelete, Begin
<1>12. ASSUME NEW w \in Webhook, NEW active \in BOOLEAN, ReadForPatch(a, w, active) PROVE Shapes'
  <2>1. TypeOK'
    BY <1>1, <1>12 DEF ReadForPatch, TypeOK
  <2>2. hooks[w] \in HookRecord
    BY <1>1, <1>12 DEF ReadForPatch, Present, TypeOK
  <2>3. [hooks[w] EXCEPT !.active = active] \in HookRecord
    BY <2>2 DEF HookRecord
  <2> QED
    BY <1>2, <1>12, <2>1, <2>3, StartsTyped DEF ReadForPatch, Begin
<1>13. ASSUME NEW s \in Subscription, FindForUnsubscribe(a, s) PROVE Shapes'
  <2>1. TypeOK'
    BY <1>1, <1>13 DEF FindForUnsubscribe, TypeOK
  <2> QED
    BY <1>2, <1>13, <2>1, StartsTyped DEF FindForUnsubscribe, Begin
<1>14. ASSUME NEW s \in Subscription, NEW w \in Webhook, NEW wants \in Filter,
              FindHook(a, w, s, wants)
       PROVE  Shapes'
  <2>1. TypeOK'
    BY <1>1, <1>14 DEF FindHook, TypeOK
  <2> QED
    BY <1>2, <1>14, <2>1, StartsTyped DEF FindHook, Begin
<1>15. ASSUME NEW s \in Subscription, NEW active \in BOOLEAN, ReadForSubscriptionPatch(a, s, active)
       PROVE  Shapes'
  <2>1. TypeOK'
    BY <1>1, <1>15 DEF ReadForSubscriptionPatch, TypeOK
  <2>2. subs[s] \in SubRecord
    BY <1>1, <1>15 DEF ReadForSubscriptionPatch, Reachable, TypeOK
  <2>3. [subs[s] EXCEPT !.active = active] \in SubRecord
    BY <2>2 DEF SubRecord
  <2> QED
    BY <1>2, <1>15, <2>1, <2>3, StartsTyped DEF ReadForSubscriptionPatch, Begin
<1> QED
  BY <1>3, <1>4, <1>5, <1>6, <1>7, <1>8, <1>9, <1>10, <1>11, <1>12, <1>13, <1>14, <1>15
     DEF RequestStep, HookRequest, SubscriptionRequest

LEMMA ShapesStep == Shapes /\ [Next]_vars => Shapes'
<1> SUFFICES ASSUME Shapes, [Next]_vars PROVE Shapes'
  OBVIOUS
<1>1. ASSUME NEW t \in Tick, TickStep(t) \/ Crash(t) \/ \E e \in AnyEvent \cup {NoEvent} : Arrive(t, e),
             UNCHANGED registryVars
      PROVE  Shapes'
  BY <1>1, ClaimsTyped, ReceiversTyped, StampsTyped, BeginningsTyped DEF TickStep
<1>2. ASSUME NEW t \in Tick, NEW w \in Webhook, SendStep(t, w), UNCHANGED registryVars
      PROVE  Shapes'
  BY <1>2, AnswerTyped, ListTyped, CountTyped DEF SendStep
<1>3. ASSUME LockExpires, UNCHANGED registryVars PROVE Shapes'
  BY <1>3 DEF LockExpires, registryVars, storeVars, records, history, Shapes, TypeOK, ProcessesTyped,
              HistoryTyped, SendingAwaited, OwedGoesOn, ListsOwed
<1>4. CASE RegistryNext
  BY <1>4, RequestsTyped DEF RegistryNext
<1>5. CASE UNCHANGED vars
  BY <1>5 DEF vars, storeVars, deliveryVars, registryVars, records, claims, history, Shapes, TypeOK,
              ProcessesTyped, HistoryTyped, SendingAwaited, OwedGoesOn, ListsOwed
<1> QED
  BY <1>1, <1>2, <1>3, <1>4, <1>5 DEF Next, DeliveryNext

LEMMA ShapesAlways == Spec => []Shapes
  BY ShapesStart, ShapesStep, PTL DEF Spec

\* Every webhook, subscription, list and attempt the store can hold is one of
\* those the program writes (storage.ts:22-190), whatever ticks, deliveries and
\* requests overlap and whichever of them die.
THEOREM WebhooksTyped == Spec => []TypeOK
<1>1. Shapes => TypeOK
  BY DEF Shapes
<1> QED
  BY <1>1, ShapesAlways, PTL

-----------------------------------------------------------------------------
(* No attempt is forgotten *)

\* A step that moves deliveries which list nothing, before and after.
LEMMA UnlistedKept ==
  ASSUME Shapes, WellKept,
         UNCHANGED <<pending, dead, owed, refused, dropped, abandoned>>,
         \A t \in Tick, w \in Webhook :
           \/ send'[t][w] = send[t][w]
           \/ /\ send[t][w].at \notin {"list?", "list!"}
              /\ send'[t][w].at \notin {"list?", "list!"}
  PROVE  WellKept'
<1>1. owed \cup refused \subseteq Attempt
  BY DEF Shapes, HistoryTyped
<1>2. \A k \in Attempt : k.hook \in Webhook
  BY DEF Attempt
<1>3. \A status : \A k \in owed \cup refused : Recording(k, status) => Recording(k, status)'
  BY <1>1, <1>2 DEF Recording
<1>4. \A k \in owed' : k \in pending' \cup dropped' \cup abandoned' \/ Recording(k, "pending")'
  BY <1>3 DEF WellKept
<1>5. \A k \in refused' : k \in dead' \cup dropped' \cup abandoned' \/ Recording(k, "failed")'
  BY <1>3 DEF WellKept
<1>6. \A t \in Tick, w \in Webhook : send'[t][w].at = "list!" =>
        AttemptKey(w, send'[t][w].payload, send'[t][w].n) \in send'[t][w].list
  BY DEF WellKept
<1> QED
  BY <1>4, <1>5, <1>6 DEF WellKept

\* A step of one delivery, from or to a list.
LEMMA ListedKept ==
  ASSUME Shapes, WellKept, NEW t \in Tick, NEW w \in Webhook,
         UNCHANGED registryVars,
         (\E outcome \in Outcome : Answer(t, w, outcome)) \/ ReadList(t, w) \/ WriteList(t, w)
  PROVE  WellKept'
<1> USE DEF storeVars, records, claims, history
<1>1. send \in [Tick -> [Webhook -> SendState]] /\ send[t][w] \in SendState
      /\ owed \subseteq Attempt /\ refused \subseteq Attempt
  BY DEF Shapes, ProcessesTyped, HistoryTyped
<1> DEFINE d == send[t][w]
<1> PICK key : key = AttemptKey(w, d.payload, d.n)
  OBVIOUS
<1>2. \A k \in Attempt : k.hook \in Webhook /\ k = AttemptKey(k.hook, k.payload, k.n)
  BY DEF Attempt, AttemptKey
<1>3. key.hook = w /\ key.payload = d.payload /\ key.n = d.n
  BY DEF AttemptKey
<1>4. CASE \E outcome \in Outcome : Answer(t, w, outcome)
  <2>1. PICK outcome \in Outcome : Answer(t, w, outcome)
    BY <1>4
  <2>2. PICK status : status = StatusOf(outcome, d.n)
    OBVIOUS
  <2> DEFINE next == [at |-> IF status = "success" THEN "count" ELSE "list?",
                      payload |-> d.payload, n |-> d.n, ok |-> status]
  <2>3. /\ owed' = (IF status = "pending" THEN owed \cup {key} ELSE owed)
        /\ refused' = (IF status = "failed" THEN refused \cup {key} ELSE refused)
        /\ send' = [send EXCEPT ![t][w] = next]
        /\ UNCHANGED <<pending, dead, dropped, abandoned>>
    BY <2>1, <2>2 DEF Answer, Put
  <2>4. d.at = "sent"
    BY <2>1 DEF Answer
  <2>5. next.payload = d.payload /\ next.n = d.n /\ next.ok = status
        /\ (status # "success" => next.at = "list?") /\ next.at # "list!"
    OBVIOUS
  <2>6. send'[t][w] = next /\ \A u \in Tick, v \in Webhook : u # t \/ v # w => send'[u][v] = send[u][v]
    BY <1>1, <2>3
  <2> HIDE DEF next
  <2>7. \A x : \A k \in owed \cup refused : Recording(k, x) => Recording(k, x)'
    BY <1>1, <1>2, <2>4, <2>6 DEF Recording
  <2>8. status # "success" => Recording(key, status)'
    BY <1>3, <2>5, <2>6 DEF Recording
  <2>9. \A k \in owed' : k \in pending' \cup dropped' \cup abandoned' \/ Recording(k, "pending")'
    BY <2>3, <2>7, <2>8 DEF WellKept
  <2>10. \A k \in refused' : k \in dead' \cup dropped' \cup abandoned' \/ Recording(k, "failed")'
    BY <2>3, <2>7, <2>8 DEF WellKept
  <2>11. \A u \in Tick, v \in Webhook : send'[u][v].at = "list!" =>
           AttemptKey(v, send'[u][v].payload, send'[u][v].n) \in send'[u][v].list
    BY <2>5, <2>6 DEF WellKept
  <2> QED
    BY <2>9, <2>10, <2>11 DEF WellKept
<1>5. CASE ReadList(t, w)
  <2> DEFINE listing == [at |-> "list!", payload |-> d.payload, n |-> d.n, ok |-> d.ok,
                         list |-> ListOf(d.ok) \cup {key}]
  <2>1. d.at = "list?" /\ d.ok \in {"pending", "failed"}
    BY <1>1, <1>5, SendStates DEF ReadList
  <2>2. UNCHANGED <<pending, dead, owed, refused, dropped, abandoned>>
    BY <1>5 DEF ReadList
  <2>3. \A u \in Tick, v \in Webhook : u # t \/ v # w => send'[u][v] = send[u][v]
    BY <1>1, <1>5 DEF ReadList, Put
  <2>4. CASE key \in ListOf(d.ok)
    <3>1. send'[t][w] = [d EXCEPT !.at = "count"]
      BY <1>1, <1>5, <2>4 DEF ReadList, Put
    <3>2. send'[t][w].at \notin {"list?", "list!"}
      BY <1>1, <2>1, <3>1, SendStates DEF SendState, Quiet
    <3>3. \A x : \A k \in owed \cup refused : Recording(k, x) => Recording(k, x)' \/ (k = key /\ d.ok = x)
      BY <1>1, <1>2, <2>3 DEF Recording
    <3>4. (d.ok = "pending" => key \in pending) /\ (d.ok = "failed" => key \in dead)
      BY <2>1, <2>4 DEF ListOf
    <3> HIDE DEF d
    <3>5. \A k \in owed' : k \in pending' \cup dropped' \cup abandoned' \/ Recording(k, "pending")'
      BY <2>2, <3>3, <3>4 DEF WellKept
    <3>6. \A k \in refused' : k \in dead' \cup dropped' \cup abandoned' \/ Recording(k, "failed")'
      BY <2>2, <3>3, <3>4 DEF WellKept
    <3>7. \A u \in Tick, v \in Webhook : send'[u][v].at = "list!" =>
            AttemptKey(v, send'[u][v].payload, send'[u][v].n) \in send'[u][v].list
      BY <2>3, <3>2 DEF WellKept
    <3> QED
      BY <3>5, <3>6, <3>7 DEF WellKept
  <2>5. CASE key \notin ListOf(d.ok)
    <3>1. send'[t][w] = listing
      BY <1>1, <1>5, <2>5 DEF ReadList, Put
    <3>2. listing.at = "list!" /\ listing.payload = d.payload /\ listing.n = d.n
          /\ listing.ok = d.ok /\ key \in listing.list
      OBVIOUS
    <3> HIDE DEF listing
    <3>3. \A x : \A k \in owed \cup refused : Recording(k, x) => Recording(k, x)'
      BY <1>1, <1>2, <2>3, <3>1, <3>2 DEF Recording
    <3>4. \A k \in owed' : k \in pending' \cup dropped' \cup abandoned' \/ Recording(k, "pending")'
      BY <2>2, <3>3 DEF WellKept
    <3>5. \A k \in refused' : k \in dead' \cup dropped' \cup abandoned' \/ Recording(k, "failed")'
      BY <2>2, <3>3 DEF WellKept
    <3>6. \A u \in Tick, v \in Webhook : send'[u][v].at = "list!" =>
            AttemptKey(v, send'[u][v].payload, send'[u][v].n) \in send'[u][v].list
      BY <2>3, <3>1, <3>2 DEF WellKept
    <3> QED
      BY <3>4, <3>5, <3>6 DEF WellKept
  <2> QED
    BY <2>4, <2>5
<1>6. CASE WriteList(t, w)
  <2>1. d.at = "list!" /\ d.ok \in {"pending", "failed"} /\ key \in d.list
    BY <1>1, <1>6, SendStates DEF WriteList, WellKept
  <2>2. /\ UNCHANGED <<owed, refused, abandoned>>
        /\ dropped' = dropped \cup (ListOf(d.ok) \ d.list)
        /\ d.ok = "pending" => pending' = d.list /\ dead' = dead
        /\ d.ok = "failed" => dead' = d.list /\ pending' = pending
    BY <1>6, <2>1 DEF WriteList
  <2>3. \A u \in Tick, v \in Webhook : u # t \/ v # w => send'[u][v] = send[u][v]
    BY <1>1, <1>6 DEF WriteList, Put
  <2>4. send'[t][w].at = "count"
    BY <1>1, <1>6 DEF WriteList, Put, Count
  <2>5. \A x : \A k \in owed \cup refused : Recording(k, x) => Recording(k, x)' \/ (k = key /\ d.ok = x)
    BY <1>1, <1>2, <2>3 DEF Recording
  <2>6. /\ d.ok = "pending" => pending \subseteq pending' \cup dropped' /\ key \in pending'
        /\ d.ok = "failed" => dead \subseteq dead' \cup dropped' /\ key \in dead'
    BY <2>1, <2>2 DEF ListOf
  <2> HIDE DEF d
  <2>7. \A k \in owed' : k \in pending' \cup dropped' \cup abandoned' \/ Recording(k, "pending")'
    BY <2>1, <2>2, <2>5, <2>6 DEF WellKept
  <2>8. \A k \in refused' : k \in dead' \cup dropped' \cup abandoned' \/ Recording(k, "failed")'
    BY <2>1, <2>2, <2>5, <2>6 DEF WellKept
  <2>9. \A u \in Tick, v \in Webhook : send'[u][v].at = "list!" =>
          AttemptKey(v, send'[u][v].payload, send'[u][v].n) \in send'[u][v].list
    BY <2>3, <2>4 DEF WellKept
  <2> QED
    BY <2>7, <2>8, <2>9 DEF WellKept
<1> QED
  BY <1>4, <1>5, <1>6

\* A request that dies takes the attempts it had in hand with it.
LEMMA CrashKept ==
  ASSUME Shapes, WellKept, NEW t \in Tick, Crash(t)
  PROVE  WellKept'
<1> USE DEF records
<1>1. send \in [Tick -> [Webhook -> SendState]] /\ owed \cup refused \subseteq Attempt
  BY DEF Shapes, ProcessesTyped, HistoryTyped
<1>2. \A k \in Attempt : k.hook \in Webhook /\ k = AttemptKey(k.hook, k.payload, k.n)
  BY DEF Attempt, AttemptKey
<1>3. /\ UNCHANGED <<pending, dead, owed, refused, dropped>>
      /\ abandoned \subseteq abandoned'
      /\ \A w \in Webhook : send[t][w] # Quiet =>
           AttemptKey(w, send[t][w].payload, send[t][w].n) \in abandoned'
      /\ \A w \in Webhook : send'[t][w] = Quiet
      /\ \A u \in Tick : u # t => send'[u] = send[u]
  BY <1>1 DEF Crash, Sending
<1>4. \A x : \A k \in owed \cup refused : Recording(k, x) => Recording(k, x)' \/ k \in abandoned'
  <2> SUFFICES ASSUME NEW k \in owed \cup refused, NEW x, Recording(k, x)
               PROVE  Recording(k, x)' \/ k \in abandoned'
    OBVIOUS
  <2>1. PICK u \in Tick : /\ send[u][k.hook].at \in {"list?", "list!"}
                          /\ send[u][k.hook].payload = k.payload /\ send[u][k.hook].n = k.n
                          /\ send[u][k.hook].ok = x
    BY DEF Recording
  <2>2. k \in Attempt
    BY <1>1
  <2>3. CASE u = t
    <3>1. send[t][k.hook] # Quiet
      BY <2>1, <2>3 DEF Quiet
    <3> QED
      BY <1>2, <1>3, <2>1, <2>2, <2>3, <3>1
  <2>4. CASE u # t
    BY <1>3, <2>1, <2>4 DEF Recording
  <2> QED
    BY <2>3, <2>4
<1>5. \A k \in owed' : k \in pending' \cup dropped' \cup abandoned' \/ Recording(k, "pending")'
  BY <1>3, <1>4 DEF WellKept
<1>6. \A k \in refused' : k \in dead' \cup dropped' \cup abandoned' \/ Recording(k, "failed")'
  BY <1>3, <1>4 DEF WellKept
<1>7. \A u \in Tick, v \in Webhook : send'[u][v].at = "list!" =>
        AttemptKey(v, send'[u][v].payload, send'[u][v].n) \in send'[u][v].list
  BY <1>3 DEF WellKept, Quiet
<1> QED
  BY <1>5, <1>6, <1>7 DEF WellKept

\* What every other step changes of the deliveries: it begins one, or moves one
\* that lists nothing, or leaves them all.
LEMMA OthersUnlisted ==
  ASSUME Shapes, NEW t \in Tick,
         \/ TickStep(t) \/ \E e \in AnyEvent \cup {NoEvent} : Arrive(t, e)
         \/ \E w \in Webhook : CountFailure(t, w) \/ ReadHook(t, w) \/ WriteHook(t, w)
  PROVE  /\ UNCHANGED <<pending, dead, owed, refused, dropped, abandoned>>
         /\ \A u \in Tick, w \in Webhook :
              \/ send'[u][w] = send[u][w]
              \/ /\ send[u][w].at \notin {"list?", "list!"}
                 /\ send'[u][w].at \notin {"list?", "list!"}
<1> USE DEF storeVars, records, claims, history
<1>1. send \in [Tick -> [Webhook -> SendState]]
  BY DEF Shapes, ProcessesTyped
<1>2. CASE TickStep(t) /\ ~Broadcast(t) /\ ~Retry(t)
  <2>1. UNCHANGED <<pending, dead, owed, refused, dropped, abandoned>>
    BY <1>2 DEF TickStep, LookForClaim, Claim, FindFailing, ReadFailing, Disable, FindActive,
                MatchSubscriptions, BroadcastDone, ReadSubscription, StampSubscription, LookForLock,
                Lock, FindDue, Finish
  <2>2. UNCHANGED send
    BY <1>2 DEF TickStep, LookForClaim, Claim, FindFailing, ReadFailing, Disable, FindActive,
                MatchSubscriptions, BroadcastDone, ReadSubscription, StampSubscription, LookForLock,
                Lock, FindDue, Finish
  <2> QED
    BY <2>1, <2>2
<1>3. CASE Broadcast(t)
  <2>1. \A w \in Webhook : send[t][w] = Quiet
    BY <1>3 DEF Broadcast, SendTo, Shapes, SendingAwaited
  <2>2. UNCHANGED <<pending, dead, owed, refused, dropped, abandoned>>
    BY <1>3 DEF Broadcast, SendTo
  <2>3. \A u \in Tick : u # t => send'[u] = send[u]
    BY <1>1, <1>3 DEF Broadcast, SendTo
  <2>4. \A w \in Webhook : send'[t][w] \in {Quiet, Delivery(<<tick[t].event, t>>, 1)}
    BY <1>1, <1>3 DEF Broadcast, SendTo
  <2> QED
    BY <2>1, <2>2, <2>3, <2>4 DEF Quiet, Delivery
<1>4. CASE Retry(t)
  <2>1. \A w \in Webhook : send[t][w] = Quiet
    BY <1>4 DEF Retry, Sending
  <2>2. UNCHANGED <<pending, dead, owed, refused, dropped, abandoned>>
    BY <1>4 DEF Retry
  <2>3. PICK k \in tick[t].todo :
          send' = IF Present(k.hook) /\ hooks[k.hook].active
                  THEN [send EXCEPT ![t][k.hook] = Delivery(k.payload, k.n + 1)]
                  ELSE send
    BY <1>4 DEF Retry
  <2>4. \A u \in Tick : u # t => send'[u] = send[u]
    BY <1>1, <2>3
  <2>5. \A w \in Webhook : send'[t][w] \in {send[t][w], Delivery(k.payload, k.n + 1)}
    BY <1>1, <2>3
  <2> QED
    BY <2>1, <2>2, <2>4, <2>5 DEF Quiet, Delivery
<1>5. CASE \E e \in AnyEvent \cup {NoEvent} : Arrive(t, e)
  BY <1>5 DEF Arrive
<1>6. ASSUME NEW w \in Webhook, CountFailure(t, w) \/ ReadHook(t, w) \/ WriteHook(t, w)
      PROVE  /\ UNCHANGED <<pending, dead, owed, refused, dropped, abandoned>>
             /\ \A u \in Tick, v \in Webhook :
                  \/ send'[u][v] = send[u][v]
                  \/ /\ send[u][v].at \notin {"list?", "list!"}
                     /\ send'[u][v].at \notin {"list?", "list!"}
  <2>1. UNCHANGED <<pending, dead, owed, refused, dropped, abandoned>>
    BY <1>6 DEF CountFailure, ReadHook, WriteHook
  <2>2. \A u \in Tick, v \in Webhook : u # t \/ v # w => send'[u][v] = send[u][v]
    BY <1>1, <1>6 DEF CountFailure, ReadHook, WriteHook, Put
  <2>3. send[t][w].at \in {"count", "merge", "write"}
    BY <1>6 DEF CountFailure, ReadHook, WriteHook
  <2>4. send'[t][w].at \notin {"list?", "list!"}
    BY <1>1, <1>6 DEF CountFailure, ReadHook, WriteHook, Put, Quiet
  <2> QED
    BY <2>1, <2>2, <2>3, <2>4
<1> QED
  BY <1>2, <1>3, <1>4, <1>5, <1>6

LEMMA WellKeptStep == Shapes /\ WellKept /\ [Next]_vars => WellKept'
<1> SUFFICES ASSUME Shapes, WellKept, [Next]_vars PROVE WellKept'
  OBVIOUS
<1>1. ASSUME NEW t \in Tick,
             \/ TickStep(t) \/ \E e \in AnyEvent \cup {NoEvent} : Arrive(t, e)
             \/ \E w \in Webhook : CountFailure(t, w) \/ ReadHook(t, w) \/ WriteHook(t, w)
      PROVE  WellKept'
  BY <1>1, OthersUnlisted, UnlistedKept
<1>2. ASSUME NEW t \in Tick, NEW w \in Webhook, SendStep(t, w), UNCHANGED registryVars
      PROVE  WellKept'
  BY <1>1, <1>2, ListedKept DEF SendStep
<1>3. ASSUME NEW t \in Tick, Crash(t) PROVE WellKept'
  BY <1>3, CrashKept
<1>4. CASE LockExpires \/ RegistryNext \/ UNCHANGED vars
  <2>1. UNCHANGED <<send, pending, dead, owed, refused, dropped, abandoned>>
    BY <1>4 DEF LockExpires, RegistryNext, vars, deliveryVars, records, history
  <2> QED
    BY <2>1, UnlistedKept
<1> QED
  BY <1>1, <1>2, <1>3, <1>4 DEF Next, DeliveryNext

\* Whatever was recorded as to be retried is on the pending list, and whatever
\* was given up is on the dead-letter list (storage.ts:190, addToList at 43),
\* unless a concurrent rewrite of the list took it off, the request that
\* recorded it died, or that request is just about to list it: for any number
\* of webhooks, events and ticks that overlap.
THEOREM NothingForgotten == Spec => []NoAttemptForgotten
<1>1. Init => WellKept
  BY DEF Init, DeliveryInit, WellKept, Quiet
<1>2. Shapes /\ WellKept => NoAttemptForgotten
  <2> SUFFICES ASSUME Shapes, WellKept PROVE NoAttemptForgotten
    OBVIOUS
  <2>1. owed \cup refused \subseteq Attempt
    BY DEF Shapes, HistoryTyped
  <2>2. \A status : \A k \in owed \cup refused : Recording(k, status) => InHand(k)
    BY DEF Recording, InHand, Quiet
  <2> QED
    BY <2>1, <2>2 DEF NoAttemptForgotten, WellKept
<1> QED
  BY <1>1, <1>2, ShapesAlways, WellKeptStep, PTL DEF Spec

-----------------------------------------------------------------------------
(* A retry follows a failure *)

\* What an attempt, made or on its way, presupposes of those that were owed.
Follows(past, w, payload, n) ==
  n <= MaxAttempts /\ (n > 1 => AttemptKey(w, payload, n - 1) \in past)

LEMMA FollowsKept ==
  ASSUME RetryFollowsFailure, owed \subseteq owed',
         \A k \in DOMAIN attempts' : k \in DOMAIN attempts \/ Follows(owed', k.hook, k.payload, k.n),
         \A t \in Tick, w \in Webhook :
           \/ send'[t][w] = Quiet \/ Follows(owed', w, send'[t][w].payload, send'[t][w].n)
           \/ /\ send[t][w] # Quiet
              /\ send'[t][w].payload = send[t][w].payload /\ send'[t][w].n = send[t][w].n
  PROVE  RetryFollowsFailure'
<1>1. \A k \in DOMAIN attempts : Follows(owed, k.hook, k.payload, k.n)
  BY DEF RetryFollowsFailure, Follows
<1>2. \A t \in Tick : \A w \in Webhook : send[t][w] # Quiet =>
        Follows(owed, w, send[t][w].payload, send[t][w].n)
  BY DEF RetryFollowsFailure, Follows, Sending
<1>3. \A w, payload, n : Follows(owed, w, payload, n) => Follows(owed', w, payload, n)
  BY DEF Follows
<1>4. \A k \in DOMAIN attempts' : Follows(owed', k.hook, k.payload, k.n)
  BY <1>1, <1>3
<1>5. \A t \in Tick : \A w \in Webhook : send'[t][w] # Quiet =>
        Follows(owed', w, send'[t][w].payload, send'[t][w].n)
  BY <1>2, <1>3
<1> QED
  BY <1>4, <1>5 DEF RetryFollowsFailure, Follows, Sending

\* Where deliveries begin, and where attempts are recorded.
LEMMA FollowsStep == Shapes /\ RetryFollowsFailure /\ [Next]_vars => RetryFollowsFailure'
<1> SUFFICES ASSUME Shapes, RetryFollowsFailure, [Next]_vars PROVE RetryFollowsFailure'
  OBVIOUS
<1> USE DEF storeVars, records, claims, history
<1>1. send \in [Tick -> [Webhook -> SendState]]
  BY DEF Shapes, ProcessesTyped
<1>2. ASSUME UNCHANGED <<attempts, owed, send>> PROVE RetryFollowsFailure'
  BY <1>2 DEF RetryFollowsFailure, Sending
<1>3. ASSUME NEW t \in Tick, TickStep(t), ~Broadcast(t), ~Retry(t) PROVE RetryFollowsFailure'
  <2>1. UNCHANGED <<attempts, owed>>
    BY <1>3 DEF TickStep, LookForClaim, Claim, FindFailing, ReadFailing, Disable, FindActive,
                MatchSubscriptions, BroadcastDone, ReadSubscription, StampSubscription, LookForLock,
                Lock, FindDue, Finish
  <2>2. UNCHANGED send
    BY <1>3 DEF TickStep, LookForClaim, Claim, FindFailing, ReadFailing, Disable, FindActive,
                MatchSubscriptions, BroadcastDone, ReadSubscription, StampSubscription, LookForLock,
                Lock, FindDue, Finish
  <2> QED
    BY <1>2, <2>1, <2>2
<1>4. ASSUME NEW t \in Tick, Broadcast(t) PROVE RetryFollowsFailure'
  <2>1. UNCHANGED <<attempts, owed>> /\ \A u \in Tick : u # t => send'[u] = send[u]
    BY <1>1, <1>4 DEF Broadcast, SendTo
  <2>2. \A w \in Webhook : send'[t][w] = Quiet \/ send'[t][w].n = 1
    BY <1>1, <1>4 DEF Broadcast, SendTo, Delivery
  <2>3. \A w, payload : Follows(owed', w, payload, 1)
    BY TickAssumption DEF Follows
  <2>4. \A u \in Tick, w \in Webhook :
          \/ send'[u][w] = Quiet \/ Follows(owed', w, send'[u][w].payload, send'[u][w].n)
          \/ /\ send[u][w] # Quiet
             /\ send'[u][w].payload = send[u][w].payload /\ send'[u][w].n = send[u][w].n
    BY <2>1, <2>2, <2>3
  <2> QED
    BY <2>1, <2>4, FollowsKept
<1>5. ASSUME NEW t \in Tick, Retry(t) PROVE RetryFollowsFailure'
  <2>1. PICK k \in tick[t].todo :
          send' = IF Present(k.hook) /\ hooks[k.hook].active
                  THEN [send EXCEPT ![t][k.hook] = Delivery(k.payload, k.n + 1)]
                  ELSE send
    BY <1>5 DEF Retry
  <2>2. k \in owed /\ k \in Attempt /\ k.n < MaxAttempts
    BY <1>5 DEF Retry, Shapes, OwedGoesOn, HistoryTyped
  <2>3. k.hook \in Webhook /\ k.n \in 1..MaxAttempts /\ AttemptKey(k.hook, k.payload, k.n) = k
    BY <2>2 DEF Attempt, AttemptKey
  <2>4. UNCHANGED <<attempts, owed>>
    BY <1>5 DEF Retry
  <2>5. Follows(owed', k.hook, k.payload, k.n + 1)
    <3>1. k.n + 1 <= MaxAttempts /\ (k.n + 1) - 1 = k.n
      BY <2>2, <2>3, TickAssumption
    <3> QED
      BY <2>2, <2>3, <2>4, <3>1 DEF Follows
  <2>6. \A u \in Tick, w \in Webhook : send'[u][w] = send[u][w]
          \/ (w = k.hook /\ send'[u][w].payload = k.payload /\ send'[u][w].n = k.n + 1)
    BY <1>1, <2>1, <2>3 DEF Delivery
  <2> QED
    BY <2>4, <2>5, <2>6, FollowsKept
<1>6. ASSUME NEW t \in Tick, Crash(t) PROVE RetryFollowsFailure'
  <2>1. UNCHANGED <<attempts, owed>>
    BY <1>6 DEF Crash
  <2>2. \A u \in Tick, w \in Webhook : send'[u][w] = send[u][w] \/ send'[u][w] = Quiet
    BY <1>1, <1>6 DEF Crash
  <2> QED
    BY <2>1, <2>2, FollowsKept
<1>7. ASSUME NEW t \in Tick, NEW w \in Webhook, NEW outcome \in Outcome, Answer(t, w, outcome)
      PROVE  RetryFollowsFailure'
  <2>1. send[t][w].at = "sent" /\ send[t][w] # Quiet
    BY <1>7 DEF Answer, Quiet
  <2> DEFINE d == send[t][w]
             key == AttemptKey(w, d.payload, d.n)
  <2>2. DOMAIN attempts' = DOMAIN attempts \cup {key} /\ owed \subseteq owed'
    BY <1>7 DEF Answer
  <2>3. \A u \in Tick, v \in Webhook : u # t \/ v # w => send'[u][v] = send[u][v]
    BY <1>1, <1>7 DEF Answer, Put
  <2>4. send'[t][w].payload = d.payload /\ send'[t][w].n = d.n
    BY <1>1, <1>7 DEF Answer, Put
  <2>5. Follows(owed, w, d.payload, d.n)
    BY <2>1 DEF RetryFollowsFailure, Sending, Follows
  <2>6. key.hook = w /\ key.payload = d.payload /\ key.n = d.n
    BY DEF AttemptKey
  <2>7. Follows(owed', w, d.payload, d.n)
    BY <2>2, <2>5 DEF Follows
  <2> HIDE DEF key
  <2>8. \A k \in DOMAIN attempts' : k \in DOMAIN attempts \/ Follows(owed', k.hook, k.payload, k.n)
    BY <2>2, <2>6, <2>7
  <2>9. \A u \in Tick, v \in Webhook :
          \/ send'[u][v] = Quiet \/ Follows(owed', v, send'[u][v].payload, send'[u][v].n)
          \/ /\ send[u][v] # Quiet
             /\ send'[u][v].payload = send[u][v].payload /\ send'[u][v].n = send[u][v].n
    BY <2>1, <2>3, <2>4
  <2> QED
    BY <2>2, <2>8, <2>9, FollowsKept
<1>8. ASSUME NEW t \in Tick, NEW w \in Webhook,
             \/ ReadList(t, w) \/ WriteList(t, w)
             \/ CountFailure(t, w) \/ ReadHook(t, w) \/ WriteHook(t, w)
      PROVE  RetryFollowsFailure'
  <2>1. UNCHANGED <<attempts, owed>>
    BY <1>8 DEF ReadList, WriteList, CountFailure, ReadHook, WriteHook
  <2>2. \A u \in Tick, v \in Webhook : u # t \/ v # w => send'[u][v] = send[u][v]
    BY <1>1, <1>8 DEF ReadList, WriteList, CountFailure, ReadHook, WriteHook, Put
  <2>3. send[t][w] # Quiet
    BY <1>8 DEF ReadList, WriteList, CountFailure, ReadHook, WriteHook, Quiet
  <2>4. \/ send'[t][w] = Quiet
        \/ /\ send'[t][w].payload = send[t][w].payload
           /\ send'[t][w].n = send[t][w].n
    <3>1. CASE ReadList(t, w)
      <4>1. send[t][w] \in SendState /\ send[t][w].at = "list?"
        BY <1>1, <3>1 DEF ReadList
      <4>2. [send[t][w] EXCEPT !.at = "count"].payload = send[t][w].payload
            /\ [send[t][w] EXCEPT !.at = "count"].n = send[t][w].n
        BY <4>1 DEF SendState, Quiet
      <4>3. \/ send'[t][w] = [send[t][w] EXCEPT !.at = "count"]
            \/ send'[t][w].payload = send[t][w].payload /\ send'[t][w].n = send[t][w].n
        BY <1>1, <3>1 DEF ReadList, Put
      <4> QED
        BY <4>2, <4>3
    <3>2. CASE WriteList(t, w)
      BY <1>1, <3>2 DEF WriteList, Put, Count
    <3>3. CASE CountFailure(t, w)
      <4>1. \/ Put(t, w, Quiet)
            \/ \E number : Put(t, w, [at |-> "merge", payload |-> send[t][w].payload,
                                    n |-> send[t][w].n, failures |-> number])
        BY <3>3 DEF CountFailure
      <4>2. ASSUME Put(t, w, Quiet) PROVE send'[t][w] = Quiet
        BY <1>1, <4>2 DEF Put
      <4>3. ASSUME NEW number, Put(t, w, [at |-> "merge", payload |-> send[t][w].payload,
                                         n |-> send[t][w].n, failures |-> number])
            PROVE  send'[t][w].payload = send[t][w].payload /\ send'[t][w].n = send[t][w].n
        BY <1>1, <4>3 DEF Put
      <4> QED
        BY <4>1, <4>2, <4>3
    <3>4. CASE ReadHook(t, w) \/ WriteHook(t, w)
      <4>1. \/ Put(t, w, Quiet)
            \/ \E hook : Put(t, w, [at |-> "write", payload |-> send[t][w].payload,
                                  n |-> send[t][w].n, copy |-> hook])
        BY <3>4 DEF ReadHook, WriteHook
      <4>2. ASSUME Put(t, w, Quiet) PROVE send'[t][w] = Quiet
        BY <1>1, <4>2 DEF Put
      <4>3. ASSUME NEW hook, Put(t, w, [at |-> "write", payload |-> send[t][w].payload,
                                       n |-> send[t][w].n, copy |-> hook])
            PROVE  send'[t][w].payload = send[t][w].payload /\ send'[t][w].n = send[t][w].n
        BY <1>1, <4>3 DEF Put
      <4> QED
        BY <4>1, <4>2, <4>3
    <3> QED
      BY <1>8, <3>1, <3>2, <3>3, <3>4
  <2> QED
    BY <2>1, <2>2, <2>3, <2>4, FollowsKept
<1>9. ASSUME NEW t \in Tick, NEW e \in AnyEvent \cup {NoEvent}, Arrive(t, e)
      PROVE  RetryFollowsFailure'
  BY <1>2, <1>9 DEF Arrive
<1>10. CASE LockExpires \/ RegistryNext \/ UNCHANGED vars
  <2>1. UNCHANGED <<attempts, owed, send>>
    BY <1>10 DEF LockExpires, RegistryNext, vars, deliveryVars
  <2> QED
    BY <1>2, <2>1
<1> QED
  BY <1>3, <1>4, <1>5, <1>6, <1>7, <1>8, <1>9, <1>10 DEF Next, DeliveryNext, SendStep

\* Attempt n + 1 of a payload is made, or sent, only after attempt n was
\* recorded as pending, and none is beyond WEBHOOK_MAX_RETRY_ATTEMPTS
\* (processor.ts:211), however many ticks retry at the same time.
THEOREM RetriesFollowFailures == Spec => []RetryFollowsFailure
<1>1. Init => RetryFollowsFailure
  BY DEF Init, DeliveryInit, RetryFollowsFailure, Sending
<1> QED
  BY <1>1, ShapesAlways, FollowsStep, PTL DEF Spec

-----------------------------------------------------------------------------
(* What is registered is listed *)

LEMMA WritesGrow ==
  ASSUME NEW r, NEW H, NEW S, NEW D, Writes(r, H, S, D), NEW H2, NEW S2, NEW D2,
         H \subseteq H2, S \subseteq S2, D \subseteq D2
  PROVE  Writes(r, H2, S2, D2)
<1>1. /\ r.at \in {"patch", "del"} => r.hook \in H2
      /\ r.at = "repatch" => r.sub \in S2
      /\ r.at \in {"list?", "list!"} /\ r.then # NoRequest => r.value \in D2
  BY DEF Writes
<1>2. /\ r.at = "list?" => (r.then = NoRequest <=> r.how = "add")
      /\ r.at = "list!" /\ r.then = NoRequest => r.value \in r.copy
  BY DEF Writes
<1> QED
  BY <1>1, <1>2 DEF Writes

\* What the other requests are about to list, and this one.
LEMMA AddedByOthers ==
  ASSUME NEW a \in Admin, NEW next, Shapes, request' = [request EXCEPT ![a] = next], NEW list
  PROVE  /\ \A id \in BeingAdded(list) :
              \/ id \in BeingAdded(list)'
              \/ /\ request[a].at \in {"list?", "list!"} /\ request[a].then = NoRequest
                 /\ request[a].list = list /\ request[a].value = id
         /\ next.at \in {"list?", "list!"} /\ next.then = NoRequest /\ next.list = list =>
              next.value \in BeingAdded(list)'
<1>1. request'[a] = next /\ \A b \in Admin : b # a => request'[b] = request[b]
  BY DEF Shapes, ProcessesTyped
<1>2. \A b \in Admin : request'[b].at \in {"list?", "list!"} /\ request'[b].then = NoRequest
                       /\ request'[b].list = list => request'[b].value \in BeingAdded(list)'
  BY DEF BeingAdded
<1>3. \A id \in BeingAdded(list) : \E b \in Admin :
        /\ request[b].at \in {"list?", "list!"} /\ request[b].then = NoRequest
        /\ request[b].list = list /\ request[b].value = id
  BY DEF BeingAdded
<1>4. next.at \in {"list?", "list!"} /\ next.then = NoRequest /\ next.list = list =>
        next.value \in BeingAdded(list)'
  BY <1>1, <1>2
<1>5. ASSUME NEW id \in BeingAdded(list)
      PROVE  \/ id \in BeingAdded(list)'
             \/ /\ request[a].at \in {"list?", "list!"} /\ request[a].then = NoRequest
                /\ request[a].list = list /\ request[a].value = id
  <2>1. PICK b \in Admin : /\ request[b].at \in {"list?", "list!"} /\ request[b].then = NoRequest
                           /\ request[b].list = list /\ request[b].value = id
    BY <1>3
  <2>2. CASE b = a
    BY <2>1, <2>2
  <2>3. CASE b # a
    <3>1. request'[b] = request[b]
      BY <1>1, <2>3
    <3>2. request'[b].value \in BeingAdded(list)'
      BY <1>2, <2>1, <3>1
    <3> QED
      BY <2>1, <3>1, <3>2
  <2> QED
    BY <2>2, <2>3
<1> QED
  BY <1>4, <1>5

\* A request that is not about to list anything goes on.
LEMMA KnownByOthers ==
  ASSUME NEW a \in Admin, NEW next, Shapes, request' = [request EXCEPT ![a] = next],
         request[a].at \notin {"list?", "list!"},
         UNCHANGED <<hookList, subList>>, deleted \subseteq deleted', forgotten \subseteq forgotten'
  PROVE  KnownHooks \subseteq KnownHooks' /\ KnownSubs \subseteq KnownSubs'
<1>1. \A id \in BeingAdded("hooks") : id \in BeingAdded("hooks")'
  BY AddedByOthers
<1>2. \A id \in BeingAdded("subs") : id \in BeingAdded("subs")'
  BY AddedByOthers
<1> QED
  BY <1>1, <1>2 DEF KnownHooks, KnownSubs

\* A list read, and a list written.
LEMMA KnownThroughLists ==
  ASSUME NEW a \in Admin, Shapes, RequestsKnown, ReadRegistryList(a) \/ WriteRegistryList(a)
  PROVE  KnownHooks \subseteq KnownHooks' /\ KnownSubs \subseteq KnownSubs'
<1> USE DEF storeVars, registryHistory
<1>1. request \in [Admin -> RequestState] /\ request[a] \in RequestState
      /\ Writes(request[a], KnownHooks, KnownSubs, deleted)
  BY DEF Shapes, ProcessesTyped, RequestsKnown
<1> DEFINE r == request[a]
<1>2. r.at \in {"list?", "list!"} /\ r.list \in {"hooks", "subs"}
  BY <1>1, RequestStates DEF ReadRegistryList, WriteRegistryList, Is
<1>3. CASE ReadRegistryList(a)
  <2>1. UNCHANGED <<hookList, subList, deleted, forgotten>> /\ r.at = "list?"
        /\ (r.then = NoRequest <=> r.how = "add")
    BY <1>1, <1>3 DEF ReadRegistryList, Is, Writes
  <2> PICK copied : copied = IF r.how = "add" THEN CurrentList(r.list) \cup {r.value}
                                              ELSE CurrentList(r.list) \ {r.value}
    OBVIOUS
  <2> DEFINE listing == [at |-> "list!", list |-> r.list, then |-> r.then, value |-> r.value,
                         copy |-> copied]
             already == (r.value \in CurrentList(r.list)) = (r.how = "add")
  <2>5. (already /\ Become(a, r.then)) \/ Become(a, listing)
    BY <1>3 DEF ReadRegistryList
  <2>6. listing.at = "list!" /\ listing.list = r.list /\ listing.then = r.then
        /\ listing.value = r.value
    OBVIOUS
  <2> HIDE DEF listing
  <2>7. PICK next : /\ request' = [request EXCEPT ![a] = next]
                    /\ \/ already
                       \/ /\ next.at = "list!" /\ next.list = r.list /\ next.then = r.then
                          /\ next.value = r.value
    BY <2>5, <2>6 DEF Become
  <2>2. ASSUME NEW list, NEW id \in BeingAdded(list)
        PROVE  id \in BeingAdded(list)' \/ id \in CurrentList(list)
    <3>1. SUFFICES ASSUME r.then = NoRequest, r.list = list, r.value = id
                   PROVE  id \in BeingAdded(list)' \/ id \in CurrentList(list)
      BY <2>7, AddedByOthers
    <3>2. CASE (r.value \in CurrentList(r.list)) = (r.how = "add")
      BY <2>1, <3>1, <3>2
    <3>3. CASE next.at = "list!" /\ next.list = r.list /\ next.then = r.then
               /\ next.value = r.value
      BY <2>7, <3>1, <3>3, AddedByOthers
    <3> QED
      BY <2>7, <3>2, <3>3
  <2>3. CurrentList("hooks") = hookList /\ CurrentList("subs") = subList
    BY DEF CurrentList
  <2>4. (\A id \in BeingAdded("hooks") : id \in BeingAdded("hooks")' \/ id \in hookList)
        /\ (\A id \in BeingAdded("subs") : id \in BeingAdded("subs")' \/ id \in subList)
    BY <2>2, <2>3
  <2> QED
    BY <2>1, <2>4 DEF KnownHooks, KnownSubs
<1>4. CASE WriteRegistryList(a)
  <2>1. r.at = "list!" /\ request' = [request EXCEPT ![a] = r.then] /\ UNCHANGED deleted
        /\ forgotten' = forgotten \cup (CurrentList(r.list) \ (r.copy \cup {r.value}))
        /\ (r.then = NoRequest => r.value \in r.copy) /\ (r.then # NoRequest => r.value \in deleted)
    BY <1>1, <1>4 DEF WriteRegistryList, Is, Become, Writes
  <2>2. \/ r.list = "hooks" /\ hookList' = r.copy /\ UNCHANGED subList
        \/ r.list = "subs" /\ subList' = r.copy /\ UNCHANGED hookList
    BY <1>2, <1>4 DEF WriteRegistryList
  <2>3. \A list : \A id \in BeingAdded(list) :
          id \in BeingAdded(list)' \/ (r.list = list /\ id \in r.copy)
    BY <2>1, AddedByOthers
  <2>4. CASE r.list = "hooks"
    <3>1. hookList' = r.copy /\ UNCHANGED subList /\ CurrentList(r.list) = hookList
      BY <2>2, <2>4 DEF CurrentList
    <3>2. \A id \in hookList : id \in hookList' \cup deleted' \cup forgotten'
      BY <2>1, <3>1
    <3>3. (\A id \in BeingAdded("hooks") : id \in BeingAdded("hooks")' \/ id \in hookList')
          /\ (\A id \in BeingAdded("subs") : id \in BeingAdded("subs")')
      BY <2>3, <2>4, <3>1
    <3>4. deleted \subseteq deleted' /\ forgotten \subseteq forgotten'
      BY <2>1
    <3> QED
      BY <3>1, <3>2, <3>3, <3>4 DEF KnownHooks, KnownSubs
  <2>5. CASE r.list = "subs"
    <3>1. subList' = r.copy /\ UNCHANGED hookList /\ CurrentList(r.list) = subList
      BY <2>2, <2>5 DEF CurrentList
    <3>2. \A id \in subList : id \in subList' \cup deleted' \cup forgotten'
      BY <2>1, <3>1
    <3>3. (\A id \in BeingAdded("subs") : id \in BeingAdded("subs")' \/ id \in subList')
          /\ (\A id \in BeingAdded("hooks") : id \in BeingAdded("hooks")')
      BY <2>3, <2>5, <3>1
    <3>4. deleted \subseteq deleted' /\ forgotten \subseteq forgotten'
      BY <2>1
    <3> QED
      BY <3>1, <3>2, <3>3, <3>4 DEF KnownHooks, KnownSubs
  <2> QED
    BY <1>2, <2>4, <2>5
<1> QED
  BY <1>3, <1>4

\* What every step of the registry leaves true, once its own writes are known.
LEMMA RegistryKeeps ==
  ASSUME Shapes, ListedOrDeleted, NEW a \in Admin, NEW next \in RequestState,
         request' = [request EXCEPT ![a] = next], UNCHANGED deliveryVars,
         KnownHooks \subseteq KnownHooks', KnownSubs \subseteq KnownSubs', deleted \subseteq deleted',
         Writes(next, KnownHooks', KnownSubs', deleted'),
         \A w \in Webhook : hooks'[w] # Gone => hooks[w] # Gone \/ w \in KnownHooks',
         \A s \in Subscription : subs'[s] # Gone => subs[s] # Gone \/ s \in KnownSubs'
  PROVE  ListedOrDeleted'
<1> USE DEF ListedOrDeleted
<1>1. request' = [b \in Admin |-> IF b = a THEN next ELSE request[b]]
  BY DEF Shapes, ProcessesTyped
<1>2. \A b \in Admin : Writes(request'[b], KnownHooks', KnownSubs', deleted')
  <2> TAKE b \in Admin
  <2>1. CASE b = a
    BY <1>1, <2>1
  <2>2. CASE b # a
    <3>1. Writes(request[b], KnownHooks, KnownSubs, deleted) /\ request'[b] = request[b]
      BY <1>1, <2>2 DEF RequestsKnown
    <3> QED
      BY <3>1, WritesGrow
  <2> QED
    BY <2>1, <2>2
<1>3. RequestsKnown'
  BY <1>2 DEF RequestsKnown
<1>4. RecordsKnown'
  BY DEF RecordsKnown, Present
<1>5. TicksKnown' /\ SendsKnown'
  BY DEF TicksKnown, SendsKnown, deliveryVars
<1> QED
  BY <1>3, <1>4, <1>5

\* Requests that begin.
LEMMA BeginsListed ==
  ASSUME Shapes, ListedOrDeleted, NEW a \in Admin, UNCHANGED deliveryVars,
         HookRequest(a) \/ SubscriptionRequest(a)
  PROVE  ListedOrDeleted'
<1> USE DEF storeVars, registryHistory
<1>1. ASSUME NEW next \in RequestState, Begin(a, next), UNCHANGED <<storeVars, registryHistory>>,
             Writes(next, KnownHooks, KnownSubs, deleted)
      PROVE  ListedOrDeleted'
  <2>1. KnownHooks \subseteq KnownHooks' /\ KnownSubs \subseteq KnownSubs'
    BY <1>1, KnownByOthers DEF Begin, Is, Become
  <2>2. Writes(next, KnownHooks', KnownSubs', deleted')
    BY <1>1, <2>1, WritesGrow
  <2> QED
    BY <1>1, <2>1, <2>2, RegistryKeeps DEF Begin, Become
<1>2. TypeOK /\ RecordsKnown
  BY DEF Shapes, ListedOrDeleted
<1>3. ASSUME NEW w \in Webhook, CheckUrl(a, w) PROVE ListedOrDeleted'
  <2>1. Writes([at |-> "create", hook |-> w], KnownHooks, KnownSubs, deleted)
    BY DEF Writes
  <2> QED
    BY <1>1, <1>3, <2>1, StartsTyped DEF CheckUrl
<1>4. ASSUME NEW w \in Webhook, FindForDelete(a, w) PROVE ListedOrDeleted'
  <2>1. Writes([at |-> "del", hook |-> w], KnownHooks, KnownSubs, deleted)
    BY <1>2, <1>4 DEF FindForDelete, RecordsKnown, Writes
  <2> QED
    BY <1>1, <1>4, <2>1, StartsTyped DEF FindForDelete
<1>5. ASSUME NEW w \in Webhook, NEW active \in BOOLEAN, ReadForPatch(a, w, active)
      PROVE  ListedOrDeleted'
  <2> DEFINE next == [at |-> "patch", hook |-> w, copy |-> [hooks[w] EXCEPT !.active = active]]
  <2>1. hooks[w] \in HookRecord
    BY <1>2, <1>5 DEF ReadForPatch, Present, TypeOK
  <2>2. [hooks[w] EXCEPT !.active = active] \in HookRecord
    BY <2>1 DEF HookRecord
  <2>3. next \in RequestState
    BY <2>2, StartsTyped
  <2>4. Writes(next, KnownHooks, KnownSubs, deleted)
    BY <1>2, <1>5 DEF ReadForPatch, RecordsKnown, Writes
  <2>5. Begin(a, next) /\ UNCHANGED <<storeVars, registryHistory>>
    BY <1>5 DEF ReadForPatch
  <2> HIDE DEF next
  <2> QED
    BY <1>1, <2>3, <2>4, <2>5
<1>6. ASSUME NEW s \in Subscription, FindForUnsubscribe(a, s) PROVE ListedOrDeleted'
  <2>1. Writes([at |-> "sweep", todo |-> {s}], KnownHooks, KnownSubs, deleted)
    BY DEF Writes
  <2>2. [at |-> "sweep", todo |-> {s}] \in RequestState
    BY StartsTyped
  <2> QED
    BY <1>1, <1>6, <2>1, <2>2 DEF FindForUnsubscribe
<1>7. ASSUME NEW s \in Subscription, NEW w \in Webhook, NEW wants \in Filter, FindHook(a, w, s, wants)
      PROVE  ListedOrDeleted'
  <2>1. Writes([at |-> "subscribe", hook |-> w, sub |-> s, wants |-> wants],
               KnownHooks, KnownSubs, deleted)
    BY DEF Writes
  <2> QED
    BY <1>1, <1>7, <2>1, StartsTyped DEF FindHook
<1>8. ASSUME NEW s \in Subscription, NEW active \in BOOLEAN, ReadForSubscriptionPatch(a, s, active)
      PROVE  ListedOrDeleted'
  <2> DEFINE next == [at |-> "repatch", sub |-> s, copy |-> [subs[s] EXCEPT !.active = active]]
  <2>1. subs[s] \in SubRecord
    BY <1>2, <1>8 DEF ReadForSubscriptionPatch, Reachable, TypeOK
  <2>2. [subs[s] EXCEPT !.active = active] \in SubRecord
    BY <2>1 DEF SubRecord
  <2>3. next \in RequestState
    BY <2>2, StartsTyped
  <2>4. Writes(next, KnownHooks, KnownSubs, deleted)
    BY <1>2, <1>8 DEF ReadForSubscriptionPatch, Reachable, RecordsKnown, Writes
  <2>5. Begin(a, next) /\ UNCHANGED <<storeVars, registryHistory>>
    BY <1>8 DEF ReadForSubscriptionPatch
  <2> HIDE DEF next
  <2> QED
    BY <1>1, <2>3, <2>4, <2>5
<1> QED
  BY <1>3, <1>4, <1>5, <1>6, <1>7, <1>8 DEF HookRequest, SubscriptionRequest

\* Requests that go on.
LEMMA GoesOnListed ==
  ASSUME Shapes, ListedOrDeleted, NEW a \in Admin, UNCHANGED deliveryVars, RequestStep(a)
  PROVE  ListedOrDeleted'
<1> USE DEF storeVars, registryHistory
<1>1. request \in [Admin -> RequestState] /\ request[a] \in RequestState
      /\ Writes(request[a], KnownHooks, KnownSubs, deleted) /\ TypeOK
  BY DEF Shapes, ProcessesTyped, ListedOrDeleted, RequestsKnown
<1> DEFINE r == request[a]
<1>2. \A then \in Follow : \A H, S, D : Writes(then, H, S, D)
  BY DEF Follow, Writes, NoRequest
<1>3. ASSUME NEW next \in RequestState, Become(a, next), r.at \notin {"list?", "list!"},
             UNCHANGED <<hookList, subList>>, deleted \subseteq deleted', forgotten \subseteq forgotten'
      PROVE  /\ KnownHooks \subseteq KnownHooks' /\ KnownSubs \subseteq KnownSubs'
             /\ next.at \in {"list?", "list!"} /\ next.then = NoRequest =>
                  /\ next.list = "hooks" => next.value \in KnownHooks'
                  /\ next.list = "subs" => next.value \in KnownSubs'
  <2>1. request' = [request EXCEPT ![a] = next]
    BY <1>3 DEF Become
  <2>2. KnownHooks \subseteq KnownHooks' /\ KnownSubs \subseteq KnownSubs'
    BY <1>3, <2>1, KnownByOthers
  <2>3. next.at \in {"list?", "list!"} /\ next.then = NoRequest /\ next.list = "hooks" =>
          next.value \in BeingAdded("hooks")'
    BY <2>1, AddedByOthers
  <2>4. next.at \in {"list?", "list!"} /\ next.then = NoRequest /\ next.list = "subs" =>
          next.value \in BeingAdded("subs")'
    BY <2>1, AddedByOthers
  <2> QED
    BY <2>2, <2>3, <2>4 DEF KnownHooks, KnownSubs
<1>4. CASE ReadRegistryList(a)
  <2>1. UNCHANGED <<storeVars, registryHistory>> /\ r.at = "list?"
    BY <1>4 DEF ReadRegistryList, Is
  <2>2. KnownHooks \subseteq KnownHooks' /\ KnownSubs \subseteq KnownSubs'
    BY <1>4, KnownThroughLists DEF ListedOrDeleted
  <2> PICK copied : copied = IF r.how = "add" THEN CurrentList(r.list) \cup {r.value}
                                              ELSE CurrentList(r.list) \ {r.value}
    OBVIOUS
  <2> DEFINE listing == [at |-> "list!", list |-> r.list, then |-> r.then, value |-> r.value,
                         copy |-> copied]
  <2>3. r.then \in Follow /\ (r.then = NoRequest <=> r.how = "add")
        /\ (r.then # NoRequest => r.value \in deleted)
    BY <1>1, <2>1, RequestStates DEF Writes
  <2>4. listing \in RequestState
    <3>1. CASE r.list = "hooks" /\ r.value \in Webhook
      <4>1. copied \subseteq Webhook
        BY <1>1, <3>1 DEF CurrentList, TypeOK
      <4> QED
        BY <2>3, <3>1, <4>1 DEF RequestState
    <3>2. CASE r.list = "subs" /\ r.value \in Subscription
      <4>1. copied \subseteq Subscription
        BY <1>1, <3>2 DEF CurrentList, TypeOK
      <4> QED
        BY <2>3, <3>2, <4>1 DEF RequestState
    <3> QED
      BY <1>1, <2>1, <3>1, <3>2, RequestStates
  <2>5. Writes(listing, KnownHooks', KnownSubs', deleted')
    BY <2>1, <2>3 DEF Writes
  <2>6. Become(a, r.then) \/ Become(a, listing)
    BY <1>4 DEF ReadRegistryList
  <2>7. Writes(r.then, KnownHooks', KnownSubs', deleted') /\ r.then \in RequestState
    BY <1>2, <2>3, StartsTyped
  <2> HIDE DEF listing
  <2> QED
    BY <2>1, <2>2, <2>4, <2>5, <2>6, <2>7, RegistryKeeps DEF Become
<1>5. CASE WriteRegistryList(a)
  <2>1. UNCHANGED <<hooks, subs, deleted>> /\ Become(a, r.then) /\ r.at = "list!"
    BY <1>5 DEF WriteRegistryList, Is
  <2>2. KnownHooks \subseteq KnownHooks' /\ KnownSubs \subseteq KnownSubs'
    BY <1>5, KnownThroughLists DEF ListedOrDeleted
  <2>3. r.then \in Follow
    BY <1>1, <2>1, RequestStates
  <2>4. Writes(r.then, KnownHooks', KnownSubs', deleted') /\ r.then \in RequestState
    BY <1>2, <2>3, StartsTyped
  <2> QED
    BY <2>1, <2>2, <2>4, RegistryKeeps DEF Become
<1>6. CASE CreateWebhook(a)
  <2> DEFINE next == Listing("hooks", "add", r.hook, NoRequest)
  <2>1. r.hook \in Webhook /\ r.at = "create"
    BY <1>1, <1>6, RequestStates DEF CreateWebhook, Is
  <2>2. next \in RequestState
    BY <2>1, StartsTyped
  <2>3. next.at = "list?" /\ next.list = "hooks" /\ next.then = NoRequest /\ next.value = r.hook
        /\ next.how = "add"
    BY DEF Listing
  <2>4. Become(a, next) /\ UNCHANGED <<hookList, subs, subList, registryHistory>>
        /\ hooks' = [hooks EXCEPT ![r.hook] = FreshHook]
    BY <1>6 DEF CreateWebhook, SetHook
  <2> HIDE DEF next
  <2>5. KnownHooks \subseteq KnownHooks' /\ KnownSubs \subseteq KnownSubs' /\ r.hook \in KnownHooks'
    BY <1>3, <2>1, <2>2, <2>3, <2>4
  <2>6. Writes(next, KnownHooks', KnownSubs', deleted')
    BY <2>3 DEF Writes
  <2>7. \A w \in Webhook : hooks'[w] # Gone => hooks[w] # Gone \/ w \in KnownHooks'
    BY <1>1, <2>4, <2>5 DEF TypeOK
  <2> QED
    BY <2>2, <2>4, <2>5, <2>6, <2>7, RegistryKeeps DEF Become
<1>7. CASE WritePatch(a)
  <2>1. r.at = "patch" /\ r.hook \in KnownHooks /\ hooks' = [hooks EXCEPT ![r.hook] = r.copy]
        /\ Become(a, NoRequest) /\ UNCHANGED <<hookList, subs, subList, registryHistory>>
    BY <1>1, <1>7 DEF WritePatch, Is, SetHook, Rest, Writes
  <2>2. KnownHooks \subseteq KnownHooks' /\ KnownSubs \subseteq KnownSubs'
    BY <1>3, <2>1, StartsTyped
  <2>3. \A w \in Webhook : hooks'[w] # Gone => hooks[w] # Gone \/ w \in KnownHooks'
    BY <1>1, <2>1, <2>2 DEF TypeOK
  <2>4. Writes(NoRequest, KnownHooks', KnownSubs', deleted')
    BY <1>2, StartsTyped
  <2> QED
    BY <2>1, <2>2, <2>3, <2>4, StartsTyped, RegistryKeeps DEF Become
<1>8. CASE DeleteHook(a)
  <2> DEFINE orphans == [at |-> "orphans", hook |-> r.hook]
             next == Listing("hooks", "remove", r.hook, orphans)
  <2>1. r.at = "del" /\ r.hook \in Webhook
    BY <1>1, <1>8, RequestStates DEF DeleteHook, Is
  <2>2. orphans \in Follow /\ next \in RequestState
    BY <2>1, StartsTyped
  <2>3. next.at = "list?" /\ next.how = "remove" /\ next.value = r.hook /\ next.then # NoRequest
    BY DEF Listing, NoRequest
  <2>4. hooks' = [hooks EXCEPT ![r.hook] = Gone] /\ deleted' = deleted \cup {r.hook}
        /\ Become(a, next) /\ UNCHANGED <<hookList, subs, subList, forgotten>>
    BY <1>8 DEF DeleteHook, DelHook
  <2> HIDE DEF next
  <2>5. KnownHooks \subseteq KnownHooks' /\ KnownSubs \subseteq KnownSubs'
    BY <1>3, <2>1, <2>2, <2>4
  <2>6. \A w \in Webhook : hooks'[w] # Gone => hooks[w] # Gone
    BY <1>1, <2>4 DEF TypeOK
  <2>7. Writes(next, KnownHooks', KnownSubs', deleted')
    BY <2>3, <2>4 DEF Writes
  <2> QED
    BY <2>2, <2>4, <2>5, <2>6, <2>7, RegistryKeeps DEF Become
<1>9. CASE FindSubscriptions(a)
  <2> DEFINE next == [at |-> "sweep", todo |-> SubscriptionsOf(subList, r.hook)]
  <2>1. next \in Follow /\ next \in RequestState
    BY <1>1, StartsTyped DEF SubscriptionsOf, TypeOK
  <2>2. r.at = "orphans" /\ Become(a, next) /\ UNCHANGED <<storeVars, registryHistory>>
    BY <1>9 DEF FindSubscriptions, Is
  <2> HIDE DEF next
  <2>3. KnownHooks \subseteq KnownHooks' /\ KnownSubs \subseteq KnownSubs'
    BY <1>3, <2>1, <2>2
  <2>4. Writes(next, KnownHooks', KnownSubs', deleted')
    BY <1>2, <2>1
  <2> QED
    BY <2>1, <2>2, <2>3, <2>4, RegistryKeeps DEF Become
<1>10. CASE SweepSubscription(a)
  <2>1. r.at = "sweep" /\ r.todo \subseteq Subscription
        /\ UNCHANGED <<hooks, hookList, subList, forgotten>>
    BY <1>1, <1>10, RequestStates DEF SweepSubscription, Is
  <2>2. CASE r.todo = {}
    <3>1. Become(a, NoRequest) /\ UNCHANGED <<subs, deleted>>
      BY <1>10, <2>2 DEF SweepSubscription, Rest
    <3>2. KnownHooks \subseteq KnownHooks' /\ KnownSubs \subseteq KnownSubs'
      BY <1>3, <2>1, <3>1, StartsTyped
    <3>3. Writes(NoRequest, KnownHooks', KnownSubs', deleted')
      BY <1>2, StartsTyped
    <3> QED
      BY <2>1, <3>1, <3>2, <3>3, StartsTyped, RegistryKeeps DEF Become
  <2>3. CASE r.todo # {}
    <3>1. PICK s \in r.todo :
            /\ subs' = [subs EXCEPT ![s] = Gone] /\ deleted' = deleted \cup {s}
            /\ LET rest == [r EXCEPT !.todo = r.todo \ {s}] IN
               Become(a, IF subs[s] = Gone THEN rest ELSE Listing("subs", "remove", s, rest))
      BY <1>10, <2>3 DEF SweepSubscription
    <3> DEFINE rest == [r EXCEPT !.todo = r.todo \ {s}]
               listing == Listing("subs", "remove", s, rest)
    <3>2. rest \in Follow /\ rest \in RequestState /\ listing \in RequestState
      BY <1>1, <2>1, RequestStates, StartsTyped
    <3>3. rest # NoRequest
      BY <1>1, <2>1 DEF NoRequest, RequestState, Follow
    <3>4. listing.at = "list?" /\ listing.how = "remove" /\ listing.value = s /\ listing.then = rest
      BY DEF Listing
    <3>5. Become(a, rest) \/ Become(a, listing)
      BY <3>1
    <3> HIDE DEF listing, rest
    <3>6. ASSUME NEW next \in RequestState, Become(a, next),
                 Writes(next, KnownHooks', KnownSubs', deleted')
          PROVE  ListedOrDeleted'
      <4>1. KnownHooks \subseteq KnownHooks' /\ KnownSubs \subseteq KnownSubs'
        BY <1>3, <2>1, <3>1, <3>6
      <4>2. \A x \in Subscription : subs'[x] # Gone => subs[x] # Gone
        BY <1>1, <3>1 DEF TypeOK
      <4> QED
        BY <2>1, <3>1, <3>6, <4>1, <4>2, RegistryKeeps DEF Become
    <3>7. Writes(listing, KnownHooks', KnownSubs', deleted')
      BY <3>1, <3>3, <3>4 DEF Writes
    <3>8. Writes(rest, KnownHooks', KnownSubs', deleted')
      BY <1>2, <3>2
    <3> QED
      BY <3>2, <3>5, <3>6, <3>7, <3>8
  <2> QED
    BY <2>2, <2>3
<1>11. CASE CreateSubscription(a)
  <2> DEFINE next == Listing("subs", "add", r.sub, NoRequest)
  <2>1. r.sub \in Subscription /\ r.at = "subscribe"
    BY <1>1, <1>11, RequestStates DEF CreateSubscription, Is
  <2>2. next \in RequestState
    BY <2>1, StartsTyped
  <2>3. next.at = "list?" /\ next.list = "subs" /\ next.then = NoRequest /\ next.value = r.sub
        /\ next.how = "add"
    BY DEF Listing
  <2>4. Become(a, next) /\ UNCHANGED <<hooks, hookList, subList, registryHistory>>
        /\ \A s \in Subscription : s # r.sub => subs'[s] = subs[s]
    BY <1>1, <1>11 DEF CreateSubscription, TypeOK
  <2> HIDE DEF next
  <2>5. KnownHooks \subseteq KnownHooks' /\ KnownSubs \subseteq KnownSubs' /\ r.sub \in KnownSubs'
    BY <1>3, <2>1, <2>2, <2>3, <2>4
  <2>6. Writes(next, KnownHooks', KnownSubs', deleted')
    BY <2>3 DEF Writes
  <2>7. \A s \in Subscription : subs'[s] # Gone => subs[s] # Gone \/ s \in KnownSubs'
    BY <2>4, <2>5
  <2> QED
    BY <2>2, <2>4, <2>5, <2>6, <2>7, RegistryKeeps DEF Become
<1>12. CASE WriteSubscriptionPatch(a)
  <2>1. r.at = "repatch" /\ r.sub \in KnownSubs /\ subs' = [subs EXCEPT ![r.sub] = r.copy]
        /\ Become(a, NoRequest) /\ UNCHANGED <<hooks, hookList, subList, registryHistory>>
    BY <1>1, <1>12 DEF WriteSubscriptionPatch, Is, Rest, Writes
  <2>2. KnownHooks \subseteq KnownHooks' /\ KnownSubs \subseteq KnownSubs'
    BY <1>3, <2>1, StartsTyped
  <2>3. \A s \in Subscription : subs'[s] # Gone => subs[s] # Gone \/ s \in KnownSubs'
    BY <1>1, <2>1, <2>2 DEF TypeOK
  <2>4. Writes(NoRequest, KnownHooks', KnownSubs', deleted')
    BY <1>2, StartsTyped
  <2> QED
    BY <2>1, <2>2, <2>3, <2>4, StartsTyped, RegistryKeeps DEF Become
<1> QED
  BY <1>4, <1>5, <1>6, <1>7, <1>8, <1>9, <1>10, <1>11, <1>12 DEF RequestStep

\* Ticks and deliveries leave the lists alone, and write what is known.
LEMMA DeliveriesKeep ==
  ASSUME Shapes, ListedOrDeleted, NEW t \in Tick,
         UNCHANGED <<registryVars, hookList, subList>>,
         \A w \in Webhook : hooks'[w] # Gone => hooks[w] # Gone \/ w \in KnownHooks,
         \A s \in Subscription : subs'[s] # Gone => subs[s] # Gone \/ s \in KnownSubs,
         \A u \in Tick : u # t => tick'[u] = tick[u],
         tick'[t].at = "disable!" => (CHOOSE x \in tick'[t].todo : TRUE) \in KnownHooks,
         tick'[t].at = "stamp!" => (CHOOSE x \in tick'[t].subs : TRUE) \in KnownSubs,
         \A u \in Tick, w \in Webhook :
           send'[u][w] = send[u][w] \/ (send'[u][w].at = "write" => w \in KnownHooks)
  PROVE  ListedOrDeleted'
<1> USE DEF ListedOrDeleted
<1>1. UNCHANGED <<request, hookList, subList, deleted, forgotten>>
  BY DEF registryVars, registryHistory
<1>2. KnownHooks' = KnownHooks /\ KnownSubs' = KnownSubs
  BY <1>1 DEF KnownHooks, KnownSubs, BeingAdded
<1>3. RecordsKnown'
  BY <1>2 DEF RecordsKnown, Present
<1>4. RequestsKnown'
  BY <1>1, <1>2 DEF RequestsKnown
<1>5. TicksKnown'
  <2>1. ASSUME NEW u \in Tick
        PROVE  /\ tick'[u].at = "disable!" => (CHOOSE x \in tick'[u].todo : TRUE) \in KnownHooks
               /\ tick'[u].at = "stamp!" => (CHOOSE x \in tick'[u].subs : TRUE) \in KnownSubs
    <3>1. CASE u = t
      BY <3>1
    <3>2. CASE u # t
      <4>1. tick'[u] = tick[u]
        BY <3>2
      <4> QED
        BY <4>1 DEF TicksKnown
    <3> QED
      BY <3>1, <3>2
  <2> QED
    BY <1>2, <2>1 DEF TicksKnown
<1>6. SendsKnown'
  BY <1>2 DEF SendsKnown
<1> QED
  BY <1>3, <1>4, <1>5, <1>6

\* Where a tick does not go on to a write.
LEMMA NoWriteAhead ==
  ASSUME Shapes, NEW t \in Tick,
         \/ LookForClaim(t) \/ Claim(t) \/ FindFailing(t) \/ Disable(t) \/ FindActive(t)
         \/ MatchSubscriptions(t) \/ Broadcast(t) \/ BroadcastDone(t) \/ StampSubscription(t)
         \/ LookForLock(t) \/ Lock(t) \/ (\E due \in SUBSET pending : FindDue(t, due))
         \/ Retry(t) \/ Finish(t) \/ Crash(t)
         \/ (\E e \in AnyEvent \cup {NoEvent} : Arrive(t, e))
  PROVE  /\ \A u \in Tick : u # t => tick'[u] = tick[u]
         /\ tick'[t].at \notin {"disable!", "stamp!"}
<1>1. tick \in [Tick -> TickState] /\ tick[t] \in TickRecord /\ Fits(tick[t])
  BY DEF Shapes, ProcessesTyped, TickState
<1>2. ASSUME NEW next, tick' = [tick EXCEPT ![t] = next], next.at \notin {"disable!", "stamp!"}
      PROVE  /\ \A u \in Tick : u # t => tick'[u] = tick[u]
             /\ tick'[t].at \notin {"disable!", "stamp!"}
  BY <1>1, <1>2
<1>3. \A at : [tick[t] EXCEPT !.at = at].at = at
  BY <1>1 DEF TickRecord
<1>4. \A at, left : [tick[t] EXCEPT !.at = at, !.todo = left].at = at
  BY <1>1 DEF TickRecord
<1>5. Resting.at = "idle"
  BY DEF Resting
<1>6. ASSUME NEW at, GoTo(t, at), at \notin {"disable!", "stamp!"}
      PROVE  /\ \A u \in Tick : u # t => tick'[u] = tick[u]
             /\ tick'[t].at \notin {"disable!", "stamp!"}
  <2>1. tick' = [tick EXCEPT ![t] = [tick[t] EXCEPT !.at = at]]
    BY <1>1, <1>6 DEF GoTo
  <2> QED
    BY <1>2, <1>3, <1>6, <2>1
<1>7. ASSUME NEW at, NEW left, GoToWith(t, at, left), at \notin {"disable!", "stamp!"}
      PROVE  /\ \A u \in Tick : u # t => tick'[u] = tick[u]
             /\ tick'[t].at \notin {"disable!", "stamp!"}
  <2>1. tick' = [tick EXCEPT ![t] = [tick[t] EXCEPT !.at = at, !.todo = left]]
    BY <1>1, <1>7 DEF GoToWith
  <2> QED
    BY <1>2, <1>4, <1>7, <2>1
<1>8. CASE LookForClaim(t)
  BY <1>6, <1>8 DEF LookForClaim
<1>9. CASE Claim(t) \/ Lock(t)
  BY <1>6, <1>9 DEF Claim, Lock
<1>10. CASE FindFailing(t) \/ FindActive(t)
  BY <1>7, <1>10 DEF FindFailing, FindActive
<1>11. CASE LookForLock(t) \/ Finish(t) \/ Crash(t)
  BY <1>2, <1>5, <1>6, <1>11 DEF LookForLock, Finish, Crash
<1>12. CASE Disable(t)
  <2> DEFINE w == CHOOSE x \in tick[t].todo : TRUE
  <2>1. tick' = [tick EXCEPT ![t] = Disabled(tick[t], w)]
    BY <1>1, <1>12 DEF Disable
  <2>2. Disabled(tick[t], w).at \in {"active", "disable?"}
    BY <1>1 DEF Disabled, TickRecord
  <2> QED
    BY <1>2, <2>1, <2>2
<1>13. CASE MatchSubscriptions(t)
  <2> PICK matching : matching = Matching(subList, tick[t].event)
    OBVIOUS
  <2> DEFINE next == [tick[t] EXCEPT !.at = "fetch", !.subs = matching,
                                     !.todo = {subs[s].webhook : s \in matching}]
  <2>1. tick' = [tick EXCEPT ![t] = Resting] \/ tick' = [tick EXCEPT ![t] = next]
    BY <1>1, <1>13 DEF MatchSubscriptions
  <2>2. next.at = "fetch"
    BY <1>1 DEF TickRecord
  <2> HIDE DEF next
  <2> QED
    BY <1>2, <1>5, <2>1, <2>2
<1>14. CASE Broadcast(t)
  <2> PICK rest : rest = IF ActiveOf(tick[t].todo) = {} THEN {} ELSE tick[t].subs
    OBVIOUS
  <2> DEFINE next == [tick[t] EXCEPT !.at = "broadcast", !.todo = {}, !.subs = rest]
  <2>1. tick' = [tick EXCEPT ![t] = next]
    BY <1>1, <1>14 DEF Broadcast, SendTo
  <2>2. next.at = "broadcast"
    BY <1>1 DEF TickRecord
  <2> HIDE DEF next
  <2> QED
    BY <1>2, <2>1, <2>2
<1>15. CASE BroadcastDone(t)
  <2>1. tick[t].event \in AnyEvent
    BY <1>1, <1>15 DEF BroadcastDone, Fits
  <2>2. GoTo(t, "lock?") \/ GoTo(t, "stamp?") \/ tick' = [tick EXCEPT ![t] = Resting]
    <3>1. CASE tick[t].event \in Event
      BY <1>15, <3>1 DEF BroadcastDone
    <3> QED
      BY <1>15, <2>1 DEF BroadcastDone, AnyEvent
  <2> QED
    BY <1>2, <1>5, <1>6, <2>2
<1>16. CASE StampSubscription(t)
  <2> DEFINE next == [tick[t] EXCEPT !.at = "stamp?", !.copy = Gone,
                                     !.subs = tick[t].subs \ {CHOOSE x \in tick[t].subs : TRUE}]
  <2>1. tick' = [tick EXCEPT ![t] = next]
    BY <1>1, <1>16 DEF StampSubscription
  <2>2. next.at = "stamp?"
    BY <1>1 DEF TickRecord
  <2> HIDE DEF next
  <2> QED
    BY <1>2, <2>1, <2>2
<1>17. ASSUME NEW due \in SUBSET pending, FindDue(t, due)
       PROVE  /\ \A u \in Tick : u # t => tick'[u] = tick[u]
              /\ tick'[t].at \notin {"disable!", "stamp!"}
  <2> DEFINE next == [tick[t] EXCEPT !.at = "retry", !.todo = due]
  <2>1. tick' = [tick EXCEPT ![t] = Resting] \/ tick' = [tick EXCEPT ![t] = next]
    BY <1>1, <1>17 DEF FindDue
  <2>2. next.at = "retry"
    BY <1>4
  <2> HIDE DEF next
  <2> QED
    BY <1>2, <1>5, <2>1, <2>2
<1>18. CASE Retry(t)
  <2>1. PICK k \in tick[t].todo : tick' = [tick EXCEPT ![t].todo = @ \ {k}]
    BY <1>18 DEF Retry
  <2> DEFINE next == [tick[t] EXCEPT !.todo = tick[t].todo \ {k}]
  <2>2. tick' = [tick EXCEPT ![t] = next]
    BY <1>1, <2>1
  <2>3. next.at = "retry"
    BY <1>1, <1>18 DEF TickRecord, Retry
  <2> HIDE DEF next
  <2> QED
    BY <1>2, <2>2, <2>3
<1>19. ASSUME NEW e \in AnyEvent \cup {NoEvent}, Arrive(t, e)
       PROVE  /\ \A u \in Tick : u # t => tick'[u] = tick[u]
              /\ tick'[t].at \notin {"disable!", "stamp!"}
  <2>1. PICK at : /\ at = CASE e = NoEvent -> "lock?"
                            [] e \in Event -> "claim?"
                            [] e \in ProductEvent -> "match"
                            [] e \in Alert -> "active"
                  /\ tick' = [tick EXCEPT ![t] = [Resting EXCEPT !.event = e, !.at = at]]
    BY <1>19 DEF Arrive
  <2>2. at \in {"lock?", "claim?", "match", "active"}
    BY <2>1 DEF AnyEvent
  <2>3. [Resting EXCEPT !.event = e, !.at = at].at = at
    BY DEF Resting
  <2> QED
    BY <1>2, <2>1, <2>2, <2>3
<1> QED
  BY <1>8, <1>9, <1>10, <1>11, <1>12, <1>13, <1>14, <1>15, <1>16, <1>17, <1>18, <1>19

\* The deliveries that do not go on to write a webhook's record.
LEMMA SendsStay ==
  ASSUME Shapes, NEW t \in Tick,
         \/ TickStep(t) \/ Crash(t) \/ \E e \in AnyEvent \cup {NoEvent} : Arrive(t, e)
  PROVE  \A u \in Tick, w \in Webhook : send'[u][w] = send[u][w] \/ send'[u][w].at # "write"
<1>1. send \in [Tick -> [Webhook -> SendState]]
  BY DEF Shapes, ProcessesTyped
<1>2. CASE Broadcast(t)
  <2>1. \A u \in Tick : u # t => send'[u] = send[u]
    BY <1>1, <1>2 DEF Broadcast, SendTo
  <2>2. \A w \in Webhook : send'[t][w] \in {Quiet, Delivery(<<tick[t].event, t>>, 1)}
    BY <1>1, <1>2 DEF Broadcast, SendTo
  <2> QED
    BY <2>1, <2>2 DEF Quiet, Delivery
<1>3. CASE Retry(t)
  <2>1. PICK k \in tick[t].todo :
          send' = IF Present(k.hook) /\ hooks[k.hook].active
                  THEN [send EXCEPT ![t][k.hook] = Delivery(k.payload, k.n + 1)]
                  ELSE send
    BY <1>3 DEF Retry
  <2>2. \A u \in Tick : u # t => send'[u] = send[u]
    BY <1>1, <2>1
  <2>3. \A w \in Webhook : send'[t][w] \in {send[t][w], Delivery(k.payload, k.n + 1)}
    BY <1>1, <2>1
  <2> QED
    BY <2>2, <2>3 DEF Delivery
<1>4. CASE Crash(t)
  <2>1. \A u \in Tick, w \in Webhook : send'[u][w] = send[u][w] \/ send'[u][w] = Quiet
    BY <1>1, <1>4 DEF Crash
  <2> QED
    BY <2>1 DEF Quiet
<1>5. CASE \E e \in AnyEvent \cup {NoEvent} : Arrive(t, e)
  BY <1>5 DEF Arrive
<1>6. CASE TickStep(t) /\ ~Broadcast(t) /\ ~Retry(t)
  BY <1>6 DEF TickStep, LookForClaim, Claim, FindFailing, ReadFailing, Disable, FindActive,
              MatchSubscriptions, BroadcastDone, ReadSubscription, StampSubscription, LookForLock,
              Lock, FindDue, Finish
<1> QED
  BY <1>2, <1>3, <1>4, <1>5, <1>6

\* Ticks: the records they switch off or stamp are known since they were found.
LEMMA TicksListed ==
  ASSUME Shapes, ListedOrDeleted, NEW t \in Tick, UNCHANGED registryVars,
         \/ TickStep(t) \/ Crash(t) \/ \E e \in AnyEvent \cup {NoEvent} : Arrive(t, e)
  PROVE  ListedOrDeleted'
<1> USE DEF storeVars
<1>1. tick \in [Tick -> TickState] /\ tick[t] \in TickRecord /\ Fits(tick[t]) /\ TypeOK
  BY DEF Shapes, ProcessesTyped, TickState
<1>2. \A u \in Tick, w \in Webhook : send'[u][w] = send[u][w] \/ send'[u][w].at # "write"
  BY SendsStay
<1>3. UNCHANGED <<hookList, subList>>
  BY DEF TickStep, LookForClaim, Claim, FindFailing, ReadFailing, Disable, FindActive, Broadcast,
         SendTo, MatchSubscriptions, BroadcastDone, ReadSubscription, StampSubscription, LookForLock,
         Lock, FindDue, Retry, Finish, Crash, Arrive
<1>4. ~Disable(t) => UNCHANGED hooks
  BY DEF TickStep, LookForClaim, Claim, FindFailing, ReadFailing, FindActive, Broadcast,
         SendTo, MatchSubscriptions, BroadcastDone, ReadSubscription, StampSubscription, LookForLock,
         Lock, FindDue, Retry, Finish, Crash, Arrive
<1>5. ~StampSubscription(t) => UNCHANGED subs
  BY DEF TickStep, LookForClaim, Claim, FindFailing, ReadFailing, Disable, FindActive, Broadcast,
         SendTo, MatchSubscriptions, BroadcastDone, ReadSubscription, LookForLock,
         Lock, FindDue, Retry, Finish, Crash, Arrive
<1>6. \A w \in Webhook : hooks'[w] # Gone => hooks[w] # Gone \/ w \in KnownHooks
  <2>1. CASE Disable(t)
    <3> DEFINE w == CHOOSE x \in tick[t].todo : TRUE
    <3>1. w \in KnownHooks
      BY <2>1 DEF ListedOrDeleted, TicksKnown, Disable
    <3>2. hooks' = [hooks EXCEPT ![w] = [tick[t].copy EXCEPT !.active = FALSE]]
      BY <2>1 DEF Disable, SetHook
    <3> QED
      BY <1>1, <3>1, <3>2 DEF TypeOK
  <2> QED
    BY <1>4, <2>1
<1>7. \A s \in Subscription : subs'[s] # Gone => subs[s] # Gone \/ s \in KnownSubs
  <2>1. CASE StampSubscription(t)
    <3> DEFINE s == CHOOSE x \in tick[t].subs : TRUE
    <3>1. s \in KnownSubs
      BY <2>1 DEF ListedOrDeleted, TicksKnown, StampSubscription
    <3>2. subs' = [subs EXCEPT ![s] = tick[t].copy]
      BY <2>1 DEF StampSubscription
    <3> QED
      BY <1>1, <3>1, <3>2 DEF TypeOK
  <2> QED
    BY <1>5, <2>1
<1>8. CASE ReadFailing(t)
  <2> DEFINE w == CHOOSE x \in tick[t].todo : TRUE
             next == [tick[t] EXCEPT !.at = "disable!", !.copy = hooks[w]]
  <2>1. w \in tick[t].todo /\ w \in Webhook
    BY <1>1, <1>8 DEF ReadFailing, Fits
  <2>2. CASE Present(w)
    <3>1. tick' = [tick EXCEPT ![t] = next]
      BY <1>1, <1>8, <2>2 DEF ReadFailing
    <3>2. next.at = "disable!" /\ next.todo = tick[t].todo
      BY <1>1 DEF TickRecord
    <3>3. w \in KnownHooks
      BY <2>1, <2>2 DEF ListedOrDeleted, RecordsKnown
    <3> HIDE DEF next
    <3>4. tick'[t].at = "disable!" /\ tick'[t].todo = tick[t].todo
          /\ \A u \in Tick : u # t => tick'[u] = tick[u]
      BY <1>1, <3>1, <3>2
    <3> QED
      BY <1>2, <1>3, <1>6, <1>7, <3>3, <3>4, DeliveriesKeep
  <2>3. CASE ~Present(w)
    <3>1. tick' = [tick EXCEPT ![t] = Disabled(tick[t], w)]
      BY <1>1, <1>8, <2>3 DEF ReadFailing
    <3>2. Disabled(tick[t], w).at \in {"active", "disable?"}
      BY <1>1 DEF Disabled, TickRecord
    <3>3. tick'[t].at \notin {"disable!", "stamp!"} /\ \A u \in Tick : u # t => tick'[u] = tick[u]
      BY <1>1, <3>1, <3>2
    <3> QED
      BY <1>2, <1>3, <1>6, <1>7, <3>3, DeliveriesKeep
  <2> QED
    BY <2>2, <2>3
<1>9. CASE ReadSubscription(t)
  <2> DEFINE s == CHOOSE x \in tick[t].subs : TRUE
  <2>1. CASE tick[t].subs = {}
    <3>1. tick' = [tick EXCEPT ![t] = Resting] /\ Resting.at = "idle"
      BY <1>9, <2>1 DEF ReadSubscription, Resting
    <3>2. tick'[t].at \notin {"disable!", "stamp!"} /\ \A u \in Tick : u # t => tick'[u] = tick[u]
      BY <1>1, <3>1
    <3> QED
      BY <1>2, <1>3, <1>6, <1>7, <3>2, DeliveriesKeep
  <2>2. CASE tick[t].subs # {} /\ subs[s] = Gone
    <3> DEFINE next == [tick[t] EXCEPT !.subs = tick[t].subs \ {s}]
    <3>1. tick' = [tick EXCEPT ![t] = next]
      BY <1>1, <1>9, <2>2 DEF ReadSubscription
    <3>2. next.at = "stamp?"
      BY <1>1, <1>9 DEF TickRecord, ReadSubscription
    <3> HIDE DEF next
    <3>3. tick'[t].at \notin {"disable!", "stamp!"} /\ \A u \in Tick : u # t => tick'[u] = tick[u]
      BY <1>1, <3>1, <3>2
    <3> QED
      BY <1>2, <1>3, <1>6, <1>7, <3>3, DeliveriesKeep
  <2>3. CASE tick[t].subs # {} /\ subs[s] # Gone
    <3> DEFINE next == [tick[t] EXCEPT !.at = "stamp!", !.copy = subs[s]]
    <3>1. tick' = [tick EXCEPT ![t] = next]
      BY <1>1, <1>9, <2>3 DEF ReadSubscription
    <3>2. next.at = "stamp!" /\ next.subs = tick[t].subs
      BY <1>1 DEF TickRecord
    <3>3. s \in Subscription
      BY <1>1, <2>3 DEF TickRecord
    <3>4. s \in KnownSubs
      BY <2>3, <3>3 DEF ListedOrDeleted, RecordsKnown
    <3> HIDE DEF next
    <3>5. tick'[t].at = "stamp!" /\ tick'[t].subs = tick[t].subs
          /\ \A u \in Tick : u # t => tick'[u] = tick[u]
      BY <1>1, <3>1, <3>2
    <3> QED
      BY <1>2, <1>3, <1>6, <1>7, <3>4, <3>5, DeliveriesKeep
  <2> QED
    BY <2>1, <2>2, <2>3
<1>10. CASE ~ReadFailing(t) /\ ~ReadSubscription(t)
  <2>1. tick'[t].at \notin {"disable!", "stamp!"} /\ \A u \in Tick : u # t => tick'[u] = tick[u]
    BY <1>10, NoWriteAhead DEF TickStep
  <2> QED
    BY <1>2, <1>3, <1>6, <1>7, <2>1, DeliveriesKeep
<1> QED
  BY <1>8, <1>9, <1>10

\* Deliveries: a webhook whose failures are counted was found, hence is known.
LEMMA SendsListed ==
  ASSUME Shapes, ListedOrDeleted, NEW t \in Tick, NEW w \in Webhook, UNCHANGED registryVars,
         SendStep(t, w)
  PROVE  ListedOrDeleted'
<1> USE DEF storeVars
<1>1. send \in [Tick -> [Webhook -> SendState]] /\ send[t][w] \in SendState /\ TypeOK
  BY DEF Shapes, ProcessesTyped
<1>2. UNCHANGED <<tick, hookList, subList, subs>>
  BY DEF SendStep, Answer, ReadList, WriteList, CountFailure, ReadHook, WriteHook
<1>3. \A v \in Webhook : hooks'[v] # Gone => hooks[v] # Gone \/ v \in KnownHooks
  <2>1. CASE WriteHook(t, w)
    <3>1. w \in KnownHooks
      BY <2>1 DEF WriteHook, ListedOrDeleted, SendsKnown
    <3> QED
      BY <1>1, <2>1, <3>1 DEF WriteHook, SetHook, TypeOK
  <2>2. CASE ~WriteHook(t, w)
    BY <2>2 DEF SendStep, Answer, ReadList, WriteList, CountFailure, ReadHook
  <2> QED
    BY <2>1, <2>2
<1>4. \A u \in Tick, v \in Webhook : u # t \/ v # w => send'[u][v] = send[u][v]
  BY <1>1 DEF SendStep, Answer, ReadList, WriteList, CountFailure, ReadHook, WriteHook, Put
<1>5. send'[t][w].at = "write" => w \in KnownHooks
  <2>1. CASE ReadHook(t, w) /\ Present(w)
    BY <2>1 DEF ListedOrDeleted, RecordsKnown
  <2>2. ASSUME NEW next, Put(t, w, next), next.at # "write" PROVE send'[t][w].at # "write"
    BY <1>1, <2>2 DEF Put
  <2>3. Quiet.at # "write"
    BY DEF Quiet
  <2>4. CASE ReadHook(t, w) /\ ~Present(w)
    BY <2>2, <2>3, <2>4 DEF ReadHook
  <2>5. ASSUME NEW outcome \in Outcome, Answer(t, w, outcome) PROVE send'[t][w].at # "write"
    BY <1>1, <2>5 DEF Answer, Put
  <2>6. CASE ReadList(t, w)
    <3>1. send[t][w].at = "list?"
      BY <2>6 DEF ReadList
    <3>2. [send[t][w] EXCEPT !.at = "count"].at = "count"
      BY <1>1, <3>1 DEF SendState, Quiet
    <3>3. send'[t][w] = [send[t][w] EXCEPT !.at = "count"] \/ send'[t][w].at = "list!"
      BY <1>1, <2>6 DEF ReadList, Put
    <3> QED
      BY <3>2, <3>3
  <2>7. CASE WriteList(t, w)
    BY <1>1, <2>7 DEF WriteList, Put, Count
  <2>8. CASE CountFailure(t, w)
    <3>1. Put(t, w, Quiet) \/ \E number : Put(t, w,
            [at |-> "merge", payload |-> send[t][w].payload, n |-> send[t][w].n, failures |-> number])
      BY <2>8 DEF CountFailure
    <3> QED
      BY <2>2, <2>3, <3>1
  <2>9. CASE WriteHook(t, w)
    BY <2>2, <2>3, <2>9 DEF WriteHook
  <2> QED
    BY <2>1, <2>4, <2>5, <2>6, <2>7, <2>8, <2>9 DEF SendStep
<1>6. \A u \in Tick, v \in Webhook :
        send'[u][v] = send[u][v] \/ (send'[u][v].at = "write" => v \in KnownHooks)
  BY <1>4, <1>5
<1>7. /\ tick'[t].at = "disable!" => (CHOOSE x \in tick'[t].todo : TRUE) \in KnownHooks
      /\ tick'[t].at = "stamp!" => (CHOOSE x \in tick'[t].subs : TRUE) \in KnownSubs
  BY <1>2 DEF ListedOrDeleted, TicksKnown
<1> QED
  BY <1>2, <1>3, <1>6, <1>7, DeliveriesKeep

LEMMA ListedStep == Shapes /\ ListedOrDeleted /\ [Next]_vars => ListedOrDeleted'
<1> SUFFICES ASSUME Shapes, ListedOrDeleted, [Next]_vars PROVE ListedOrDeleted'
  OBVIOUS
<1>1. CASE RegistryNext
  BY <1>1, BeginsListed, GoesOnListed DEF RegistryNext
<1>2. CASE DeliveryNext /\ UNCHANGED registryVars /\ ~LockExpires
  BY <1>2, TicksListed, SendsListed DEF DeliveryNext
<1>3. CASE (LockExpires /\ UNCHANGED registryVars) \/ UNCHANGED vars
  <2>1. UNCHANGED <<storeVars, tick, send, registryVars>>
    BY <1>3 DEF LockExpires, vars, deliveryVars
  <2>2. UNCHANGED <<hooks, hookList, subs, subList, request, deleted, forgotten>>
    BY <2>1 DEF storeVars, registryVars, registryHistory
  <2>3. KnownHooks' = KnownHooks /\ KnownSubs' = KnownSubs
    BY <2>2 DEF KnownHooks, KnownSubs, BeingAdded
  <2>4. RecordsKnown' /\ RequestsKnown'
    BY <2>2, <2>3 DEF ListedOrDeleted, RecordsKnown, RequestsKnown, Present
  <2>5. tick' = tick /\ send' = send
    BY <2>1
  <2>6. TicksKnown'
    BY <2>3, <2>5 DEF ListedOrDeleted, TicksKnown
  <2>7. SendsKnown'
    BY <2>3, <2>5 DEF ListedOrDeleted, SendsKnown
  <2> QED
    BY <2>4, <2>6, <2>7 DEF ListedOrDeleted
<1> QED
  BY <1>1, <1>2, <1>3 DEF Next

\* A webhook or subscription that was created is on its list, or a request is
\* just adding it, unless it was deleted or a concurrent request rewrote the list
\* without it (storage.ts:43, 51): whatever switches, counts or stamps the
\* record meanwhile writes only what was listed once.
THEOREM RegistrationsListed == Spec => []RegisteredIsListed
<1>1. Init => ListedOrDeleted
  <2> SUFFICES ASSUME Init PROVE ListedOrDeleted
    OBVIOUS
  <2>1. hookList \subseteq KnownHooks /\ \A w \in Webhook : Present(w) => w \in hookList
    BY DEF Init, KnownHooks, Present
  <2>2. RecordsKnown
    BY <2>1 DEF RecordsKnown, Init
  <2>3. RequestsKnown
    BY DEF RequestsKnown, Init, RegistryInit, Writes, NoRequest
  <2>4. TicksKnown /\ SendsKnown
    BY DEF TicksKnown, SendsKnown, Init, DeliveryInit, Resting, Quiet
  <2> QED
    BY <2>2, <2>3, <2>4 DEF ListedOrDeleted
<1>2. ListedOrDeleted => RegisteredIsListed
  <2> SUFFICES ASSUME ListedOrDeleted PROVE RegisteredIsListed
    OBVIOUS
  <2>1. \A list : \A id \in BeingAdded(list) : Creating(id)
    BY DEF BeingAdded, Creating
  <2> QED
    BY <2>1 DEF ListedOrDeleted, RecordsKnown, KnownHooks, KnownSubs, RegisteredIsListed
<1> QED
  BY <1>1, <1>2, ShapesAlways, ListedStep, PTL DEF Spec

=============================================================================
