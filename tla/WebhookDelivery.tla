---------------------------- MODULE WebhookDelivery ----------------------------
(***************************************************************************)
(* src/frontend/lib/webhooks/delivery.ts and processor.ts with the route   *)
(* that drives them, POST /api/v1/webhooks/process/pending: a tick may     *)
(* bring an event, which is broadcast to the active webhooks by deliveries *)
(* that run side by side (Promise.all), and then drains the retries that   *)
(* are due, one after the other.  Ticks of concurrent requests interleave  *)
(* at every await, and a request may die at any of them.                   *)
(***************************************************************************)
EXTENDS WebhookStore

CONSTANTS
  Event,         \* tracking events: product:type:timestamp, what the route dedupes by
  ProductEvent,  \* changes of products, sent to those who subscribed to them
  Alert,         \* alerts, sent to every active webhook
  NoEvent,
  Tick,          \* requests that run at the same time; each serves one after another
  MaxAttempts,   \* WEBHOOK_MAX_RETRY_ATTEMPTS
  Threshold,     \* WEBHOOK_FAILURE_THRESHOLD, for deactivation
  MaxFailures,   \* bound: failureCount is not raised beyond it
  MaxServed,     \* bound: ticks started
  MaxCrashes     \* bound: requests that die

AnyEvent == Event \cup ProductEvent \cup Alert
ASSUME TickAssumption ==
  NoEvent \notin AnyEvent /\ MaxAttempts \in Nat \ {0} /\ MaxFailures \in Nat

VARIABLES
  attempts,   \* webhook:attempt:<webhook>:<payload>:<n>
  pending,    \* webhook:attempt:pending:list
  dead,       \* webhook:deadletter:list
  seen,       \* claimed event keys, webhook:event:seen:<event> (and, not stored,
              \* the product events and alerts that have happened)
  lock,       \* webhook:process:tick:lock
  tick,       \* the tick each request process is in
  send,       \* the delivery to each webhook under way in a tick
  owed,       \* history: attempts recorded as pending so far
  refused,    \* history: attempts recorded as failed so far
  dropped,    \* history: attempts a concurrent rewrite of a list took off it
  abandoned,  \* history: what ticks had in hand when they died (0 stands for a
              \* broadcast as a whole)
  served,
  crashes

records == <<attempts, pending, dead>>
claims == <<seen, lock>>
history == <<owed, refused, dropped, abandoned, crashes>>

deliveryVars == <<records, claims, tick, send, served, history>>

-----------------------------------------------------------------------------
\* A broadcast makes one payload, with a random id: the event and the tick it
\* was made in name it.
Payload == AnyEvent \X Tick
Attempt == [hook : Webhook, payload : Payload, n : 1..MaxAttempts]
AttemptKey(w, payload, n) == [hook |-> w, payload |-> payload, n |-> n]
Status == {"success", "pending", "failed"}

Resting == [at |-> "idle", event |-> NoEvent, todo |-> {}, copy |-> Gone, subs |-> {}]
Quiet == [at |-> "quiet"]

\* deliver: a response is a success, worth a retry or final; what is thrown
\* (timeout, network, open circuit) is worth a retry.
Outcome == {"ok", "retryable", "final"}
StatusOfUnlimited(outcome, n) ==         \* faulty variant: no limit of attempts
  CASE outcome = "ok" -> "success"
    [] outcome = "retryable" -> "pending"
    [] OTHER -> "failed"
StatusOf(outcome, n) ==
  CASE outcome = "ok" -> "success"
    [] outcome = "retryable" /\ n < MaxAttempts -> "pending"
    [] OTHER -> "failed"

Sending(t) == {w \in Webhook : send[t][w] # Quiet}
GoTo(t, at) == tick' = [tick EXCEPT ![t].at = at]
GoToWith(t, at, todo) == tick' = [tick EXCEPT ![t].at = at, ![t].todo = todo]

-----------------------------------------------------------------------------
(* The route: claim the event, broadcast it, claim the lock, retry *)

Arrive(t, e) ==
  /\ tick[t].at = "idle"
  /\ served < MaxServed
  /\ served' = served + 1
  /\ e \notin ProductEvent \cup Alert \/ e \notin seen
  /\ tick' = [tick EXCEPT ![t] =
                [Resting EXCEPT !.event = e,
                                !.at = CASE e = NoEvent -> "lock?"
                                         [] e \in Event -> "claim?"
                                         [] e \in ProductEvent -> "match"
                                         [] e \in Alert -> "active"]]
  /\ seen' = IF e \in ProductEvent \cup Alert THEN seen \cup {e} ELSE seen
  /\ UNCHANGED <<storeVars, records, lock, send, history>>

\* claimOnce reads the key, and sets it if it was not there.
LookForClaim(t) ==
  /\ tick[t].at = "claim?"
  /\ GoTo(t, IF tick[t].event \in seen THEN "lock?" ELSE "claim!")
  /\ UNCHANGED <<storeVars, records, claims, send, history, served>>

ClaimedAlready(t) ==                    \* faulty variant: sets the key, then looks
  /\ tick[t].at = "claim!"
  /\ seen' = seen \cup {tick[t].event}
  /\ GoTo(t, IF tick[t].event \in seen' THEN "lock?" ELSE "failing")
  /\ UNCHANGED <<storeVars, records, lock, send, history, served>>
Claim(t) ==
  /\ tick[t].at = "claim!"
  /\ seen' = seen \cup {tick[t].event}
  /\ GoTo(t, "failing")
  /\ UNCHANGED <<storeVars, records, lock, send, history, served>>

\* notifyWebhooksOfEvent: webhooks that failed too often are switched off one
\* by one, each by updateWebhook's read and write of the whole record.
FindFailing(t) ==
  /\ tick[t].at = "failing"
  /\ LET failing == FailedOf(hookList, Threshold) IN
     GoToWith(t, IF failing = {} THEN "active" ELSE "disable?", failing)
  /\ UNCHANGED <<storeVars, records, claims, send, history, served>>

Disabled(r, w) ==
  [r EXCEPT !.at = IF r.todo = {w} THEN "active" ELSE "disable?",
            !.todo = @ \ {w}, !.copy = Gone]

ReadFailing(t) ==
  /\ tick[t].at = "disable?"
  /\ LET w == CHOOSE x \in tick[t].todo : TRUE IN
     tick' = [tick EXCEPT ![t] =
                IF Present(w) THEN [@ EXCEPT !.at = "disable!", !.copy = hooks[w]]
                              ELSE Disabled(@, w)]
  /\ UNCHANGED <<storeVars, records, claims, send, history, served>>

Disable(t) ==
  /\ tick[t].at = "disable!"
  /\ LET w == CHOOSE x \in tick[t].todo : TRUE IN
     /\ SetHook(w, [tick[t].copy EXCEPT !.active = FALSE])
     /\ tick' = [tick EXCEPT ![t] = Disabled(@, w)]
  /\ UNCHANGED <<hookList, subs, subList, records, claims, send, history, served>>

FindActive(t) ==
  /\ tick[t].at = "active"
  /\ GoToWith(t, "fetch", hookList)
  /\ UNCHANGED <<storeVars, records, claims, send, history, served>>

\* notifyWebhooksOfProductEvent: the webhooks of the subscriptions it matches.
MatchSubscriptions(t) ==
  /\ tick[t].at = "match"
  /\ LET matching == Matching(subList, tick[t].event) IN
     tick' = [tick EXCEPT ![t] =
                IF matching = {} THEN Resting
                ELSE [@ EXCEPT !.at = "fetch", !.subs = matching,
                               !.todo = {subs[s].webhook : s \in matching}]]
  /\ UNCHANGED <<storeVars, records, claims, send, history, served>>

Delivery(payload, n) == [at |-> "sent", payload |-> payload, n |-> n]

SendTo(t, receivers) ==
  /\ tick[t].at = "fetch"
  /\ send' = [send EXCEPT ![t] = [w \in Webhook |->
                  IF w \in receivers THEN Delivery(<<tick[t].event, t>>, 1) ELSE Quiet]]
  /\ tick' = [tick EXCEPT ![t].at = "broadcast", ![t].todo = {},
                          ![t].subs = IF receivers = {} THEN {} ELSE @]
  /\ UNCHANGED <<storeVars, records, claims, history, served>>
Broadcast(t) == SendTo(t, ActiveOf(tick[t].todo))

\* Subscriptions are stamped after a broadcast, if it had any receiver.
BroadcastDone(t) ==
  /\ tick[t].at = "broadcast"
  /\ Sending(t) = {}
  /\ CASE tick[t].event \in Event -> GoTo(t, "lock?")
       [] tick[t].event \in Alert -> tick' = [tick EXCEPT ![t] = Resting]
       [] tick[t].event \in ProductEvent -> GoTo(t, "stamp?")
  /\ UNCHANGED <<storeVars, records, claims, send, history, served>>

\* updateSubscriptionTrigger: the whole record is read and written back.
ReadSubscription(t) ==
  /\ tick[t].at = "stamp?"
  /\ IF tick[t].subs = {}
     THEN tick' = [tick EXCEPT ![t] = Resting]
     ELSE LET s == CHOOSE x \in tick[t].subs : TRUE IN
          tick' = [tick EXCEPT ![t] =
                     IF subs[s] = Gone THEN [@ EXCEPT !.subs = tick[t].subs \ {s}]
                                       ELSE [@ EXCEPT !.at = "stamp!", !.copy = subs[s]]]
  /\ UNCHANGED <<storeVars, records, claims, send, history, served>>

StampSubscription(t) ==
  /\ tick[t].at = "stamp!"
  /\ LET s == CHOOSE x \in tick[t].subs : TRUE IN
     /\ subs' = [subs EXCEPT ![s] = tick[t].copy]
     /\ tick' = [tick EXCEPT ![t].at = "stamp?", ![t].copy = Gone, ![t].subs = @ \ {s}]
  /\ UNCHANGED <<hooks, hookList, subList, records, claims, send, history, served>>

LookForLock(t) ==
  /\ tick[t].at = "lock?"
  /\ IF lock THEN tick' = [tick EXCEPT ![t] = Resting] ELSE GoTo(t, "lock!")
  /\ UNCHANGED <<storeVars, records, claims, send, history, served>>

Lock(t) ==
  /\ tick[t].at = "lock!"
  /\ lock' = TRUE
  /\ GoTo(t, "due")
  /\ UNCHANGED <<storeVars, records, seen, send, history, served>>

\* Nobody releases the lock: its time to live runs out, however long the tick
\* that took it goes on.
LockExpires ==
  /\ lock
  /\ lock' = FALSE
  /\ UNCHANGED <<storeVars, records, seen, tick, send, history, served>>

-----------------------------------------------------------------------------
(* retryFailedDeliveries *)

\* getPendingDeliveryAttempts: of what is listed and still pending, that whose
\* time has come; backoff and clock are abstracted to any part of it.
FindDue(t, due) ==
  /\ tick[t].at = "due"
  /\ due \subseteq {k \in pending : attempts[k] = "pending"}
  /\ tick' = [tick EXCEPT ![t] = IF due = {} THEN Resting
                                  ELSE [@ EXCEPT !.at = "retry", !.todo = due]]
  /\ UNCHANGED <<storeVars, records, claims, send, history, served>>

\* The webhook is looked up by id, listed or not; gone or inactive, it is passed.
Retry(t) ==
  /\ tick[t].at = "retry"
  /\ Sending(t) = {}
  /\ \E k \in tick[t].todo :
       /\ tick' = [tick EXCEPT ![t].todo = @ \ {k}]
       /\ send' = IF Present(k.hook) /\ hooks[k.hook].active
                  THEN [send EXCEPT ![t][k.hook] = Delivery(k.payload, k.n + 1)]
                  ELSE send
  /\ UNCHANGED <<storeVars, records, claims, history, served>>

Finish(t) ==
  /\ tick[t].at = "retry"
  /\ Sending(t) = {}
  /\ tick[t].todo = {}
  /\ tick' = [tick EXCEPT ![t] = Resting]
  /\ UNCHANGED <<storeVars, records, claims, send, history, served>>
-----------------------------------------------------------------------------
(* WebhookDeliverer.deliver, from the answer of the receiver on *)

Put(t, w, next) == send' = [send EXCEPT ![t][w] = next]
Count(d) == [at |-> "count", payload |-> d.payload, n |-> d.n, ok |-> d.ok]

\* The attempt is recorded, and goes to the list of its status if that has one.
Answer(t, w, outcome) ==
  /\ send[t][w].at = "sent"
  /\ LET d == send[t][w]
         key == AttemptKey(w, d.payload, d.n)
         status == StatusOf(outcome, d.n)
     IN /\ attempts' = [k \in DOMAIN attempts \cup {key} |->
                           IF k = key THEN status ELSE attempts[k]]
        /\ owed' = IF status = "pending" THEN owed \cup {key} ELSE owed
        /\ refused' = IF status = "failed" THEN refused \cup {key} ELSE refused
        /\ Put(t, w, [at |-> IF status = "success" THEN "count" ELSE "list?",
                      payload |-> d.payload, n |-> d.n, ok |-> status])
  /\ UNCHANGED <<storeVars, pending, dead, claims, tick, dropped, abandoned, crashes, served>>

ListOfPending(status) == pending         \* faulty variant: one list for both
ListOf(status) == IF status = "pending" THEN pending ELSE dead

\* addToList
ReadList(t, w) ==
  /\ send[t][w].at = "list?"
  /\ LET d == send[t][w]
         key == AttemptKey(w, d.payload, d.n)
     IN Put(t, w, IF key \in ListOf(d.ok)
                  THEN [d EXCEPT !.at = "count"]
                  ELSE [at |-> "list!", payload |-> d.payload, n |-> d.n, ok |-> d.ok,
                        list |-> ListOf(d.ok) \cup {key}])
  /\ UNCHANGED <<storeVars, records, claims, tick, history, served>>

WriteList(t, w) ==
  /\ send[t][w].at = "list!"
  /\ LET d == send[t][w] IN
     /\ IF d.ok = "pending"
        THEN pending' = d.list /\ UNCHANGED dead
        ELSE dead' = d.list /\ UNCHANGED pending
     /\ dropped' = dropped \cup (ListOf(d.ok) \ d.list)
     /\ Put(t, w, Count(d))
  /\ UNCHANGED <<storeVars, attempts, claims, tick, owed, refused, abandoned, crashes, served>>

\* updateWebhookDelivery reads the failure count, updateWebhook reads the
\* record once more and writes it back with the count changed.
CountFailure(t, w) ==
  /\ send[t][w].at = "count"
  /\ LET d == send[t][w] IN
     Put(t, w, IF Present(w)
               THEN [at |-> "merge", payload |-> d.payload, n |-> d.n,
                     failures |-> IF d.ok = "success" THEN 0
                                  ELSE IF hooks[w].failures < MaxFailures
                                       THEN hooks[w].failures + 1 ELSE MaxFailures]
               ELSE Quiet)
  /\ UNCHANGED <<storeVars, records, claims, tick, history, served>>

ReadHook(t, w) ==
  /\ send[t][w].at = "merge"
  /\ LET d == send[t][w] IN
     Put(t, w, IF Present(w)
               THEN [at |-> "write", payload |-> d.payload, n |-> d.n,
                     copy |-> [hooks[w] EXCEPT !.failures = d.failures]]
               ELSE Quiet)
  /\ UNCHANGED <<storeVars, records, claims, tick, history, served>>

WriteHook(t, w) ==
  /\ send[t][w].at = "write"
  /\ SetHook(w, send[t][w].copy)
  /\ Put(t, w, Quiet)
  /\ UNCHANGED <<hookList, subs, subList, records, claims, tick, history, served>>

-----------------------------------------------------------------------------
\* A request dies with the deliveries it has under way.
Crash(t) ==
  /\ tick[t].at # "idle"
  /\ crashes < MaxCrashes
  /\ crashes' = crashes + 1
  /\ abandoned' = abandoned \cup {AttemptKey(w, <<tick[t].event, t>>, 0) : w \in Webhook}
                 \cup {AttemptKey(w, send[t][w].payload, send[t][w].n) : w \in Sending(t)}
  /\ tick' = [tick EXCEPT ![t] = Resting]
  /\ send' = [send EXCEPT ![t] = [w \in Webhook |-> Quiet]]
  /\ UNCHANGED <<storeVars, records, claims, owed, refused, dropped, served>>

DeliveryInit ==
  /\ attempts = [k \in {} |-> "success"]
  /\ pending = {} /\ dead = {}
  /\ seen \in {{}, ProductEvent \cup Alert}     \* whether these are still to come
  /\ lock = FALSE
  /\ tick = [t \in Tick |-> Resting]
  /\ send = [t \in Tick |-> [w \in Webhook |-> Quiet]]
  /\ owed = {} /\ refused = {} /\ dropped = {} /\ abandoned = {}
  /\ served \in 0..MaxServed        \* how many ticks are still to come
  /\ crashes \in 0..MaxCrashes       \* and how many of them may die

TickStep(t) ==
  \/ LookForClaim(t) \/ Claim(t) \/ FindFailing(t) \/ ReadFailing(t) \/ Disable(t)
  \/ FindActive(t) \/ MatchSubscriptions(t) \/ Broadcast(t) \/ BroadcastDone(t)
  \/ ReadSubscription(t) \/ StampSubscription(t)
  \/ LookForLock(t) \/ Lock(t) \/ (\E due \in SUBSET pending : FindDue(t, due))
  \/ Retry(t) \/ Finish(t)

SendStep(t, w) ==
  \/ \E outcome \in Outcome : Answer(t, w, outcome)
  \/ ReadList(t, w) \/ WriteList(t, w)
  \/ CountFailure(t, w) \/ ReadHook(t, w) \/ WriteHook(t, w)

DeliveryNext ==
  \/ \E t \in Tick, e \in AnyEvent \cup {NoEvent} : Arrive(t, e)
  \/ \E t \in Tick : TickStep(t) \/ Crash(t)
  \/ \E t \in Tick, w \in Webhook : SendStep(t, w)
  \/ LockExpires
=============================================================================
