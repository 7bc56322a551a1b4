-------------------------------- MODULE Webhooks --------------------------------
(***************************************************************************)
(* The webhook subsystem: ticks and deliveries with the requests that      *)
(* register, switch, subscribe and delete webhooks meanwhile.              *)
(***************************************************************************)
EXTENDS WebhookDelivery, WebhookRegistry

vars == <<storeVars, deliveryVars, registryVars>>

Init ==
  /\ DeliveryInit
  /\ RegistryInit
  /\ hookList \in SUBSET Webhook
  /\ hooks = [w \in Webhook |-> IF w \in hookList THEN FreshHook ELSE Gone]
  /\ subs = [s \in Subscription |-> Gone]
  /\ subList = {}
  /\ issued = hookList

RegistryNext ==
  /\ \E a \in Admin : RequestStep(a) \/ HookRequest(a) \/ SubscriptionRequest(a)
  /\ UNCHANGED deliveryVars

Next ==
  \/ DeliveryNext /\ UNCHANGED registryVars
  \/ RegistryNext

-----------------------------------------------------------------------------
HookRecord == [active : BOOLEAN, failures : 0..MaxFailures]
SubRecord == [webhook : Webhook, active : BOOLEAN, wants : Filter]

\* The shape of the store: records, lists, attempts.
TypeOK ==
  /\ hooks \in [Webhook -> HookRecord \cup {Gone}]
  /\ subs \in [Subscription -> SubRecord \cup {Gone}]
  /\ hookList \subseteq Webhook /\ subList \subseteq Subscription
  /\ DOMAIN attempts \subseteq Attempt
  /\ \A k \in DOMAIN attempts : attempts[k] \in Status
  /\ pending \cup dead \subseteq Attempt
  /\ seen \subseteq AnyEvent /\ lock \in BOOLEAN

-----------------------------------------------------------------------------
InHand(k) == \E t \in Tick : LET d == send[t][k.hook] IN
               /\ d # Quiet
               /\ d.at \in {"list?", "list!"}
               /\ d.payload = k.payload /\ d.n = k.n

\* recordDeliveryAttempt (storage.ts:190) sets the attempt and then adds it to
\* the list of its status: what is to be retried is on the pending list and
\* what was given up on the dead-letter list, unless a concurrent addToList
\* rewrote the list without it or the request died in between.
NoAttemptForgotten ==
  LET excused(k) == k \in dropped \cup abandoned \/ InHand(k) IN
  /\ \A k \in owed : k \in pending \/ excused(k)
  /\ \A k \in refused : k \in dead \/ excused(k)

\* Attempt n + 1 of a payload at a webhook, sent or on its way, comes after an
\* attempt n that was recorded as pending, and no attempt is beyond
\* WEBHOOK_MAX_RETRY_ATTEMPTS, over all overlapping ticks (processor.ts:211).
RetryFollowsFailure ==
  LET follows(w, payload, n) ==
        /\ n <= MaxAttempts
        /\ n > 1 => AttemptKey(w, payload, n - 1) \in owed
  IN /\ \A k \in DOMAIN attempts : follows(k.hook, k.payload, k.n)
     /\ \A t \in Tick : \A w \in Sending(t) : follows(w, send[t][w].payload, send[t][w].n)

\* The lists know every record that was created and not deleted, unless a
\* concurrent request rewrote a list without it (storage.ts:43, 51).
Creating(id) == \E a \in Admin : LET r == request[a] IN
                  /\ r.at \in {"list?", "list!"}
                  /\ r.value = id /\ r.then = NoRequest
RegisteredIsListed ==
  /\ \A w \in Webhook : Present(w) =>
       w \in hookList \cup deleted \cup forgotten \/ Creating(w)
  /\ \A s \in Subscription : subs[s] # Gone =>
       s \in subList \cup deleted \cup forgotten \/ Creating(s)

Fairness ==
  /\ \A t \in Tick : WF_vars(TickStep(t) /\ UNCHANGED registryVars)
  /\ \A t \in Tick, w \in Webhook : WF_vars(SendStep(t, w) /\ UNCHANGED registryVars)
Spec == Init /\ [][Next]_vars /\ Fairness

\* An event that was new reaches every webhook that is active: a first attempt
\* is recorded for it, unless the request that claimed the event dies (it is
\* claimed for a day then, and nobody else broadcasts it) or the webhook does
\* not stay listed and active until the list of receivers is read.
Receives(w) == w \in hookList /\ Present(w) /\ hooks[w].active
EventReachesActiveWebhooks ==
  \A t \in Tick, w \in Webhook, e \in Event :
    tick[t].at = "claim!" /\ tick[t].event = e /\ Receives(w)
      ~> \/ AttemptKey(w, <<e, t>>, 1) \in DOMAIN attempts
         \/ AttemptKey(w, <<e, t>>, 0) \in abandoned
         \/ ~Receives(w)

=============================================================================
