----------------------------- MODULE WebhookStore -----------------------------
(***************************************************************************)
(* src/frontend/lib/webhooks/storage.ts: the webhook records and lists in  *)
(* the key-value store.  The store offers single-key reads and writes only *)
(* and every one of them is awaited, so whatever is read in one step and   *)
(* written in a later one may have changed between.  A list is a set here: *)
(* addToList never repeats a value and nothing depends on the order.       *)
(* Records outlive the instance (their TTLs are a month and more).         *)
(***************************************************************************)
EXTENDS Naturals, FiniteSets

CONSTANTS
  Webhook,       \* webhook ids (random, never used twice)
  Subscription,  \* subscription ids, likewise
  Gone           \* what the store returns for a key it does not hold

VARIABLES
  hooks,     \* webhook:<id>
  hookList,  \* webhook:list
  subs,      \* subscription:<id>
  subList    \* subscription:list

storeVars == <<hooks, hookList, subs, subList>>

ASSUME GoneAssumption == Gone \notin [active : BOOLEAN, failures : Nat]

-----------------------------------------------------------------------------
Present(w) == hooks[w] # Gone
FreshHook == [active |-> TRUE, failures |-> 0]

\* getWebhooks: records that are gone are left out of what a list names.
Found(list) == {w \in list : Present(w)}
\* getActiveWebhooks and getFailedWebhooks over a list read before.
ActiveOf(list) == {w \in Found(list) : hooks[w].active}
FailedOf(list, threshold) == {w \in ActiveOf(list) : hooks[w].failures >= threshold}

SetHook(w, hook) == hooks' = [hooks EXCEPT ![w] = hook]
DelHook(w) == hooks' = [hooks EXCEPT ![w] = Gone]

SubscriptionsOf(list, w) == {s \in list : subs[s] # Gone /\ subs[s].webhook = w}

\* getSubscriptionsForEvent for a product event: active subscriptions whose
\* filter admits it.
Matching(list, event) ==
  {s \in list : subs[s] # Gone /\ subs[s].active /\ event \in subs[s].wants}
=============================================================================
