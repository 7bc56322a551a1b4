---------------------------- MODULE WebhookRegistry ----------------------------
(***************************************************************************)
(* Registration of webhooks and of their subscriptions: the routes         *)
(* /api/v1/webhooks, /api/v1/webhooks/[id] and [id]/subscriptions, over    *)
(* storage.ts and subscriptions.ts.  A request is a process: each of its   *)
(* accesses to the store is a step.                                        *)
(***************************************************************************)
EXTENDS WebhookStore

CONSTANTS
  Admin,    \* requests that run at the same time
  UrlOf,    \* the URL each webhook is (or would be) registered with
  Filter,   \* which product events a new subscription may ask for
  MaxChanges  \* bound: requests started

VARIABLES
  request,   \* what each request is doing
  issued,    \* ids handed out so far (random, hence never again)
  changes,   \* requests started
  deleted,   \* history: ids a request removed
  forgotten  \* history: ids a concurrent rewrite of a list took off it

registryHistory == <<deleted, forgotten>>
registryVars == <<request, issued, changes, registryHistory>>

NoRequest == [at |-> "idle"]
Is(a, at) == request[a].at = at
Become(a, next) == request' = [request EXCEPT ![a] = next]
Rest(a) == Become(a, NoRequest)
Begin(a, next) ==
  /\ Is(a, "idle")
  /\ changes < MaxChanges
  /\ changes' = changes + 1
  /\ Become(a, next)

\* A list about to be read for a value to be added or removed: which list,
\* the value, and what is to follow.
Listing(list, how, value, then) ==
  [at |-> "list?", list |-> list, how |-> how, value |-> value, then |-> then]
CurrentList(list) == IF list = "hooks" THEN hookList ELSE subList

\* addToList and removeFromList
ReadRegistryList(a) ==
  /\ Is(a, "list?")
  /\ LET r == request[a]
         now == CurrentList(r.list)
     IN IF (r.value \in now) = (r.how = "add")
        THEN Become(a, r.then)
        ELSE Become(a, [at |-> "list!", list |-> r.list, then |-> r.then, value |-> r.value,
                        copy |-> IF r.how = "add" THEN now \cup {r.value}
                                                  ELSE now \ {r.value}])
  /\ UNCHANGED <<storeVars, issued, changes, registryHistory>>

WriteRegistryList(a) ==
  /\ Is(a, "list!")
  /\ IF request[a].list = "hooks"
     THEN hookList' = request[a].copy /\ UNCHANGED subList
     ELSE subList' = request[a].copy /\ UNCHANGED hookList
  /\ forgotten' = forgotten \cup (CurrentList(request[a].list)
                                  \ (request[a].copy \cup {request[a].value}))
  /\ Become(a, request[a].then)
  /\ UNCHANGED <<hooks, subs, issued, changes, deleted>>

-----------------------------------------------------------------------------
(* Webhooks *)

\* POST: refused while a listed webhook has the URL.
CheckUrl(a, w) ==
  /\ w \notin issued
  /\ \A v \in Found(hookList) : UrlOf[v] # UrlOf[w]
  /\ Begin(a, [at |-> "create", hook |-> w])
  /\ issued' = issued \cup {w}
  /\ UNCHANGED <<storeVars, registryHistory>>

CreateUnlisted(a) ==                    \* faulty variant: saved, never listed
  /\ Is(a, "create")
  /\ SetHook(request[a].hook, FreshHook)
  /\ Rest(a)
  /\ UNCHANGED <<hookList, subs, subList, issued, changes, registryHistory>>
CreateWebhook(a) ==
  /\ Is(a, "create")
  /\ SetHook(request[a].hook, FreshHook)
  /\ Become(a, Listing("hooks", "add", request[a].hook, NoRequest))
  /\ UNCHANGED <<hookList, subs, subList, issued, changes, registryHistory>>

\* PATCH: updateWebhook reads, merges `active`, writes.
ReadForPatch(a, w, active) ==
  /\ Present(w)
  /\ Begin(a, [at |-> "patch", hook |-> w, copy |-> [hooks[w] EXCEPT !.active = active]])
  /\ UNCHANGED <<storeVars, issued, registryHistory>>

WritePatch(a) ==
  /\ Is(a, "patch")
  /\ SetHook(request[a].hook, request[a].copy)
  /\ Rest(a)
  /\ UNCHANGED <<hookList, subs, subList, issued, changes, registryHistory>>

\* DELETE: the record, the list entry, then the subscriptions.
FindForDelete(a, w) ==
  /\ Present(w)
  /\ Begin(a, [at |-> "del", hook |-> w])
  /\ UNCHANGED <<storeVars, issued, registryHistory>>

DeleteHook(a) ==
  /\ Is(a, "del")
  /\ DelHook(request[a].hook)
  /\ deleted' = deleted \cup {request[a].hook}
  /\ Become(a, Listing("hooks", "remove", request[a].hook,
                       [at |-> "orphans", hook |-> request[a].hook]))
  /\ UNCHANGED <<hookList, subs, subList, issued, changes, forgotten>>

FindSubscriptions(a) ==
  /\ Is(a, "orphans")
  /\ Become(a, [at |-> "sweep", todo |-> SubscriptionsOf(subList, request[a].hook)])
  /\ UNCHANGED <<storeVars, issued, changes, registryHistory>>

SweepSubscription(a) ==
  /\ Is(a, "sweep")
  /\ IF request[a].todo = {}
     THEN Rest(a) /\ UNCHANGED <<subs, deleted>>
     ELSE \E s \in request[a].todo :
            LET rest == [request[a] EXCEPT !.todo = @ \ {s}] IN
            /\ subs' = [subs EXCEPT ![s] = Gone]
            /\ deleted' = deleted \cup {s}
            /\ Become(a, IF subs[s] = Gone THEN rest
                         ELSE Listing("subs", "remove", s, rest))
  /\ UNCHANGED <<hooks, hookList, subList, issued, changes, forgotten>>

-----------------------------------------------------------------------------
(* Subscriptions *)

FindHook(a, w, s, wants) ==
  /\ Present(w)
  /\ s \notin issued
  /\ issued' = issued \cup {s}
  /\ Begin(a, [at |-> "subscribe", hook |-> w, sub |-> s, wants |-> wants])
  /\ UNCHANGED <<storeVars, registryHistory>>

CreateSubscription(a) ==
  /\ Is(a, "subscribe")
  /\ subs' = [subs EXCEPT ![request[a].sub] =
               [webhook |-> request[a].hook, active |-> TRUE, wants |-> request[a].wants]]
  /\ Become(a, Listing("subs", "add", request[a].sub, NoRequest))
  /\ UNCHANGED <<hooks, hookList, subList, issued, changes, registryHistory>>

\* PATCH and DELETE of a subscription answer 404 when it or its webhook is gone.
Reachable(s) == subs[s] # Gone /\ Present(subs[s].webhook)

ReadForSubscriptionPatch(a, s, active) ==
  /\ Reachable(s)
  /\ Begin(a, [at |-> "repatch", sub |-> s, copy |-> [subs[s] EXCEPT !.active = active]])
  /\ UNCHANGED <<storeVars, issued, registryHistory>>

WriteSubscriptionPatch(a) ==
  /\ Is(a, "repatch")
  /\ subs' = [subs EXCEPT ![request[a].sub] = request[a].copy]
  /\ Rest(a)
  /\ UNCHANGED <<hooks, hookList, subList, issued, changes, registryHistory>>

FindForUnsubscribe(a, s) ==
  /\ Reachable(s)
  /\ Begin(a, [at |-> "sweep", todo |-> {s}])
  /\ UNCHANGED <<storeVars, issued, registryHistory>>

RegistryInit ==
  /\ request = [a \in Admin |-> NoRequest]
  /\ changes \in 0..MaxChanges     \* how many requests are still to come
  /\ deleted = {} /\ forgotten = {}

RequestStep(a) ==
  \/ ReadRegistryList(a) \/ WriteRegistryList(a) \/ CreateWebhook(a) \/ WritePatch(a)
  \/ DeleteHook(a) \/ FindSubscriptions(a) \/ SweepSubscription(a)
  \/ CreateSubscription(a) \/ WriteSubscriptionPatch(a)

HookRequest(a) ==
  \E w \in Webhook :
    \/ CheckUrl(a, w) \/ FindForDelete(a, w)
    \/ \E active \in BOOLEAN : ReadForPatch(a, w, active)

SubscriptionRequest(a) ==
  \E s \in Subscription :
    \/ FindForUnsubscribe(a, s)
    \/ \E w \in Webhook, wants \in Filter : FindHook(a, w, s, wants)
    \/ \E active \in BOOLEAN : ReadForSubscriptionPatch(a, s, active)
=============================================================================
