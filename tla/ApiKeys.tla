-------------------------------- MODULE ApiKeys --------------------------------
(***************************************************************************)
(* src/frontend/lib/api/apiKeyRegistry.ts and apiKeyAuth.ts: keys issued,  *)
(* revoked and authenticated over the shared store, one step per access.   *)
(* The key's secret and its hash identify the record: a key stands for     *)
(* both.  A refused authentication is the end of its request.              *)
(***************************************************************************)
EXTENDS Naturals, FiniteSets

CONSTANTS
  Key, Admin,      \* keys that can be issued; requests of the admin routes
  Call,            \* requests that present a key
  Tier,            \* tiers as their rank: auditor 1, partner 2, internal 3
  RequestsPerWindow,
  NoKey

VARIABLES
  keyRecord,    \* apikey:<id>
  keyList,      \* apikey:list
  usage,        \* apikey:usage:<id>: requests counted in the current window
  admin,        \* what each admin request is doing
  auth,         \* what each authentication is doing
  revokedSince  \* history: keys whose revocation had completed when a call began

keyVars == <<keyRecord, keyList, usage, admin, auth, revokedSince>>

Unissued == [tier |-> 0, expires |-> FALSE, expired |-> FALSE, revoked |-> FALSE]
IdleAdmin == [at |-> "ready", key |-> NoKey, seen |-> {}]
NoAuth == [at |-> "none", key |-> NoKey, tier |-> 0, seen |-> {}, count |-> 0]

Issued(k) == keyRecord[k].tier # 0

-----------------------------------------------------------------------------
(* issueApiKey: the record, then the list read and written, then the usage. *)
(***************************************************************************)
IssueKey(a, k, t, expires) ==
  /\ admin[a].at = "ready" /\ ~Issued(k)
  /\ keyRecord' = [keyRecord EXCEPT ![k] = [Unissued EXCEPT !.tier = t, !.expires = expires]]
  /\ admin' = [admin EXCEPT ![a] = [at |-> "issueList", key |-> k, seen |-> {}]]
  /\ UNCHANGED <<keyList, usage, auth, revokedSince>>

ReadKeyList(a) ==
  /\ admin[a].at = "issueList"
  /\ admin' = [admin EXCEPT ![a].at = "issueAppend", ![a].seen = keyList]
  /\ UNCHANGED <<keyRecord, keyList, usage, auth, revokedSince>>

WriteKeyList(a) ==
  /\ admin[a].at = "issueAppend"
  /\ keyList' = admin[a].seen \cup {admin[a].key}
  /\ admin' = [admin EXCEPT ![a].at = "issueUsage"]
  /\ UNCHANGED <<keyRecord, usage, auth, revokedSince>>

InitialiseUsage(a) ==
  /\ admin[a].at = "issueUsage"
  /\ usage' = [usage EXCEPT ![admin[a].key] = 0]
  /\ admin' = [admin EXCEPT ![a] = IdleAdmin]
  /\ UNCHANGED <<keyRecord, keyList, auth, revokedSince>>

\* revokeApiKey reads the record and writes it back with the mark; no other
\* field of an issued record ever changes.
ReadForRevoke(a, k) ==
  /\ admin[a].at = "ready" /\ Issued(k) /\ ~keyRecord[k].revoked
  /\ admin' = [admin EXCEPT ![a] = [at |-> "revoke", key |-> k, seen |-> {}]]
  /\ UNCHANGED <<keyRecord, keyList, usage, auth, revokedSince>>

Revoked(r) == [r EXCEPT !.revoked = TRUE]
RevokeKey(a) ==
  /\ admin[a].at = "revoke"
  /\ keyRecord' = [keyRecord EXCEPT ![admin[a].key] = Revoked(@)]
  /\ admin' = [admin EXCEPT ![a] = IdleAdmin]
  /\ UNCHANGED <<keyList, usage, auth, revokedSince>>

-----------------------------------------------------------------------------
(* authenticateRegistryKey: the list, the listed records, then the usage   *)
(* read and written.  auth[c].at ends as "refused" or "admitted".          *)
(***************************************************************************)
AuthBegins(c, k, t) ==
  /\ auth[c].at = "none"
  /\ auth' = [auth EXCEPT ![c] = [at |-> "list", key |-> k, tier |-> t, seen |-> {}, count |-> 0]]
  /\ revokedSince' = [revokedSince EXCEPT ![c] = keyRecord[k].revoked]

AuthContinues(c, at) == auth' = [auth EXCEPT ![c].at = at]

ReadListedKeys(c) ==
  /\ auth[c].at = "list"
  /\ auth' = [auth EXCEPT ![c].at = "records", ![c].seen = keyList]
  /\ UNCHANGED revokedSince

\* authenticateKey and the tier check.
ValidIgnoringMark(k) == Issued(k) /\ ~keyRecord[k].expired  \* faulty variant
Valid(k) == Issued(k) /\ ~keyRecord[k].revoked /\ ~keyRecord[k].expired
CheckKey(c) ==
  /\ auth[c].at = "records"
  /\ AuthContinues(c, IF /\ auth[c].key \in auth[c].seen
                         /\ Valid(auth[c].key)
                         /\ keyRecord[auth[c].key].tier >= auth[c].tier
                      THEN "usage" ELSE "refused")
  /\ UNCHANGED revokedSince

\* trackAndCheckUsage
Reached(n) == n >= RequestsPerWindow
ReadUsage(c) ==
  /\ auth[c].at = "usage"
  /\ auth' = [auth EXCEPT ![c].count = usage[auth[c].key],
                          ![c].at = IF Reached(usage[auth[c].key])
                                    THEN "refused" ELSE "count"]
  /\ UNCHANGED revokedSince

AuthStep(c) ==
  /\ ReadListedKeys(c) \/ CheckKey(c) \/ ReadUsage(c)
  /\ UNCHANGED <<keyRecord, keyList, usage, admin>>

CountUsage(c) ==
  /\ auth[c].at = "count"
  /\ usage' = [usage EXCEPT ![auth[c].key] = auth[c].count + 1]
  /\ AuthContinues(c, "admitted")
  /\ UNCHANGED <<keyRecord, keyList, admin, revokedSince>>

\* The time-driven conditions: a key expires, its usage window starts over.
KeyExpires(k) ==
  /\ keyRecord[k].expires /\ ~keyRecord[k].expired
  /\ keyRecord' = [keyRecord EXCEPT ![k].expired = TRUE]
  /\ UNCHANGED <<keyList, usage, admin, auth, revokedSince>>

UsageWindowEnds(k) ==
  /\ usage[k] > 0
  /\ usage' = [usage EXCEPT ![k] = 0]
  /\ UNCHANGED <<keyRecord, keyList, admin, auth, revokedSince>>

KeysInit ==
  /\ keyRecord = [k \in Key |-> Unissued]
  /\ keyList = {}
  /\ usage = [k \in Key |-> 0]
  /\ admin = [a \in Admin |-> IdleAdmin]
  /\ auth = [c \in Call |-> NoAuth]
  /\ revokedSince = [c \in Call |-> FALSE]

AdminStep ==
  \/ \E a \in Admin, k \in Key :
       \/ \E t \in Tier, expires \in BOOLEAN : IssueKey(a, k, t, expires)
       \/ ReadForRevoke(a, k)
  \/ \E a \in Admin : ReadKeyList(a) \/ WriteKeyList(a) \/ InitialiseUsage(a) \/ RevokeKey(a)
  \/ \E k \in Key : KeyExpires(k) \/ UsageWindowEnds(k)

KeysTypeOK ==
  /\ keyList \subseteq Key
  /\ \A k \in Key : keyRecord[k].tier \in Tier \cup {0} /\ usage[k] \in 0..RequestsPerWindow
  /\ \A c \in Call : auth[c].at \in {"none", "list", "records", "usage", "count", "refused", "admitted"}

-----------------------------------------------------------------------------
\* A request that arrives after a key's revocation completed is never admitted
\* with it, whatever writes of the record were in flight meanwhile
\* (apiKeyRegistry.ts:202-212, 232-248).
RevokedIsRefused == \A c \in Call : auth[c].at = "admitted" => ~revokedSince[c]

=============================================================================
