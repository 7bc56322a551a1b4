------------------------------- MODULE ApiProofs -------------------------------
(***************************************************************************)
(* What the API promises of keys, idempotent answers, sequence numbers and *)
(* limits, for any number of requests, keys, admins, claims and callers.   *)
(***************************************************************************)
EXTENDS ApiRoute, SequenceTheorems, FiniteSetTheorems, WellFoundedInduction, TLAPS

-----------------------------------------------------------------------------
(* Keys: a revocation is never undone, and a request that began after it   *)
(* stops where the record is read.                                         *)
(***************************************************************************)
KeyRecord == [tier : Tier \cup {0}, expires : BOOLEAN, expired : BOOLEAN, revoked : BOOLEAN]
AdminStage == {"ready", "issueList", "issueAppend", "issueUsage", "revoke"}
AuthStage == {"none", "list", "records", "usage", "count", "refused", "admitted"}

KeysType ==
  /\ keyRecord \in [Key -> KeyRecord]
  /\ keyList \subseteq Key
  /\ usage \in [Key -> Nat]
  /\ admin \in [Admin -> [at : AdminStage, key : Key \cup {NoKey}, seen : SUBSET Key]]
  /\ auth \in [Call -> [at : AuthStage, key : Key \cup {NoKey}, tier : Tier \cup {0},
                        seen : SUBSET Key, count : Nat]]
  /\ revokedSince \in [Call -> BOOLEAN]

RevocationsLast ==
  /\ \A k \in Key : keyRecord[k].revoked => Issued(k)
  /\ \A a \in Admin : admin[a].at \in {"issueAppend", "issueUsage"} => admin[a].key \in Key
  /\ \A a \in Admin : admin[a].at = "issueList" => admin[a].key \in Key
  /\ \A a \in Admin : admin[a].at = "revoke" => admin[a].key \in Key /\ Issued(admin[a].key)
  /\ \A c \in Call : auth[c].at # "none" => auth[c].key \in Key
  /\ \A c \in Call : revokedSince[c] => auth[c].at # "none" /\ keyRecord[auth[c].key].revoked
  /\ \A c \in Call : auth[c].at \in {"usage", "count", "admitted"} => ~revokedSince[c]

KeysInv == KeysType /\ RevocationsLast

\* Initially no key is issued and no request presents one.
LEMMA KeysStart == KeysInit => KeysInv
<1> SUFFICES ASSUME KeysInit PROVE KeysInv
  OBVIOUS
<1>1. KeysType
  <2>1. Unissued \in KeyRecord
    BY DEF Unissued, KeyRecord
  <2>2. IdleAdmin \in [at : AdminStage, key : Key \cup {NoKey}, seen : SUBSET Key]
    BY DEF IdleAdmin, AdminStage
  <2>3. NoAuth \in [at : AuthStage, key : Key \cup {NoKey}, tier : Tier \cup {0},
                    seen : SUBSET Key, count : Nat]
    BY DEF NoAuth, AuthStage
  <2> QED
    BY <2>1, <2>2, <2>3 DEF KeysInit, KeysType
<1>2. RevocationsLast
  BY DEF KeysInit, RevocationsLast, Unissued, IdleAdmin, NoAuth
<1> QED
  BY <1>1, <1>2 DEF KeysInv

\* A step that lets every issued key stay issued and every mark stay, and does
\* not touch the requests, keeps the invariant.
LEMMA RecordsMove ==
  ASSUME KeysInv, keyRecord' \in [Key -> KeyRecord],
         keyList' \subseteq Key, usage' \in [Key -> Nat],
         \A k \in Key : /\ Issued(k) => Issued(k)'
                        /\ keyRecord[k].revoked => keyRecord'[k].revoked
                        /\ keyRecord'[k].revoked => Issued(k)',
         UNCHANGED <<auth, revokedSince>>,
         admin' \in [Admin -> [at : AdminStage, key : Key \cup {NoKey}, seen : SUBSET Key]],
         \A a \in Admin : admin'[a].at # "ready" => admin'[a].key \in Key,
         \A a \in Admin : admin'[a].at = "revoke" => keyRecord'[admin'[a].key].tier # 0
  PROVE  KeysInv'
<1>1. KeysType'
  BY DEF KeysInv, KeysType
<1>2. \A a \in Admin : admin'[a].at \in AdminStage
  OBVIOUS
<1>3. /\ \A k \in Key : keyRecord'[k].revoked => Issued(k)'
      /\ \A a \in Admin : admin'[a].at \in {"issueList", "issueAppend", "issueUsage", "revoke"}
                            => admin'[a].key \in Key
      /\ \A a \in Admin : admin'[a].at = "revoke" => keyRecord'[admin'[a].key].tier # 0
  BY <1>2 DEF AdminStage
<1>4. /\ \A c \in Call : auth'[c].at # "none" => auth'[c].key \in Key
      /\ \A c \in Call : revokedSince'[c] => auth'[c].at # "none" /\ keyRecord'[auth'[c].key].revoked
      /\ \A c \in Call : auth'[c].at \in {"usage", "count", "admitted"} => ~revokedSince'[c]
  BY DEF KeysInv, RevocationsLast
<1> QED
  BY <1>1, <1>3, <1>4 DEF KeysInv, RevocationsLast, Issued

-----------------------------------------------------------------------------
\* Each step of the admin routes and of time is such a step.
LEMMA AdminKeeps ==
  ASSUME KeysInv, AdminStep
  PROVE  KeysInv'
<1> USE DEF KeysInv, KeysType, RevocationsLast
<1>0. \A k \in Key : keyRecord[k] \in KeyRecord
  OBVIOUS
<1>1. ASSUME NEW a \in Admin, NEW k \in Key, NEW t \in Tier, NEW e \in BOOLEAN, IssueKey(a, k, t, e)
      PROVE  KeysInv'
  <2> DEFINE r == [Unissued EXCEPT !.tier = t, !.expires = e]
             b == [at |-> "issueList", key |-> k, seen |-> {}]
  <2>1. r \in KeyRecord /\ keyRecord' = [keyRecord EXCEPT ![k] = r] /\ ~r.revoked
    <3>1. Unissued \in KeyRecord /\ ~Unissued.revoked
      BY DEF Unissued, KeyRecord
    <3>2. r \in KeyRecord /\ ~r.revoked
      BY <3>1 DEF KeyRecord
    <3> QED
      BY <1>1, <3>2 DEF IssueKey
  <2>2. b \in [at : AdminStage, key : Key \cup {NoKey}, seen : SUBSET Key]
        /\ admin' = [admin EXCEPT ![a] = b] /\ b.at = "issueList" /\ b.key = k
    BY <1>1 DEF IssueKey, AdminStage
  <2> HIDE DEF r, b
  <2>3. ~Issued(k) /\ ~keyRecord[k].revoked
    BY <1>1 DEF IssueKey
  <2>4. \A j \in Key : keyRecord'[j] = IF j = k THEN r ELSE keyRecord[j]
    BY <2>1
  <2>5. \A d \in Admin : admin'[d] = IF d = a THEN b ELSE admin[d]
    BY <2>2
  <2>6. \A d \in Admin : admin[d].at = "revoke" => admin[d].key # k
    BY <2>3
  <2>7. UNCHANGED <<keyList, usage, auth, revokedSince>>
    BY <1>1 DEF IssueKey
  <2>8. \A j \in Key : /\ Issued(j) => Issued(j)'
                       /\ keyRecord[j].revoked => keyRecord'[j].revoked
                       /\ keyRecord'[j].revoked => Issued(j)'
    BY <2>1, <2>3, <2>4 DEF Issued
  <2>9. /\ \A d \in Admin : admin'[d].at # "ready" => admin'[d].key \in Key
        /\ \A d \in Admin : admin'[d].at = "revoke" => keyRecord'[admin'[d].key].tier # 0
    BY <2>2, <2>4, <2>5, <2>6 DEF AdminStage, Issued
  <2> QED
    BY <2>1, <2>2, <2>7, <2>8, <2>9, RecordsMove
<1>2. ASSUME NEW a \in Admin, ReadKeyList(a)
      PROVE  KeysInv'
  <2>1. /\ admin' \in [Admin -> [at : AdminStage, key : Key \cup {NoKey}, seen : SUBSET Key]]
        /\ \A d \in Admin : /\ admin'[d].key = admin[d].key
                            /\ admin'[d].at = admin[d].at \/ (d = a /\ admin'[d].at = "issueAppend")
    <3> DEFINE n == [admin[a] EXCEPT !.at = "issueAppend", !.seen = keyList]
    <3>1. /\ n \in [at : AdminStage, key : Key \cup {NoKey}, seen : SUBSET Key]
          /\ n.key = admin[a].key /\ n.at = "issueAppend"
      BY DEF AdminStage
    <3>2. admin' = [admin EXCEPT ![a] = n]
      BY <1>2 DEF ReadKeyList
    <3> HIDE DEF n
    <3> QED
      BY <3>1, <3>2
  <2>2. /\ UNCHANGED <<keyRecord, keyList, usage, auth, revokedSince>>
        /\ \A d \in Admin : admin'[d].at # "ready" => admin'[d].key \in Key
        /\ \A d \in Admin : admin'[d].at = "revoke" => keyRecord'[admin'[d].key].tier # 0
    BY <1>2, <2>1 DEF ReadKeyList, AdminStage, Issued
  <2> QED
    BY <2>1, <2>2, RecordsMove DEF Issued
<1>3. ASSUME NEW a \in Admin, WriteKeyList(a)
      PROVE  KeysInv'
  <2>1. /\ admin' \in [Admin -> [at : AdminStage, key : Key \cup {NoKey}, seen : SUBSET Key]]
        /\ \A d \in Admin : /\ admin'[d].key = admin[d].key
                            /\ admin'[d].at = admin[d].at \/ (d = a /\ admin'[d].at = "issueUsage")
    BY <1>3 DEF WriteKeyList, AdminStage
  <2>2. keyList' \subseteq Key
    BY <1>3 DEF WriteKeyList
  <2> QED
    BY <1>3, <2>1, <2>2, RecordsMove DEF WriteKeyList, AdminStage, Issued
<1>4. ASSUME NEW a \in Admin, InitialiseUsage(a)
      PROVE  KeysInv'
  <2>1. /\ admin' \in [Admin -> [at : AdminStage, key : Key \cup {NoKey}, seen : SUBSET Key]]
        /\ \A d \in Admin : admin'[d] = admin[d] \/ (d = a /\ admin'[d].at = "ready")
    BY <1>4 DEF InitialiseUsage, IdleAdmin, AdminStage
  <2>2. usage' \in [Key -> Nat]
    BY <1>4 DEF InitialiseUsage
  <2> QED
    BY <1>4, <2>1, <2>2, RecordsMove DEF InitialiseUsage, AdminStage, Issued
<1>5. ASSUME NEW a \in Admin, NEW k \in Key, ReadForRevoke(a, k)
      PROVE  KeysInv'
  <2>1. /\ admin' \in [Admin -> [at : AdminStage, key : Key \cup {NoKey}, seen : SUBSET Key]]
        /\ \A d \in Admin : admin'[d] = admin[d] \/ (d = a /\ admin'[d].at = "revoke" /\ admin'[d].key = k)
    BY <1>5 DEF ReadForRevoke, AdminStage
  <2> QED
    BY <1>5, <2>1, RecordsMove DEF ReadForRevoke, AdminStage, Issued
<1>6. ASSUME NEW a \in Admin, RevokeKey(a)
      PROVE  KeysInv'
  <2> DEFINE k == admin[a].key
             r == [keyRecord[k] EXCEPT !.revoked = TRUE]
  <2>1. k \in Key /\ Issued(k)
    BY <1>6 DEF RevokeKey
  <2>2. r \in KeyRecord /\ r.tier = keyRecord[k].tier /\ r.revoked
    BY <1>0, <2>1, ZenonT(40) DEF KeyRecord
  <2>3. keyRecord' = [keyRecord EXCEPT ![k] = r]
    BY <1>6, <2>1 DEF RevokeKey, Revoked
  <2>4. /\ admin' \in [Admin -> [at : AdminStage, key : Key \cup {NoKey}, seen : SUBSET Key]]
        /\ \A d \in Admin : admin'[d] = admin[d] \/ (d = a /\ admin'[d].at = "ready")
    BY <1>6 DEF RevokeKey, IdleAdmin, AdminStage
  <2> HIDE DEF k, r
  <2>5. keyRecord' \in [Key -> KeyRecord] /\ \A j \in Key : keyRecord'[j] = IF j = k THEN r ELSE keyRecord[j]
    BY <2>1, <2>2, <2>3
  <2>6. \A j \in Key : /\ Issued(j) => Issued(j)'
                       /\ keyRecord[j].revoked => keyRecord'[j].revoked
                       /\ keyRecord'[j].revoked => Issued(j)'
    BY <2>1, <2>2, <2>5 DEF Issued
  <2>7. /\ \A d \in Admin : admin'[d].at # "ready" => admin'[d].key \in Key
        /\ \A d \in Admin : admin'[d].at = "revoke" => keyRecord'[admin'[d].key].tier # 0
    BY <2>4, <2>6 DEF AdminStage, Issued
  <2>8. UNCHANGED <<keyList, usage, auth, revokedSince>>
    BY <1>6 DEF RevokeKey
  <2> QED
    BY <2>4, <2>5, <2>6, <2>7, <2>8, RecordsMove
<1>7. ASSUME NEW k \in Key, KeyExpires(k)
      PROVE  KeysInv'
  <2> DEFINE r == [keyRecord[k] EXCEPT !.expired = TRUE]
  <2>1. r \in KeyRecord /\ r.tier = keyRecord[k].tier /\ r.revoked = keyRecord[k].revoked
    BY <1>0 DEF KeyRecord
  <2>2. keyRecord' = [keyRecord EXCEPT ![k] = r]
    BY <1>7 DEF KeyExpires
  <2> HIDE DEF r
  <2>3. keyRecord' \in [Key -> KeyRecord] /\ \A j \in Key : keyRecord'[j] = IF j = k THEN r ELSE keyRecord[j]
    BY <2>1, <2>2
  <2>4. \A j \in Key : /\ Issued(j) = Issued(j)'
                       /\ keyRecord[j].revoked = keyRecord'[j].revoked
    BY <2>1, <2>3 DEF Issued
  <2> QED
    BY <1>7, <2>3, <2>4, RecordsMove DEF KeyExpires, AdminStage, Issued
<1>8. ASSUME NEW k \in Key, UsageWindowEnds(k)
      PROVE  KeysInv'
  <2>1. usage' \in [Key -> Nat]
    BY <1>8 DEF UsageWindowEnds
  <2> QED
    BY <1>8, <2>1, RecordsMove DEF UsageWindowEnds, AdminStage, Issued
<1> HIDE DEF KeysInv, KeysType, RevocationsLast
<1> QED
  BY <1>1, <1>2, <1>3, <1>4, <1>5, <1>6, <1>7, <1>8 DEF AdminStep

-----------------------------------------------------------------------------
\* A request moves on where its key's mark, as read, lets it.
LEMMA AuthKeeps ==
  ASSUME KeysInv, NEW c \in Call,
         \/ (\E k \in Key, t \in Tier : AuthBegins(c, k, t)) /\ UNCHANGED <<keyRecord, keyList, usage, admin>>
         \/ AuthStep(c)
         \/ CountUsage(c)
  PROVE  KeysInv'
<1> DEFINE AuthRecord == [at : AuthStage, key : Key \cup {NoKey}, tier : Tier \cup {0},
                          seen : SUBSET Key, count : Nat]
<1>0. KeysType /\ RevocationsLast /\ auth[c] \in AuthRecord
  BY DEF KeysInv, KeysType
<1>1. ASSUME NEW n \in AuthRecord, auth' = [auth EXCEPT ![c] = n], usage' \in [Key -> Nat],
             UNCHANGED <<keyRecord, keyList, admin>>,
             revokedSince' \in [Call -> BOOLEAN],
             \A d \in Call \ {c} : revokedSince'[d] = revokedSince[d],
             n.key \in Key, n.at # "none",
             revokedSince'[c] => keyRecord[n.key].revoked,
             n.at \in {"usage", "count", "admitted"} => ~revokedSince'[c]
      PROVE  KeysInv'
  <2>1. KeysType'
    BY <1>0, <1>1 DEF KeysType
  <2>2. \A d \in Call : auth'[d] = IF d = c THEN n ELSE auth[d]
    BY <1>0, <1>1 DEF KeysType
  <2> HIDE DEF AuthRecord
  <2>3. /\ \A k \in Key : keyRecord'[k].revoked => Issued(k)'
        /\ \A a \in Admin : admin'[a].at \in {"issueAppend", "issueUsage"} => admin'[a].key \in Key
        /\ \A a \in Admin : admin'[a].at = "issueList" => admin'[a].key \in Key
        /\ \A a \in Admin : admin'[a].at = "revoke" =>
                              admin'[a].key \in Key /\ keyRecord'[admin'[a].key].tier # 0
    BY <1>0, <1>1 DEF RevocationsLast, Issued
  <2>4. ASSUME NEW d \in Call
        PROVE  /\ auth'[d].at # "none" => auth'[d].key \in Key
               /\ revokedSince'[d] => auth'[d].at # "none" /\ keyRecord'[auth'[d].key].revoked
               /\ auth'[d].at \in {"usage", "count", "admitted"} => ~revokedSince'[d]
    <3>1. CASE d = c
      BY <1>1, <2>2, <3>1
    <3>2. CASE d # c
      BY <1>0, <1>1, <2>2, <3>2 DEF RevocationsLast
    <3> QED
      BY <3>1, <3>2
  <2>5. RevocationsLast'
    BY <2>3, <2>4 DEF RevocationsLast, Issued
  <2> QED
    BY <2>1, <2>5 DEF KeysInv
<1>2. ASSUME NEW k \in Key, NEW t \in Tier, AuthBegins(c, k, t), UNCHANGED <<keyRecord, keyList, usage, admin>>
      PROVE  KeysInv'
  <2> DEFINE n == [at |-> "list", key |-> k, tier |-> t, seen |-> {}, count |-> 0]
  <2>1. n \in AuthRecord /\ n.key = k /\ n.at = "list"
    BY DEF AuthStage
  <2>2. auth' = [auth EXCEPT ![c] = n]
    BY <1>2 DEF AuthBegins
  <2>3. keyRecord[k].revoked \in BOOLEAN
    BY <1>0 DEF KeysType, KeyRecord
  <2>4. revokedSince' = [revokedSince EXCEPT ![c] = keyRecord[k].revoked]
    BY <1>2 DEF AuthBegins
  <2>5. /\ revokedSince' \in [Call -> BOOLEAN]
        /\ revokedSince'[c] = keyRecord[k].revoked
        /\ \A d \in Call \ {c} : revokedSince'[d] = revokedSince[d]
    BY <1>0, <2>3, <2>4 DEF KeysType
  <2> HIDE DEF n, AuthRecord
  <2>6. usage' \in [Key -> Nat]
    BY <1>0, <1>2 DEF KeysType
  <2> QED
    BY <1>1, <1>2, <2>1, <2>2, <2>5, <2>6
<1>3. ASSUME NEW n \in AuthRecord, auth' = [auth EXCEPT ![c] = n], usage' \in [Key -> Nat],
             UNCHANGED <<keyRecord, keyList, admin, revokedSince>>,
             n.key = auth[c].key, n.at # "none", auth[c].at # "none",
             n.at \in {"usage", "count", "admitted"} => ~revokedSince[c]
      PROVE  KeysInv'
  <2>1. auth[c].key \in Key /\ (revokedSince[c] => keyRecord[auth[c].key].revoked)
    BY <1>0, <1>3 DEF RevocationsLast
  <2>2. revokedSince' \in [Call -> BOOLEAN]
    BY <1>0, <1>3 DEF KeysType
  <2> HIDE DEF AuthRecord
  <2> QED
    BY <1>1, <1>3, <2>1, <2>2
<1>4. ASSUME ReadListedKeys(c), UNCHANGED <<keyRecord, keyList, usage, admin>>
      PROVE  KeysInv'
  <2> DEFINE n == [auth[c] EXCEPT !.at = "records", !.seen = keyList]
  <2>1. n \in AuthRecord /\ n.key = auth[c].key /\ n.at = "records"
    BY <1>0 DEF KeysType, AuthStage
  <2>2. auth' = [auth EXCEPT ![c] = n] /\ auth[c].at = "list" /\ UNCHANGED revokedSince
    BY <1>4 DEF ReadListedKeys
  <2>3. usage' \in [Key -> Nat]
    BY <1>0, <1>4 DEF KeysType
  <2> HIDE DEF n, AuthRecord
  <2> QED
    BY <1>3, <1>4, <2>1, <2>2, <2>3
<1>5. ASSUME CheckKey(c), UNCHANGED <<keyRecord, keyList, usage, admin>>
      PROVE  KeysInv'
  <2>1. PICK at \in {"usage", "refused"} : /\ auth' = [auth EXCEPT ![c].at = at]
                                           /\ at = "usage" => Valid(auth[c].key)
    BY <1>5 DEF CheckKey, AuthContinues
  <2> DEFINE n == [auth[c] EXCEPT !.at = at]
  <2>2. n \in AuthRecord /\ n.key = auth[c].key /\ n.at = at
    BY <1>0 DEF AuthStage
  <2>3. auth' = [auth EXCEPT ![c] = n] /\ auth[c].at = "records" /\ UNCHANGED revokedSince
    BY <1>5, <2>1 DEF CheckKey
  <2>4. at = "usage" => ~revokedSince[c]
    BY <1>0, <2>1 DEF RevocationsLast, Valid
  <2>5. usage' \in [Key -> Nat]
    BY <1>0, <1>5 DEF KeysType
  <2> HIDE DEF n, AuthRecord
  <2> QED
    BY <1>3, <1>5, <2>2, <2>3, <2>4, <2>5
<1>6. ASSUME ReadUsage(c), UNCHANGED <<keyRecord, keyList, usage, admin>>
      PROVE  KeysInv'
  <2>0. auth[c].at = "usage" /\ auth[c].key \in Key /\ usage[auth[c].key] \in Nat /\ ~revokedSince[c]
    BY <1>0, <1>6 DEF ReadUsage, RevocationsLast, KeysType
  <2> DEFINE at == IF Reached(usage[auth[c].key]) THEN "refused" ELSE "count"
             n == [auth[c] EXCEPT !.count = usage[auth[c].key], !.at = at]
  <2>1. at \in {"refused", "count"}
    OBVIOUS
  <2>2. auth' = [auth EXCEPT ![c] = n] /\ UNCHANGED revokedSince
    BY <1>6 DEF ReadUsage
  <2> HIDE DEF at
  <2>3. n \in AuthRecord /\ n.key = auth[c].key /\ n.at # "none"
    BY <1>0, <2>0, <2>1 DEF AuthStage
  <2>4. usage' \in [Key -> Nat]
    BY <1>0, <1>6 DEF KeysType
  <2> HIDE DEF n, AuthRecord
  <2> QED
    BY <1>3, <1>6, <2>0, <2>2, <2>3, <2>4
<1>7. ASSUME CountUsage(c)
      PROVE  KeysInv'
  <2> DEFINE n == [auth[c] EXCEPT !.at = "admitted"]
  <2>1. n \in AuthRecord /\ n.key = auth[c].key /\ n.at = "admitted"
    BY <1>0 DEF AuthStage
  <2>2. auth' = [auth EXCEPT ![c] = n] /\ auth[c].at = "count"
    BY <1>7 DEF CountUsage, AuthContinues
  <2>3. ~revokedSince[c]
    BY <1>0, <2>2 DEF RevocationsLast
  <2>4. usage' \in [Key -> Nat] /\ UNCHANGED <<keyRecord, keyList, admin, revokedSince>>
    <3>1. auth[c].count + 1 \in Nat /\ usage \in [Key -> Nat]
      BY <1>0 DEF KeysType
    <3> QED
      BY <1>7, <3>1 DEF CountUsage
  <2> HIDE DEF n, AuthRecord
  <2> QED
    BY <1>3, <2>1, <2>2, <2>3, <2>4
<1> QED
  BY <1>2, <1>4, <1>5, <1>6, <1>7 DEF AuthStep

-----------------------------------------------------------------------------
(* Idempotent answers: an answered key has a live record, and only a key   *)
(* without one runs its handler.                                           *)
(***************************************************************************)
CallRecord == [at : {"ready", "lookup", "handler", "store", "done"}, key : IdemKey \cup {NoRecord},
               body : Body \cup {NoRecord}, code : Codes \cup {"none"}]

IdemType ==
  /\ cache \in [IdemKey -> CacheRecord \cup {NoRecord}]
  /\ call \in [Call -> CallRecord]
  /\ \A c \in Call : call[c].at # "ready" => call[c].key \in IdemKey /\ call[c].body \in Body
  /\ \A c \in Call : call[c].at = "store" => call[c].code \in Codes \ {"failed"}

IdemInv ==
  /\ IdemType
  /\ \A k \in answered : k \in IdemKey /\ Live(k)
  /\ reruns = {}

\* Initially nothing is cached and nothing answered.
LEMMA IdemStart == IdemInit => IdemInv
<1> SUFFICES ASSUME IdemInit PROVE IdemInv
  OBVIOUS
<1>1. NotCalled \in CallRecord /\ NotCalled.at = "ready"
  BY DEF NotCalled, CallRecord
<1> QED
  BY <1>1 DEF IdemInit, IdemInv, IdemType

\* One call's record changes, to one that fits where the call is.
LEMMA CallMoves ==
  ASSUME IdemType, NEW c \in Call, NEW n \in CallRecord, call' = [call EXCEPT ![c] = n],
         n.key \in IdemKey, n.body \in Body, n.at = "store" => n.code \in Codes \ {"failed"}
  PROVE  /\ call' \in [Call -> CallRecord]
         /\ \A d \in Call : call'[d].at # "ready" => call'[d].key \in IdemKey /\ call'[d].body \in Body
         /\ \A d \in Call : call'[d].at = "store" => call'[d].code \in Codes \ {"failed"}
<1>1. \A d \in Call : call'[d] = IF d = c THEN n ELSE call[d]
  BY DEF IdemType
<1> QED
  BY <1>1 DEF IdemType

\* A call that goes on to "at" with a code keeps its key and its body.
LEMMA CallGoesOn ==
  ASSUME IdemType, NEW c \in Call, call[c].at # "ready",
         NEW at \in {"lookup", "handler", "store", "done"}, NEW code \in Codes \cup {"none"},
         at = "store" => code \in Codes \ {"failed"},
         call' = [call EXCEPT ![c].at = at, ![c].code = code]
  PROVE  /\ call' \in [Call -> CallRecord]
         /\ \A d \in Call : call'[d].at # "ready" => call'[d].key \in IdemKey /\ call'[d].body \in Body
         /\ \A d \in Call : call'[d].at = "store" => call'[d].code \in Codes \ {"failed"}
<1> DEFINE n == [call[c] EXCEPT !.at = at, !.code = code]
<1>1. call[c] \in CallRecord /\ call[c].key \in IdemKey /\ call[c].body \in Body
  BY DEF IdemType
<1>2. n \in CallRecord /\ n.key = call[c].key /\ n.body = call[c].body /\ n.at = at /\ n.code = code
  BY <1>1 DEF CallRecord
<1>3. call' = [call EXCEPT ![c] = n]
  OBVIOUS
<1> HIDE DEF n
<1> QED
  BY <1>1, <1>2, <1>3, CallMoves

\* Each step of withIdempotency keeps it.
LEMMA IdemKeeps ==
  ASSUME IdemInv, NEW c \in Call,
         \/ \E k \in IdemKey, b \in Body : CallArrives(c, k, b)
         \/ ReplayOrConflict(c) \/ RunHandler(c) \/ StoreAnswer(c)
         \/ \E code \in Codes : HandlerAnswers(c, code)
  PROVE  IdemInv'
<1>0. IdemType /\ call[c] \in CallRecord
  BY DEF IdemInv, IdemType
<1>1. ASSUME NEW k \in IdemKey, NEW b \in Body, CallArrives(c, k, b)
      PROVE  IdemInv'
  <2> DEFINE n == [at |-> "lookup", key |-> k, body |-> b, code |-> "none"]
  <2>1. n \in CallRecord /\ n.key = k /\ n.body = b /\ n.at = "lookup"
    BY DEF CallRecord
  <2>2. call' = [call EXCEPT ![c] = n] /\ UNCHANGED <<cache, answered, reruns>>
    BY <1>1 DEF CallArrives
  <2> HIDE DEF n
  <2>3. IdemType'
    BY <1>0, <2>1, <2>2, CallMoves DEF IdemType
  <2> QED
    BY <2>2, <2>3 DEF IdemInv, Live
<1>2. ASSUME ReplayOrConflict(c)
      PROVE  IdemInv'
  <2>1. cache[call[c].key] \in CacheRecord
    BY <1>0, <1>2 DEF ReplayOrConflict, Doing, Live, IdemType
  <2>2. PICK code \in Codes \ {"failed"} : call' = [call EXCEPT ![c].at = "done", ![c].code = code]
    BY <1>2, <2>1 DEF ReplayOrConflict, CacheRecord, Codes
  <2>3. call[c].at # "ready" /\ UNCHANGED <<cache, answered, reruns>>
    BY <1>2 DEF ReplayOrConflict, Doing
  <2>4. IdemType'
    BY <1>0, <2>2, <2>3, CallGoesOn DEF IdemType
  <2> QED
    BY <2>3, <2>4 DEF IdemInv, Live
<1>3. ASSUME RunHandler(c)
      PROVE  IdemInv'
  <2>1. call[c].at = "lookup" /\ call[c].key \in IdemKey /\ ~Live(call[c].key)
    BY <1>0, <1>3 DEF RunHandler, Doing, IdemType
  <2>2. reruns' = {} /\ answered' = answered /\ call[c].key \notin answered
    BY <1>3, <2>1 DEF RunHandler, Run, IdemInv
  <2>3. cache' = [cache EXCEPT ![call[c].key] = NoRecord]
    BY <1>3 DEF RunHandler
  <2>4. call' = [call EXCEPT ![c].at = "handler", ![c].code = call[c].code]
    <3>1. call' = [call EXCEPT ![c].at = "handler"]
      BY <1>3 DEF RunHandler, Run, Continue
    <3> QED
      BY <1>0, <3>1 DEF CallRecord
  <2>5. call[c].code \in Codes \cup {"none"}
    BY <1>0 DEF CallRecord
  <2>6. IdemType'
    BY <1>0, <2>1, <2>3, <2>4, <2>5, CallGoesOn DEF IdemType
  <2>7. \A k \in answered : k \in IdemKey /\ Live(k)'
    BY <2>2, <2>3 DEF IdemInv, IdemType, Live
  <2> QED
    BY <2>2, <2>6, <2>7 DEF IdemInv
<1>4. ASSUME StoreAnswer(c)
      PROVE  IdemInv'
  <2> DEFINE r == [body |-> call[c].body, code |-> call[c].code, expired |-> FALSE]
  <2>1. call[c].at = "store" /\ call[c].key \in IdemKey /\ call[c].body \in Body /\ call[c].code \in Codes \ {"failed"}
    BY <1>0, <1>4 DEF StoreAnswer, Doing, IdemType
  <2>2. r \in CacheRecord /\ r # NoRecord /\ ~r.expired
    <3>1. r \in CacheRecord
      BY <2>1 DEF CacheRecord
    <3>2. ~r.expired
      OBVIOUS
    <3> HIDE DEF r
    <3> QED
      BY <3>1, <3>2, IdemAssumption
  <2>3. /\ cache' = [cache EXCEPT ![call[c].key] = r]
        /\ answered' = answered \cup {call[c].key}
        /\ reruns' = reruns
    BY <1>4 DEF StoreAnswer
  <2>4. call' = [call EXCEPT ![c].at = "done", ![c].code = call[c].code]
    <3>1. call' = [call EXCEPT ![c].at = "done"]
      BY <1>4 DEF StoreAnswer, Continue
    <3> QED
      BY <1>0, <3>1 DEF CallRecord
  <2> HIDE DEF r
  <2>5. IdemType'
    BY <1>0, <2>1, <2>2, <2>3, <2>4, CallGoesOn DEF IdemType
  <2>6. \A k \in answered' : k \in IdemKey /\ Live(k)'
    BY <2>1, <2>2, <2>3 DEF IdemInv, IdemType, Live
  <2> QED
    BY <2>3, <2>5, <2>6 DEF IdemInv
<1>5. ASSUME NEW code \in Codes, HandlerAnswers(c, code)
      PROVE  IdemInv'
  <2>1. PICK at \in {"done", "store"} :
          /\ call' = [call EXCEPT ![c].at = at, ![c].code = code]
          /\ at = "store" => code # "failed"
    BY <1>5 DEF HandlerAnswers
  <2>2. call[c].at # "ready" /\ UNCHANGED <<answered, reruns>> /\ (cache' = cache \/ cache' = Prune)
    BY <1>5 DEF HandlerAnswers, Doing
  <2>3. cache' \in [IdemKey -> CacheRecord \cup {NoRecord}] /\ \A k \in IdemKey : Live(k) => cache'[k] = cache[k]
    BY <1>0, <2>2 DEF IdemType, Prune
  <2>4. IdemType'
    BY <1>0, <2>1, <2>2, <2>3, CallGoesOn DEF IdemType
  <2> QED
    BY <2>2, <2>3, <2>4 DEF IdemInv, Live
<1> QED
  BY <1>1, <1>2, <1>3, <1>4, <1>5

\* The end of a record's time to live keeps it.
LEMMA ExpiryKeeps ==
  ASSUME IdemInv, NEW k \in IdemKey, RecordExpires(k)
  PROVE  IdemInv'
<1> DEFINE r == [cache[k] EXCEPT !.expired = TRUE]
<1>1. cache[k] \in CacheRecord
  BY DEF RecordExpires, Live, IdemInv, IdemType
<1>2. r \in CacheRecord
  BY <1>1 DEF CacheRecord
<1>3. cache' = [cache EXCEPT ![k] = r] /\ answered' = answered \ {k} /\ UNCHANGED <<call, reruns>>
  BY DEF RecordExpires
<1> HIDE DEF r
<1>4. IdemType'
  BY <1>2, <1>3 DEF IdemInv, IdemType
<1> QED
  BY <1>3, <1>4 DEF IdemInv, IdemType, Live

-----------------------------------------------------------------------------
(* Sequence numbers: a claim about to be written was for the number it     *)
(* saw, all below which had been accepted.                                 *)
(***************************************************************************)
Below(n) == \A m \in Nat : m < n => m \in accepted
SeqInv ==
  /\ nextSeq \in Nat /\ Below(nextSeq)
  /\ claim \in [Claimant -> [at : {"idle", "write"}, claimed : Nat, current : Nat]]
  /\ \A p \in Claimant : claim[p].at = "write" => claim[p].claimed = claim[p].current /\ Below(claim[p].current)

\* Initially no number is below the next one.
LEMMA SeqStart == SeqInit => SeqInv
  BY DEF SeqInit, SeqInv, Below

\* Claims and resets keep it.
LEMMA SeqKeeps ==
  ASSUME SeqInv, SeqNext
  PROVE  SeqInv'
<1>1. ASSUME NEW p \in Claimant, NEW n \in 0..(MaxSeq - 1), ReadSequence(p, n)
      PROVE  SeqInv'
  <2> DEFINE r == [at |-> "write", claimed |-> nextSeq, current |-> nextSeq]
  <2>1. r \in [at : {"idle", "write"}, claimed : Nat, current : Nat] /\ r.claimed = r.current /\ r.current = nextSeq
    BY DEF SeqInv
  <2>2. claim' = [claim EXCEPT ![p] = r] /\ UNCHANGED <<nextSeq, accepted>>
    BY <1>1 DEF ReadSequence
  <2> HIDE DEF r
  <2> QED
    BY <2>1, <2>2 DEF SeqInv, Below
<1>2. ASSUME NEW p \in Claimant, WriteSequence(p)
      PROVE  SeqInv'
  <2> DEFINE r == [at |-> "idle", claimed |-> 0, current |-> 0]
  <2>1. r \in [at : {"idle", "write"}, claimed : Nat, current : Nat] /\ r.at = "idle"
    OBVIOUS
  <2>2. claim[p].current \in Nat /\ claim[p].claimed = claim[p].current /\ Below(claim[p].current)
    BY <1>2 DEF WriteSequence, SeqInv
  <2>3. /\ claim' = [claim EXCEPT ![p] = r]
        /\ nextSeq' = claim[p].current + 1
        /\ accepted' = accepted \cup {claim[p].current}
    BY <1>2, <2>2 DEF WriteSequence, Successor
  <2>4. nextSeq' \in Nat /\ Below(nextSeq)' /\ \A n \in Nat : Below(n) => Below(n)'
    BY <2>2, <2>3 DEF Below
  <2> HIDE DEF r
  <2>5. \A q \in Claimant : claim'[q] = IF q = p THEN r ELSE claim[q]
    BY <2>3 DEF SeqInv
  <2>6. claim' \in [Claimant -> [at : {"idle", "write"}, claimed : Nat, current : Nat]]
    BY <2>1, <2>3 DEF SeqInv
  <2>7. ASSUME NEW q \in Claimant, claim'[q].at = "write"
        PROVE  claim'[q].claimed = claim'[q].current /\ \A m \in Nat : m < claim'[q].current => m \in accepted'
    <3>1. claim'[q] = claim[q] /\ claim[q].at = "write"
      BY <2>1, <2>5, <2>7
    <3> QED
      BY <2>3, <3>1 DEF SeqInv, Below
  <2> QED
    BY <2>4, <2>6, <2>7 DEF SeqInv, Below
<1>3. ASSUME ResetSequence
      PROVE  SeqInv'
  BY <1>3 DEF ResetSequence, SeqInv, Below
<1> QED
  BY <1>1, <1>2, <1>3 DEF SeqNext

-----------------------------------------------------------------------------
ApiInv == KeysInv /\ IdemInv /\ SeqInv

\* All three hold of every state of the API.
LEMMA ApiInvariant == Spec => []ApiInv
<1>1. Init => ApiInv
  BY KeysStart, IdemStart, SeqStart DEF Init, ApiInv
<1>2. ASSUME KeysInv, UNCHANGED keyVars PROVE KeysInv'
  BY <1>2 DEF keyVars, KeysInv, KeysType, RevocationsLast, Issued
<1>3. ASSUME IdemInv, UNCHANGED idemVars PROVE IdemInv'
  BY <1>3 DEF idemVars, IdemInv, IdemType, Live
<1>4. ASSUME SeqInv, UNCHANGED seqVars PROVE SeqInv'
  BY <1>4 DEF seqVars, SeqInv, Below
<1>5. ASSUME ApiInv, RouteStep, UNCHANGED seqVars
      PROVE  ApiInv'
  <2>1. ASSUME NEW c \in Call, NEW id \in Caller, NEW e \in Endpoint, NEW k \in Key, NEW t \in Tier,
               RequestArrives(c, id, e, k, t)
        PROVE  ApiInv'
    BY <1>2, <1>3, <1>4, <1>5, <2>1, AuthKeeps DEF ApiInv, RequestArrives
  <2>2. ASSUME NEW c \in Call, NEW ik \in IdemKey, NEW b \in Body, EntersIdempotency(c, ik, b)
        PROVE  ApiInv'
    BY <1>2, <1>4, <1>5, <2>2, IdemKeeps DEF ApiInv, EntersIdempotency
  <2>3. ASSUME NEW c \in Call, Handles(c)
        PROVE  ApiInv'
    BY <1>2, <1>4, <1>5, <2>3, IdemKeeps DEF ApiInv, Handles
  <2>4. ASSUME KeysMove
        PROVE  ApiInv'
    BY <1>3, <1>4, <1>5, <2>4, AdminKeeps, AuthKeeps DEF ApiInv, KeysMove
  <2>5. ASSUME NEW ik \in IdemKey, RecordExpires(ik), UNCHANGED <<limitVars, keyVars>>
        PROVE  ApiInv'
    BY <1>2, <1>4, <1>5, <2>5, ExpiryKeeps DEF ApiInv
  <2> QED
    BY <1>5, <2>1, <2>2, <2>3, <2>4, <2>5 DEF RouteStep
<1>6. ApiInv /\ [Next]_routeVars => ApiInv'
  <2> SUFFICES ASSUME ApiInv, [Next]_routeVars PROVE ApiInv'
    OBVIOUS
  <2>1. CASE RouteStep /\ UNCHANGED seqVars
    BY <1>5, <2>1
  <2>2. CASE LimiterStep /\ UNCHANGED seqVars
    BY <1>2, <1>3, <1>4, <2>2 DEF ApiInv, LimiterStep, Protected
  <2>3. CASE SeqNext /\ UNCHANGED <<limitVars, Protected>>
    BY <1>2, <1>3, <2>3, SeqKeeps DEF ApiInv, Protected
  <2>4. CASE UNCHANGED routeVars
    BY <1>2, <1>3, <1>4, <2>4 DEF ApiInv, routeVars
  <2> QED
    BY <2>1, <2>2, <2>3, <2>4 DEF Next
<1> QED
  BY <1>1, <1>6, PTL DEF Spec

\* A request that begins after its key was revoked is never admitted
\* (apiKeyRegistry.ts:202-212, 232-248).
THEOREM RevokedStaysOut == Spec => []RevokedIsRefused
<1>1. ApiInv => RevokedIsRefused
  BY DEF ApiInv, KeysInv, RevocationsLast, RevokedIsRefused
<1> QED
  BY <1>1, ApiInvariant, PTL

\* The handler does not run again for a key whose answer is cached and live
\* (idempotency.ts:92-142).
THEOREM AnsweredOnce == Spec => []AnsweredIsNotRerun
<1>1. ApiInv => AnsweredIsNotRerun
  BY DEF ApiInv, IdemInv, AnsweredIsNotRerun
<1> QED
  BY <1>1, ApiInvariant, PTL

\* Every number below the next one was accepted (eventSequence.ts:43-63).
THEOREM NumbersHaveNoGaps == Spec => []NoSkippedNumber
<1>1. ApiInv => NoSkippedNumber
  BY DEF ApiInv, SeqInv, Below, NoSkippedNumber
<1> QED
  BY <1>1, ApiInvariant, PTL

-----------------------------------------------------------------------------
\* A nonempty set of natural numbers has a smallest element.
LEMMA SmallestNat ==
  ASSUME NEW T, T \subseteq Nat, T # {}
  PROVE  \E n \in T : \A m \in T : n <= m
<1> DEFINE Less == OpToRel(<, Nat)
<1>1. \A x, y \in Nat : <<x, y>> \in Less <=> x < y
  BY DEF OpToRel
<1>2. IsWellFoundedOn(Less, Nat)
  BY NatLessThanWellFounded, Zenon
<1> HIDE DEF Less
<1>3. PICK x \in T : \A y \in T : ~(<<y, x>> \in Less)
  BY <1>2, WFMin, Zenon
<1>4. \A y \in T : ~(y < x)
  BY <1>1, <1>3, Zenon
<1> QED
  BY <1>4

-----------------------------------------------------------------------------
(* Counting: how many entries of a list, or of a log, lie after a moment.  *)

LEMMA IndexSets ==
  ASSUME NEW n \in Nat, NEW X, X \subseteq 1..n
  PROVE  IsFiniteSet(X) /\ Cardinality(X) \in Nat /\ Cardinality(1..n) = n /\ Cardinality(X) <= n
<1>1. IsFiniteSet(1..n) /\ Cardinality(1..n) = n
  BY FS_Interval
<1> QED
  BY <1>1, FS_Subset, FS_CardinalityType

LEMMA OneMoreIndex ==
  ASSUME NEW n \in Nat, NEW X, X \subseteq 1..n
  PROVE  Cardinality(X \cup {n + 1}) = Cardinality(X) + 1
<1>1. IsFiniteSet(X)
  BY IndexSets
<1>2. n + 1 \notin X
  OBVIOUS
<1> QED
  BY <1>1, <1>2, FS_AddElement

\* The entries of a list of times later than t.
Later(times, t) == {k \in DOMAIN times : times[k] > t}

LEMMA LaterCounts ==
  ASSUME NEW times \in Seq(Nat), NEW t \in Int
  PROVE  IsFiniteSet(Later(times, t)) /\ Cardinality(Later(times, t)) \in Nat
<1>1. Len(times) \in Nat /\ Later(times, t) \subseteq 1..Len(times)
  BY DEF Later
<1> QED
  BY <1>1, IndexSets

\* One more time counts when it is later.
LEMMA LaterOneMore ==
  ASSUME NEW times \in Seq(Nat), NEW x \in Nat, NEW t \in Int
  PROVE  Cardinality(Later(Append(times, x), t)) =
           IF x > t THEN Cardinality(Later(times, t)) + 1 ELSE Cardinality(Later(times, t))
<1>1. Len(times) \in Nat /\ Later(times, t) \subseteq 1..Len(times) /\ DOMAIN times = 1..Len(times)
  BY DEF Later
<1>2. /\ DOMAIN Append(times, x) = 1..(Len(times) + 1)
      /\ Append(times, x)[Len(times) + 1] = x
      /\ \A k \in 1..Len(times) : Append(times, x)[k] = times[k]
  OBVIOUS
<1>3. CASE x > t
  <2>1. Later(Append(times, x), t) = Later(times, t) \cup {Len(times) + 1}
    BY <1>1, <1>2, <1>3 DEF Later
  <2> QED
    BY <1>1, <1>3, <2>1, OneMoreIndex
<1>4. CASE ~(x > t)
  <2>1. Later(Append(times, x), t) = Later(times, t)
    BY <1>1, <1>2, <1>4 DEF Later
  <2> QED
    BY <1>4, <2>1
<1> QED
  BY <1>3, <1>4

\* What a filter keeps of the first times of a list.
KeepsSince(times, size, f, m) ==
  f = [n \in 0..m |-> IF n = 0 THEN <<>>
                      ELSE IF limitNow - times[n] < size THEN Append(f[n - 1], times[n]) ELSE f[n - 1]]

LEMMA KeepsSinceExists ==
  ASSUME NEW times, NEW size
  PROVE  \A k \in Nat : \E f : KeepsSince(times, size, f, k)
<1> DEFINE T == {k \in Nat : ~\E f : KeepsSince(times, size, f, k)}
<1> SUFFICES ASSUME T # {} PROVE FALSE
  OBVIOUS
<1>1. PICK k \in T : \A m \in T : k <= m
  BY SmallestNat
<1>2. k # 0
  <2>1. KeepsSince(times, size, [n \in 0..0 |-> <<>>], 0)
    BY DEF KeepsSince
  <2> QED
    BY <2>1
<1>3. k - 1 \in Nat /\ k - 1 \notin T
  BY <1>1, <1>2
<1>4. PICK f : KeepsSince(times, size, f, k - 1)
  BY <1>3
<1>5. PICK g : g = [n \in 0..k |-> IF n = k THEN IF limitNow - times[k] < size THEN Append(f[k - 1], times[k]) ELSE f[k - 1]
                                   ELSE f[n]]
  OBVIOUS
<1>6. PICK h : h = [n \in 0..k |-> IF n = 0 THEN <<>>
                                   ELSE IF limitNow - times[n] < size THEN Append(g[n - 1], times[n]) ELSE g[n - 1]]
  OBVIOUS
<1>7. \A n \in 0..(k - 1) : f[n] = IF n = 0 THEN <<>>
                                   ELSE IF limitNow - times[n] < size THEN Append(f[n - 1], times[n]) ELSE f[n - 1]
  BY <1>4 DEF KeepsSince
<1>8. \A n \in 0..k : g[n] = h[n]
  <2> SUFFICES ASSUME NEW n \in 0..k PROVE g[n] = h[n]
    OBVIOUS
  <2>1. CASE n = k
    <3>1. g[k - 1] = f[k - 1]
      BY <1>2, <1>3, <1>5
    <3> QED
      BY <1>2, <1>5, <1>6, <2>1, <3>1
  <2>2. CASE n # k /\ n # 0
    <3>1. n \in 0..(k - 1) /\ n - 1 \in 0..k /\ n - 1 # k
      BY <2>2
    <3>2. g[n] = f[n] /\ g[n - 1] = f[n - 1]
      BY <1>5, <2>2, <3>1
    <3> QED
      BY <1>6, <1>7, <2>2, <3>1, <3>2
  <2>3. CASE n = 0
    BY <1>2, <1>3, <1>5, <1>6, <1>7, <2>3
  <2> QED
    BY <2>1, <2>2, <2>3
<1>9. g = h
  BY <1>5, <1>6, <1>8
<1>10. KeepsSince(times, size, g, k)
  BY <1>6, <1>9 DEF KeepsSince
<1> QED
  BY <1>1, <1>10

\* A list of late times with a late time added is a list of late times.
LEMMA AllLater ==
  ASSUME NEW q \in Seq(Nat), NEW x \in Nat, NEW m \in Int, x > m,
         \A i \in DOMAIN q : q[i] > m
  PROVE  Append(q, x) \in Seq(Nat) /\ \A i \in DOMAIN Append(q, x) : Append(q, x)[i] > m
<1>1. PICK n \in Nat : n = Len(q) /\ DOMAIN q = 1..n
  OBVIOUS
<1>2. Append(q, x) \in Seq(Nat) /\ DOMAIN Append(q, x) = 1..(n + 1)
  BY <1>1
<1>3. \A i \in 1..(n + 1) : Append(q, x)[i] = IF i = n + 1 THEN x ELSE q[i]
  BY <1>1
<1>4. ASSUME NEW i \in 1..(n + 1) PROVE Append(q, x)[i] > m
  <2>1. CASE i = n + 1
    BY <1>3, <2>1
  <2>2. CASE i \in 1..n
    BY <1>1, <1>3, <2>2
  <2> QED
    BY <1>1, <2>1, <2>2
<1> QED
  BY <1>2, <1>4

\* The filter keeps the times still inside the window, and counts them.
LEMMA SinceCounts ==
  ASSUME NEW times \in Seq(Nat), NEW size \in Int, limitNow \in Nat
  PROVE  /\ Since(times, size) \in Seq(Nat)
         /\ Len(Since(times, size)) = Cardinality(Later(times, limitNow - size))
         /\ \A t \in Int : t >= limitNow - size =>
              Cardinality(Later(Since(times, size), t)) = Cardinality(Later(times, t))
<1>1. Len(times) \in Nat /\ DOMAIN times = 1..Len(times)
  OBVIOUS
<1>2. \E f : KeepsSince(times, size, f, Len(times))
  BY <1>1, KeepsSinceExists
<1>3. PICK f : KeepsSince(times, size, f, Len(times)) /\ Since(times, size) = f[Len(times)]
  BY <1>2, Zenon DEF Since, KeepsSince
<1> DEFINE Old(k, t) == {n \in 1..k : times[n] > t}
           P(k) == /\ f[k] \in Seq(Nat)
                   /\ \A i \in DOMAIN f[k] : f[k][i] > limitNow - size
                   /\ \A t \in Int : t >= limitNow - size => Cardinality(Later(f[k], t)) = Cardinality(Old(k, t))
           T == {k \in 0..Len(times) : ~P(k)}
<1>4. f[0] = <<>> /\ \A k \in 1..Len(times) :
        f[k] = IF limitNow - times[k] < size THEN Append(f[k - 1], times[k]) ELSE f[k - 1]
  <2>1. \A n \in 0..Len(times) : f[n] = IF n = 0 THEN <<>>
          ELSE IF limitNow - times[n] < size THEN Append(f[n - 1], times[n]) ELSE f[n - 1]
    BY <1>3 DEF KeepsSince
  <2> QED
    BY <1>1, <2>1
<1>5. P(0)
  <2>1. \A t : Later(f[0], t) = {} /\ Old(0, t) = {}
    BY <1>4 DEF Later
  <2> HIDE DEF Old
  <2>2. \A t : Cardinality(Later(f[0], t)) = Cardinality(Old(0, t))
    BY <2>1
  <2>3. f[0] \in Seq(Nat) /\ DOMAIN f[0] = {}
    BY <1>4
  <2> QED
    BY <2>2, <2>3
<1>6. ASSUME NEW k \in 1..Len(times), P(k - 1) PROVE P(k)
  <2>1. times[k] \in Nat /\ k - 1 \in Nat
    BY <1>1
  <2>2. \A t \in Int : Cardinality(Old(k, t)) =
          IF times[k] > t THEN Cardinality(Old(k - 1, t)) + 1 ELSE Cardinality(Old(k - 1, t))
    <3> SUFFICES ASSUME NEW t \in Int
                 PROVE  Cardinality(Old(k, t)) =
                          IF times[k] > t THEN Cardinality(Old(k - 1, t)) + 1 ELSE Cardinality(Old(k - 1, t))
      OBVIOUS
    <3>1. Old(k - 1, t) \subseteq 1..(k - 1) /\ k - 1 + 1 = k
      BY <2>1
    <3>2. CASE times[k] > t
      <4>1. Old(k, t) = Old(k - 1, t) \cup {k - 1 + 1}
        BY <2>1, <3>1, <3>2
      <4> HIDE DEF Old
      <4> QED
        BY <2>1, <3>1, <3>2, <4>1, OneMoreIndex
    <3>3. CASE ~(times[k] > t)
      <4>1. Old(k, t) = Old(k - 1, t)
        BY <2>1, <3>3
      <4> QED
        BY <3>3, <4>1
    <3> QED
      BY <3>2, <3>3
  <2> HIDE DEF Old
  <2>3. CASE limitNow - times[k] < size
    <3>0. times[k] > limitNow - size
      BY <2>1, <2>3
    <3>1. f[k] = Append(f[k - 1], times[k])
      BY <1>4, <2>3
    <3>2. f[k - 1] \in Seq(Nat)
      BY <1>6
    <3>3. \A t \in Int : Cardinality(Later(f[k], t)) =
            IF times[k] > t THEN Cardinality(Later(f[k - 1], t)) + 1 ELSE Cardinality(Later(f[k - 1], t))
      BY <2>1, <3>1, <3>2, LaterOneMore
    <3>4. PICK m \in Int : m = limitNow - size
      OBVIOUS
    <3>5. PICK q : q = f[k - 1]
      OBVIOUS
    <3>6. q \in Seq(Nat) /\ \A i \in DOMAIN q : q[i] > m
      BY <1>6, <3>4, <3>5
    <3>7. f[k] \in Seq(Nat) /\ \A i \in DOMAIN f[k] : f[k][i] > limitNow - size
      <4>1. times[k] > m /\ f[k] = Append(q, times[k])
        BY <3>0, <3>1, <3>4, <3>5
      <4>2. Append(q, times[k]) \in Seq(Nat) /\ \A i \in DOMAIN Append(q, times[k]) : Append(q, times[k])[i] > m
        BY <2>1, <3>6, <4>1, AllLater
      <4> QED
        BY <3>4, <4>1, <4>2
    <3>8. \A t \in Int : t >= limitNow - size => Cardinality(Later(f[k], t)) = Cardinality(Old(k, t))
      BY <1>6, <2>2, <3>3
    <3> QED
      BY <3>7, <3>8
  <2>4. CASE ~(limitNow - times[k] < size)
    <3>1. f[k] = f[k - 1] /\ ~(times[k] > limitNow - size)
      BY <1>4, <2>1, <2>4
    <3>2. \A t \in Int : t >= limitNow - size => Cardinality(Old(k, t)) = Cardinality(Old(k - 1, t))
      BY <2>1, <2>2, <3>1
    <3> QED
      BY <1>6, <3>1, <3>2
  <2> QED
    BY <2>3, <2>4
<1> HIDE DEF P
<1>7. T = {}
  <2> SUFFICES ASSUME T # {} PROVE FALSE
    OBVIOUS
  <2>1. PICK k \in T : \A m \in T : k <= m
    <3>1. T \subseteq Nat
      BY <1>1
    <3> QED
      BY <3>1, SmallestNat
  <2>2. k \in 1..Len(times) /\ k - 1 \in 0..Len(times) /\ k - 1 \notin T
    BY <1>1, <1>5, <2>1
  <2> QED
    BY <1>6, <2>1, <2>2
<1>8. P(Len(times))
  BY <1>1, <1>7
<1>9. \A t : Old(Len(times), t) = Later(times, t)
  BY <1>1 DEF Later
<1> HIDE DEF Old
<1>10. /\ Since(times, size) \in Seq(Nat)
       /\ \A i \in DOMAIN Since(times, size) : Since(times, size)[i] > limitNow - size
       /\ \A t \in Int : t >= limitNow - size =>
            Cardinality(Later(Since(times, size), t)) = Cardinality(Later(times, t))
  BY <1>3, <1>8, <1>9 DEF P
<1>11. PICK n \in Nat : n = Len(Since(times, size)) /\ DOMAIN Since(times, size) = 1..n
  BY <1>10
<1>12. Later(Since(times, size), limitNow - size) = 1..n
  BY <1>10, <1>11 DEF Later
<1>13. Cardinality(1..n) = n
  BY IndexSets
<1> QED
  BY <1>10, <1>11, <1>12, <1>13
LEMMA FewerIndexes ==
  ASSUME NEW n \in Nat, NEW X, NEW Y, X \subseteq Y, Y \subseteq 1..n
  PROVE  Cardinality(X) \in Nat /\ Cardinality(Y) \in Nat /\ Cardinality(X) <= Cardinality(Y)
<1>1. IsFiniteSet(Y)
  BY IndexSets
<1>2. IsFiniteSet(X) /\ Cardinality(X) <= Cardinality(Y)
  BY <1>1, FS_Subset
<1> QED
  BY <1>1, <1>2, FS_CardinalityType

-----------------------------------------------------------------------------
(* The limiter: a window holds a time for every request let through in it, *)
(* and a reputation one for every refusal not yet cleared.                 *)
(***************************************************************************)
LogRecord == [what : {"granted", "refused", "blocked", "lifted", "cleared"},
              on : Endpoint \cup {"none"}, at : Nat]

GrantedAfter(log, e, t) ==
  {i \in DOMAIN log : log[i].what = "granted" /\ log[i].on = e /\ log[i].at > t}
RefusedAfter(log, t) ==
  {k \in DOMAIN log : /\ log[k].what = "refused" /\ log[k].at > t
                      /\ \A m \in k..Len(log) : log[m].what # "cleared"}

SlotFits(log, times, e, w, now) ==
  /\ \A t \in Int : t >= now - Size(w) =>
       Cardinality(GrantedAfter(log, e, t)) <= Cardinality(Later(times, t))
  /\ Cardinality(GrantedAfter(log, e, now - Size(w))) <= Most(w)
  /\ \A end \in 1..now : Cardinality(Granted(log, e, w, end)) <= Most(w)

\* A refusal that reached the threshold, and that nobody lifted since.
Stands(log, i) ==
  /\ log[i].what = "refused" /\ Cardinality(Refusals(log, i)) >= BlockThreshold
  /\ \A k \in i..Len(log) : log[k].what \notin {"lifted", "cleared"}
HeldAt(log, j) ==
  \A i \in 1..(j - 1) :
    (/\ log[i].what = "refused" /\ Cardinality(Refusals(log, i)) >= BlockThreshold
     /\ log[j].at < log[i].at + BlockDuration
     /\ \A k \in i..j : log[k].what \notin {"lifted", "cleared"})
      => log[j].what = "blocked"

ViolationsFit(log, violations, now) ==
  \A t \in Int : t >= now - ViolationWindow =>
    Cardinality(RefusedAfter(log, t)) <= Cardinality(Later(violations, t))
BlockFits(log, until) ==
  /\ \A i \in DOMAIN log : Stands(log, i) => until >= log[i].at + BlockDuration
  /\ \A j \in DOMAIN log : HeldAt(log, j)

LEMMA Sizes ==
  ASSUME NEW w
  PROVE  Size(w) \in Nat /\ Most(w) \in Nat /\ ViolationWindow \in Nat /\ BlockDuration \in Nat /\ BlockThreshold \in Nat
  BY RateLimitAssumption DEF Size, Most

LEMMA Appended ==
  ASSUME NEW log \in Seq(LogRecord), NEW r \in LogRecord
  PROVE  /\ Len(log) \in Nat /\ DOMAIN log = 1..Len(log)
         /\ Append(log, r) \in Seq(LogRecord) /\ Len(Append(log, r)) = Len(log) + 1
         /\ DOMAIN Append(log, r) = 1..(Len(log) + 1)
         /\ Append(log, r)[Len(log) + 1] = r
         /\ \A k \in 1..Len(log) : Append(log, r)[k] = log[k] /\ log[k] \in LogRecord
  OBVIOUS

\* A request that was let through counts after every earlier moment; nothing else does.
LEMMA GrantedOneMore ==
  ASSUME NEW log \in Seq(LogRecord), NEW r \in LogRecord, NEW e, NEW t \in Int
  PROVE  Cardinality(GrantedAfter(Append(log, r), e, t)) =
           IF r.what = "granted" /\ r.on = e /\ r.at > t
           THEN Cardinality(GrantedAfter(log, e, t)) + 1 ELSE Cardinality(GrantedAfter(log, e, t))
<1>1. GrantedAfter(log, e, t) \subseteq 1..Len(log) /\ Len(log) \in Nat
  BY Appended DEF GrantedAfter
<1>2. CASE r.what = "granted" /\ r.on = e /\ r.at > t
  <2>1. GrantedAfter(Append(log, r), e, t) = GrantedAfter(log, e, t) \cup {Len(log) + 1}
    BY <1>2, Appended DEF GrantedAfter
  <2> QED
    BY <1>1, <1>2, <2>1, OneMoreIndex
<1>3. CASE ~(r.what = "granted" /\ r.on = e /\ r.at > t)
  <2>1. GrantedAfter(Append(log, r), e, t) = GrantedAfter(log, e, t)
    BY <1>3, Appended DEF GrantedAfter
  <2> QED
    BY <1>3, <2>1
<1> QED
  BY <1>2, <1>3

\* A refusal counts after every earlier moment; clearing the reputation ends all.
LEMMA RefusedOneMore ==
  ASSUME NEW log \in Seq(LogRecord), NEW r \in LogRecord, NEW t \in Int
  PROVE  Cardinality(RefusedAfter(Append(log, r), t)) =
           IF r.what = "cleared" THEN 0
           ELSE IF r.what = "refused" /\ r.at > t
           THEN Cardinality(RefusedAfter(log, t)) + 1 ELSE Cardinality(RefusedAfter(log, t))
<1>1. RefusedAfter(log, t) \subseteq 1..Len(log) /\ Len(log) \in Nat
  BY Appended DEF RefusedAfter
<1>0. \A k \in 1..Len(log) : Len(log) + 1 \in k..(Len(log) + 1) /\ k..(Len(log) + 1) = k..Len(log) \cup {Len(log) + 1}
  BY <1>1
<1>5. \A k \in 1..Len(log) : (\A m \in k..(Len(log) + 1) : Append(log, r)[m].what # "cleared")
        <=> (\A m \in k..Len(log) : log[m].what # "cleared") /\ r.what # "cleared"
  <2> SUFFICES ASSUME NEW k \in 1..Len(log)
               PROVE  (\A m \in k..(Len(log) + 1) : Append(log, r)[m].what # "cleared")
                        <=> (\A m \in k..Len(log) : log[m].what # "cleared") /\ r.what # "cleared"
    OBVIOUS
  <2>1. \A m \in k..Len(log) : m \in 1..Len(log)
    BY <1>1
  <2> QED
    BY <1>0, <2>1, Appended
<1>2. CASE r.what = "cleared"
  <2>1. RefusedAfter(Append(log, r), t) = {}
    BY <1>2, <1>5, Appended DEF RefusedAfter
  <2> QED
    BY <1>2, <2>1, FS_EmptySet
<1>3. CASE r.what = "refused" /\ r.at > t
  <2>1. RefusedAfter(Append(log, r), t) = RefusedAfter(log, t) \cup {Len(log) + 1}
    <3>1. \A m \in (Len(log) + 1)..(Len(log) + 1) : Append(log, r)[m] = r
      BY <1>1, Appended
    <3> QED
      BY <1>3, <1>5, <3>1, Appended DEF RefusedAfter
  <2> QED
    BY <1>1, <1>3, <2>1, OneMoreIndex
<1>4. CASE r.what # "cleared" /\ ~(r.what = "refused" /\ r.at > t)
  <2>1. RefusedAfter(Append(log, r), t) = RefusedAfter(log, t)
    BY <1>4, <1>5, Appended, SMTT(20) DEF RefusedAfter
  <2> QED
    BY <1>4, <2>1
<1> QED
  BY <1>2, <1>3, <1>4

LEMMA CountsAreNat ==
  ASSUME NEW log \in Seq(LogRecord), NEW e, NEW t \in Int
  PROVE  Cardinality(GrantedAfter(log, e, t)) \in Nat /\ Cardinality(RefusedAfter(log, t)) \in Nat
<1>1. Len(log) \in Nat /\ GrantedAfter(log, e, t) \subseteq 1..Len(log) /\ RefusedAfter(log, t) \subseteq 1..Len(log)
  BY DEF GrantedAfter, RefusedAfter
<1> QED
  BY <1>1, IndexSets

\* A request let through where there is room fits the window.
LEMMA GrantFits ==
  ASSUME limitNow \in Nat, NEW log \in Seq(LogRecord), NEW times \in Seq(Nat), NEW e, NEW w,
         NEW r \in LogRecord, r.what = "granted", r.on = e, r.at = limitNow,
         SlotFits(log, times, e, w, limitNow), Len(Since(times, Size(w))) < Most(w)
  PROVE  SlotFits(Append(log, r), Append(Since(times, Size(w)), limitNow), e, w, limitNow)
<1> DEFINE kept == Since(times, Size(w))
<1>1. Size(w) \in Nat /\ Most(w) \in Nat
  BY Sizes
<1>2. /\ kept \in Seq(Nat) /\ Len(kept) = Cardinality(Later(times, limitNow - Size(w)))
      /\ \A t \in Int : t >= limitNow - Size(w) => Cardinality(Later(kept, t)) = Cardinality(Later(times, t))
  <2>1. Size(w) \in Int
    BY <1>1
  <2> QED
    BY <2>1, SinceCounts, Zenon
<1> HIDE DEF kept
<1>3. \A t \in Int : t >= limitNow - Size(w) => Cardinality(GrantedAfter(log, e, t)) <= Cardinality(Later(times, t))
  BY DEF SlotFits
<1>4. ASSUME NEW t \in Int, t >= limitNow - Size(w)
      PROVE  Cardinality(GrantedAfter(Append(log, r), e, t)) <= Cardinality(Later(Append(kept, limitNow), t))
  <2>1. Cardinality(GrantedAfter(Append(log, r), e, t)) =
          IF limitNow > t THEN Cardinality(GrantedAfter(log, e, t)) + 1 ELSE Cardinality(GrantedAfter(log, e, t))
    BY GrantedOneMore
  <2>2. Cardinality(Later(Append(kept, limitNow), t)) =
          IF limitNow > t THEN Cardinality(Later(kept, t)) + 1 ELSE Cardinality(Later(kept, t))
    BY <1>2, LaterOneMore
  <2>3. Cardinality(Later(kept, t)) \in Nat /\ Cardinality(GrantedAfter(log, e, t)) \in Nat
    BY <1>2, LaterCounts, CountsAreNat
  <2>4. Cardinality(GrantedAfter(log, e, t)) <= Cardinality(Later(kept, t))
    BY <1>2, <1>3, <1>4
  <2> QED
    BY <2>1, <2>2, <2>3, <2>4
<1>5. Cardinality(GrantedAfter(Append(log, r), e, limitNow - Size(w))) <= Most(w)
  <2> DEFINE t == limitNow - Size(w)
  <2>1. t \in Int /\ t >= limitNow - Size(w)
    BY <1>1
  <2> HIDE DEF t
  <2>2. /\ Cardinality(GrantedAfter(Append(log, r), e, t)) \in {Cardinality(GrantedAfter(log, e, t)) + 1, Cardinality(GrantedAfter(log, e, t))}
        /\ Cardinality(GrantedAfter(log, e, t)) \in Nat
    BY <2>1, GrantedOneMore, CountsAreNat
  <2>3. Cardinality(GrantedAfter(log, e, t)) <= Cardinality(Later(times, t))
    BY <1>3, <2>1
  <2>4. Cardinality(Later(times, t)) = Len(kept) /\ Len(kept) < Most(w) /\ Len(kept) \in Nat
    BY <1>2 DEF t, kept
  <2>5. Cardinality(GrantedAfter(Append(log, r), e, t)) <= Most(w)
    BY <1>1, <2>2, <2>3, <2>4
  <2> QED
    BY <2>5 DEF t
<1>6. ASSUME NEW end \in 1..limitNow
      PROVE  Cardinality(Granted(Append(log, r), e, w, end)) <= Most(w)
  <2>1. CASE end = limitNow
    <3>1. Granted(Append(log, r), e, w, end) \subseteq GrantedAfter(Append(log, r), e, limitNow - Size(w))
      <4>1. ASSUME NEW i \in DOMAIN Append(log, r) PROVE Append(log, r)[i].at \in Nat
        <5>1. Append(log, r)[i] \in LogRecord
          BY Appended
        <5> QED
          BY <5>1 DEF LogRecord
      <4> QED
        BY <1>1, <2>1, <4>1 DEF Granted, GrantedAfter
    <3>2. GrantedAfter(Append(log, r), e, limitNow - Size(w)) \subseteq 1..(Len(log) + 1) /\ Len(log) + 1 \in Nat
      BY Appended DEF GrantedAfter
    <3>3. /\ Cardinality(Granted(Append(log, r), e, w, end)) \in Nat
          /\ Cardinality(GrantedAfter(Append(log, r), e, limitNow - Size(w))) \in Nat
          /\ Cardinality(Granted(Append(log, r), e, w, end))
               <= Cardinality(GrantedAfter(Append(log, r), e, limitNow - Size(w)))
      BY <3>1, <3>2, FewerIndexes
    <3> QED
      BY <1>1, <1>5, <3>3
  <2>2. CASE end # limitNow
    <3>1. Granted(Append(log, r), e, w, end) = Granted(log, e, w, end)
      BY <2>2, Appended DEF Granted
    <3> QED
      BY <3>1 DEF SlotFits
  <2> QED
    BY <2>1, <2>2
<1> QED
  BY <1>4, <1>5, <1>6 DEF SlotFits, kept

\* What is not let through fits too, whether or not it takes a place.
LEMMA OtherFits ==
  ASSUME limitNow \in Nat, NEW log \in Seq(LogRecord), NEW times \in Seq(Nat), NEW e, NEW w,
         NEW r \in LogRecord, ~(r.what = "granted" /\ r.on = e),
         SlotFits(log, times, e, w, limitNow),
         NEW new \in {times, Append(Since(times, Size(w)), limitNow)}
  PROVE  SlotFits(Append(log, r), new, e, w, limitNow)
<1>1. Size(w) \in Nat /\ Most(w) \in Nat
  BY Sizes
<1>2. \A t \in Int : t >= limitNow - Size(w) => Cardinality(GrantedAfter(log, e, t)) <= Cardinality(Later(times, t))
  BY DEF SlotFits
<1>3. \A t \in Int : Cardinality(GrantedAfter(Append(log, r), e, t)) = Cardinality(GrantedAfter(log, e, t))
  BY GrantedOneMore
<1>4. ASSUME NEW t \in Int, t >= limitNow - Size(w)
      PROVE  Cardinality(GrantedAfter(Append(log, r), e, t)) <= Cardinality(Later(new, t))
  <2>1. CASE new = times
    BY <1>2, <1>3, <1>4, <2>1
  <2>2. CASE new = Append(Since(times, Size(w)), limitNow)
    <3>1. Since(times, Size(w)) \in Seq(Nat) /\ Cardinality(Later(Since(times, Size(w)), t)) = Cardinality(Later(times, t))
      BY <1>1, <1>4, SinceCounts
    <3>2. Cardinality(Later(new, t)) = IF limitNow > t THEN Cardinality(Later(Since(times, Size(w)), t)) + 1
                                       ELSE Cardinality(Later(Since(times, Size(w)), t))
      BY <2>2, <3>1, LaterOneMore
    <3>3. Cardinality(Later(times, t)) \in Nat /\ Cardinality(GrantedAfter(log, e, t)) \in Nat
      BY LaterCounts, CountsAreNat
    <3> QED
      BY <1>2, <1>3, <1>4, <3>1, <3>2, <3>3
  <2> QED
    BY <2>1, <2>2
<1>5. \A end : Granted(Append(log, r), e, w, end) = Granted(log, e, w, end)
  BY Appended DEF Granted
<1>6. Cardinality(GrantedAfter(Append(log, r), e, limitNow - Size(w))) <= Most(w)
  <2>1. limitNow - Size(w) \in Int
    BY <1>1
  <2> QED
    BY <1>3, <2>1 DEF SlotFits
<1> QED
  BY <1>4, <1>5, <1>6 DEF SlotFits

\* Time passing only empties the windows.
LEMMA TickFits ==
  ASSUME limitNow \in Nat, NEW log \in Seq(LogRecord), NEW times \in Seq(Nat), NEW e, NEW w,
         SlotFits(log, times, e, w, limitNow)
  PROVE  SlotFits(log, times, e, w, limitNow + 1)
<1>1. Size(w) \in Nat /\ Most(w) \in Nat
  BY Sizes
<1>2. Len(log) \in Nat /\ DOMAIN log = 1..Len(log) /\ \A i \in DOMAIN log : log[i].at \in Nat
  <2>1. \A i \in DOMAIN log : log[i] \in LogRecord
    OBVIOUS
  <2> QED
    BY <2>1 DEF LogRecord
<1>3. GrantedAfter(log, e, limitNow - Size(w)) \subseteq 1..Len(log)
  BY <1>2 DEF GrantedAfter
<1>4. ASSUME NEW X, X \subseteq GrantedAfter(log, e, limitNow - Size(w))
      PROVE  Cardinality(X) <= Most(w)
  <2>1. /\ Cardinality(X) \in Nat /\ Cardinality(GrantedAfter(log, e, limitNow - Size(w))) \in Nat
        /\ Cardinality(X) <= Cardinality(GrantedAfter(log, e, limitNow - Size(w)))
    BY <1>2, <1>3, <1>4, FewerIndexes
  <2> QED
    BY <1>1, <2>1 DEF SlotFits
<1>5. GrantedAfter(log, e, (limitNow + 1) - Size(w)) \subseteq GrantedAfter(log, e, limitNow - Size(w))
  BY <1>1, <1>2 DEF GrantedAfter
<1>6. Granted(log, e, w, limitNow + 1) \subseteq GrantedAfter(log, e, limitNow - Size(w))
  BY <1>1, <1>2 DEF Granted, GrantedAfter
<1>7. \A end \in 1..(limitNow + 1) : end \in 1..limitNow \/ end = limitNow + 1
  OBVIOUS
<1>8. \A t \in Int : t >= (limitNow + 1) - Size(w) => t >= limitNow - Size(w)
  BY <1>1
<1>9. \A t \in Int : t >= (limitNow + 1) - Size(w) =>
        Cardinality(GrantedAfter(log, e, t)) <= Cardinality(Later(times, t))
  BY <1>8 DEF SlotFits
<1>10. Cardinality(GrantedAfter(log, e, (limitNow + 1) - Size(w))) <= Most(w)
  BY <1>4, <1>5
<1>11. \A end \in 1..(limitNow + 1) : Cardinality(Granted(log, e, w, end)) <= Most(w)
  BY <1>4, <1>6, <1>7 DEF SlotFits
<1> QED
  BY <1>9, <1>10, <1>11 DEF SlotFits

\* A refusal leaves its time in the reputation.
LEMMA RefusalCounts ==
  ASSUME limitNow \in Nat, NEW log \in Seq(LogRecord), NEW times \in Seq(Nat),
         NEW r \in LogRecord, r.what = "refused", r.at = limitNow, ViolationsFit(log, times, limitNow)
  PROVE  ViolationsFit(Append(log, r), Append(Since(times, ViolationWindow), limitNow), limitNow)
<1>1. ViolationWindow \in Int
  BY Sizes
<1>2. /\ Since(times, ViolationWindow) \in Seq(Nat)
      /\ \A t \in Int : t >= limitNow - ViolationWindow =>
           Cardinality(Later(Since(times, ViolationWindow), t)) = Cardinality(Later(times, t))
  BY <1>1, SinceCounts
<1> SUFFICES ASSUME NEW t \in Int, t >= limitNow - ViolationWindow
             PROVE  Cardinality(RefusedAfter(Append(log, r), t))
                      <= Cardinality(Later(Append(Since(times, ViolationWindow), limitNow), t))
  BY DEF ViolationsFit
<1>3. Cardinality(RefusedAfter(Append(log, r), t)) =
        IF limitNow > t THEN Cardinality(RefusedAfter(log, t)) + 1 ELSE Cardinality(RefusedAfter(log, t))
  BY RefusedOneMore
<1>4. Cardinality(Later(Append(Since(times, ViolationWindow), limitNow), t)) =
        IF limitNow > t THEN Cardinality(Later(times, t)) + 1 ELSE Cardinality(Later(times, t))
  BY <1>2, LaterOneMore
<1>5. Cardinality(Later(times, t)) \in Nat /\ Cardinality(RefusedAfter(log, t)) \in Nat
  BY LaterCounts, CountsAreNat
<1> QED
  BY <1>3, <1>4, <1>5 DEF ViolationsFit

LEMMA OthersDoNotCount ==
  ASSUME NEW log \in Seq(LogRecord), NEW times \in Seq(Nat), NEW new \in Seq(Nat), NEW now \in Nat,
         NEW r \in LogRecord, r.what # "refused", r.what = "cleared" \/ new = times, ViolationsFit(log, times, now)
  PROVE  ViolationsFit(Append(log, r), new, now)
<1> SUFFICES ASSUME NEW t \in Int, t >= now - ViolationWindow
             PROVE  Cardinality(RefusedAfter(Append(log, r), t)) <= Cardinality(Later(new, t))
  BY DEF ViolationsFit
<1>1. Cardinality(RefusedAfter(Append(log, r), t)) = IF r.what = "cleared" THEN 0 ELSE Cardinality(RefusedAfter(log, t))
  BY RefusedOneMore
<1>2. Cardinality(Later(new, t)) \in Nat
  BY LaterCounts
<1> QED
  BY <1>1, <1>2 DEF ViolationsFit

\* The refusals counted at the newest one are in the reputation.
LEMMA NewestIsCounted ==
  ASSUME NEW log \in Seq(LogRecord), NEW new \in Seq(Nat), NEW now \in Nat,
         NEW r \in LogRecord, r.at = now, ViolationsFit(Append(log, r), new, now)
  PROVE  /\ Cardinality(Refusals(Append(log, r), Len(log) + 1)) \in Nat
         /\ Cardinality(Refusals(Append(log, r), Len(log) + 1)) <= Len(new)
<1>1. PICK l \in Seq(LogRecord) : l = Append(log, r) /\ Len(l) = Len(log) + 1 /\ l[Len(l)] = r
  <2>1. Append(log, r) \in Seq(LogRecord) /\ Len(Append(log, r)) = Len(log) + 1
    BY Appended
  <2>2. Append(log, r)[Len(Append(log, r))] = r
    BY <2>1, Appended
  <2> QED
    BY <2>1, <2>2
<1>2. Len(l) \in Nat /\ DOMAIN l = 1..Len(l) /\ \A k \in 1..Len(l) : l[k].at \in Nat
  <2>1. \A k \in 1..Len(l) : l[k] \in LogRecord
    OBVIOUS
  <2> QED
    BY <2>1 DEF LogRecord
<1>3. ViolationWindow \in Nat /\ now - ViolationWindow \in Int
  BY Sizes
<1>4. Refusals(l, Len(l)) = RefusedAfter(l, now - ViolationWindow)
  <2>1. \A k \in 1..Len(l) : l[Len(l)].at - l[k].at < ViolationWindow <=> l[k].at > now - ViolationWindow
    BY <1>1, <1>2, <1>3
  <2> QED
    BY <1>2, <2>1, Zenon DEF Refusals, RefusedAfter
<1>5. Cardinality(RefusedAfter(l, now - ViolationWindow)) \in Nat
  BY <1>3, CountsAreNat
<1>6. Cardinality(RefusedAfter(l, now - ViolationWindow)) <= Cardinality(Later(new, now - ViolationWindow))
  BY <1>1, <1>3 DEF ViolationsFit
<1>7. Later(new, now - ViolationWindow) \subseteq 1..Len(new) /\ Len(new) \in Nat
  BY DEF Later
<1>8. Cardinality(Later(new, now - ViolationWindow)) \in Nat /\ Cardinality(Later(new, now - ViolationWindow)) <= Len(new)
  BY <1>7, IndexSets
<1> QED
  BY <1>1, <1>4, <1>5, <1>6, <1>7, <1>8

\* What the log said of a request it still says when one more is logged.
LEMMA LogKeeps ==
  ASSUME NEW log \in Seq(LogRecord), NEW r \in LogRecord
  PROVE  /\ \A i \in 1..Len(log) : Refusals(Append(log, r), i) = Refusals(log, i)
         /\ \A j \in 1..Len(log) : HeldAt(log, j) => HeldAt(Append(log, r), j)
         /\ \A i \in 1..Len(log) : Stands(Append(log, r), i) =>
              Stands(log, i) /\ r.what \notin {"lifted", "cleared"}
<1>1. ASSUME NEW i \in 1..Len(log)
      PROVE  Refusals(Append(log, r), i) = Refusals(log, i)
  <2>1. i \in 1..(Len(log) + 1) /\ \A k \in 1..i : k \in 1..Len(log) /\ \A m \in k..i : m \in 1..Len(log)
    BY Appended
  <2> QED
    BY <2>1, Appended DEF Refusals
<1>2. ASSUME NEW j \in 1..Len(log), HeldAt(log, j)
      PROVE  HeldAt(Append(log, r), j)
  <2>1. \A i \in 1..(j - 1) : i \in 1..Len(log) /\ \A k \in i..j : k \in 1..Len(log)
    BY Appended
  <2> QED
    BY <1>1, <1>2, <2>1, Appended DEF HeldAt
<1>3. ASSUME NEW i \in 1..Len(log), Stands(Append(log, r), i)
      PROVE  Stands(log, i) /\ r.what \notin {"lifted", "cleared"}
  <2>1. Len(log) + 1 \in i..(Len(log) + 1) /\ \A k \in i..Len(log) : k \in i..(Len(log) + 1) /\ k \in 1..Len(log)
    BY Appended
  <2> QED
    BY <1>1, <1>3, <2>1, Appended DEF Stands
<1> QED
  BY <1>1, <1>2, <1>3

\* A caller stays shut out until the block ends or is lifted.
LEMMA BlockGoesOn ==
  ASSUME limitNow \in Nat, NEW log \in Seq(LogRecord), NEW until \in Nat, NEW new \in Nat,
         NEW r \in LogRecord, r.at = limitNow, BlockFits(log, until),
         until > limitNow => r.what \in {"blocked", "lifted", "cleared"},
         r.what \in {"lifted", "cleared"} \/ new >= until,
         r.what = "refused" /\ Cardinality(Refusals(Append(log, r), Len(log) + 1)) >= BlockThreshold
           => new >= limitNow + BlockDuration
  PROVE  BlockFits(Append(log, r), new)
<1>0. BlockDuration \in Nat /\ \A i \in 1..Len(log) : log[i].at \in Nat
  <2>1. \A i \in 1..Len(log) : log[i] \in LogRecord
    BY Appended
  <2> QED
    BY <2>1, Sizes DEF LogRecord
<1>1. ASSUME NEW i \in DOMAIN Append(log, r), Stands(Append(log, r), i)
      PROVE  new >= Append(log, r)[i].at + BlockDuration
  <2>1. CASE i \in 1..Len(log)
    <3>1. Stands(log, i) /\ r.what \notin {"lifted", "cleared"}
      BY <1>1, <2>1, LogKeeps
    <3>2. until >= log[i].at + BlockDuration /\ new >= until
      BY <2>1, <3>1, Appended DEF BlockFits
    <3> QED
      BY <1>0, <2>1, <3>2, Appended
  <2>2. CASE i = Len(log) + 1
    <3>1. Append(log, r)[i] = r
      BY <2>2, Appended
    <3> QED
      BY <1>1, <2>2, <3>1 DEF Stands
  <2> QED
    BY <2>1, <2>2, Appended
<1>2. ASSUME NEW j \in DOMAIN Append(log, r)
      PROVE  HeldAt(Append(log, r), j)
  <2>1. CASE j \in 1..Len(log)
    BY <2>1, LogKeeps, Appended DEF BlockFits
  <2>2. CASE j = Len(log) + 1
    <3> SUFFICES ASSUME NEW i \in 1..(j - 1),
                        Append(log, r)[i].what = "refused",
                        Cardinality(Refusals(Append(log, r), i)) >= BlockThreshold,
                        Append(log, r)[j].at < Append(log, r)[i].at + BlockDuration,
                        \A k \in i..j : Append(log, r)[k].what \notin {"lifted", "cleared"}
                 PROVE  Append(log, r)[j].what = "blocked"
      BY DEF HeldAt
    <3>1. /\ i \in 1..Len(log) /\ j \in i..j /\ Append(log, r)[j] = r /\ Append(log, r)[i] = log[i]
          /\ \A k \in i..Len(log) : k \in i..j /\ Append(log, r)[k] = log[k]
      BY <2>2, Appended
    <3>2. Stands(log, i)
      BY <3>1, LogKeeps DEF Stands
    <3>3. until >= log[i].at + BlockDuration
      BY <3>1, <3>2, Appended DEF BlockFits
    <3>4. limitNow < log[i].at + BlockDuration
      BY <3>1
    <3>5. until > limitNow
      BY <1>0, <3>1, <3>3, <3>4
    <3> QED
      BY <3>1, <3>5
  <2> QED
    BY <2>1, <2>2, Appended
<1> QED
  BY <1>1, <1>2 DEF BlockFits

RepRecord == [violations : Seq(Nat), blockedUntil : Nat]
LimitTyped ==
  /\ limitNow \in Nat
  /\ slots \in [Slot -> Seq(Nat)]
  /\ reputation \in [Caller -> RepRecord]
  /\ limitLog \in [Caller -> Seq(LogRecord)]

WindowsFit ==
  \A id \in Caller, e \in Endpoint, w \in {"short", "burst"} :
    SlotFits(limitLog[id], slots[<<e, w, id>>], e, w, limitNow)
BlocksFit ==
  \A id \in Caller : /\ ViolationsFit(limitLog[id], reputation[id].violations, limitNow)
                     /\ BlockFits(limitLog[id], reputation[id].blockedUntil)

LimitInv == LimitTyped /\ WindowsFit /\ BlocksFit

\* Initially nothing is counted.
LEMMA LimitStart == LimitInit => LimitInv
<1> SUFFICES ASSUME LimitInit PROVE LimitInv
  OBVIOUS
<1>1. LimitTyped
  <2>1. NoReputation \in RepRecord
    BY DEF NoReputation, RepRecord
  <2>2. <<>> \in Seq(Nat) /\ <<>> \in Seq(LogRecord)
    OBVIOUS
  <2> QED
    BY <2>1, <2>2 DEF LimitInit, LimitTyped
<1>2. /\ \A e, t : GrantedAfter(<<>>, e, t) = {}
      /\ \A t : RefusedAfter(<<>>, t) = {} /\ Later(<<>>, t) = {}
      /\ \A e, w, end : Granted(<<>>, e, w, end) = {}
  BY DEF GrantedAfter, RefusedAfter, Later, Granted
<1>3. WindowsFit
  <2> SUFFICES ASSUME NEW id \in Caller, NEW e \in Endpoint, NEW w \in {"short", "burst"}
               PROVE  SlotFits(<<>>, <<>>, e, w, limitNow)
    <3>1. \A i \in Caller, e \in Endpoint, w \in {"short", "burst"} : <<e, w, i>> \in Slot
      BY DEF Slot
    <3> QED
      BY <3>1 DEF LimitInit, WindowsFit
  <2>1. Most(w) \in Nat /\ Cardinality({}) = 0
    BY Sizes, FS_EmptySet
  <2>2. Cardinality({}) <= Most(w) /\ Cardinality({}) <= Cardinality({})
    BY <2>1
  <2> QED
    BY <1>2, <2>2, Zenon DEF SlotFits
<1>4. BlocksFit
  <2>1. \A i : i \notin DOMAIN <<>>
    OBVIOUS
  <2>2. Cardinality({}) <= Cardinality({})
    BY FS_EmptySet
  <2>3. ViolationsFit(<<>>, <<>>, limitNow)
    BY <1>2, <2>2, Zenon DEF ViolationsFit
  <2>4. BlockFits(<<>>, 0)
    BY <2>1 DEF BlockFits
  <2> QED
    BY <2>3, <2>4 DEF BlocksFit, LimitInit, NoReputation
<1> QED
  BY <1>1, <1>3, <1>4 DEF LimitInv

\* One caller's step, seen from its log, its windows and its reputation.
LEMMA OneCaller ==
  ASSUME LimitInv, NEW id \in Caller, NEW r \in LogRecord,
         limitNow' = limitNow, limitLog' = [limitLog EXCEPT ![id] = Append(limitLog[id], r)],
         slots' \in [Slot -> Seq(Nat)], \A s \in Slot : s[3] # id => slots'[s] = slots[s],
         \A e \in Endpoint, w \in {"short", "burst"} :
           SlotFits(Append(limitLog[id], r), slots'[<<e, w, id>>], e, w, limitNow),
         NEW rep \in RepRecord, reputation' = [reputation EXCEPT ![id] = rep],
         ViolationsFit(Append(limitLog[id], r), rep.violations, limitNow),
         BlockFits(Append(limitLog[id], r), rep.blockedUntil)
  PROVE  LimitInv'
<1>1. Append(limitLog[id], r) \in Seq(LogRecord)
  BY Appended DEF LimitInv, LimitTyped
<1>2. LimitTyped'
  BY <1>1 DEF LimitInv, LimitTyped
<1>3. \A i \in Caller : /\ limitLog'[i] = IF i = id THEN Append(limitLog[id], r) ELSE limitLog[i]
                        /\ reputation'[i] = IF i = id THEN rep ELSE reputation[i]
  BY DEF LimitInv, LimitTyped
<1>4. WindowsFit'
  <2> SUFFICES ASSUME NEW i \in Caller, NEW e \in Endpoint, NEW w \in {"short", "burst"}
               PROVE  SlotFits(limitLog'[i], slots'[<<e, w, i>>], e, w, limitNow')
    BY DEF WindowsFit
  <2>1. CASE i = id
    BY <1>3, <2>1
  <2>2. CASE i # id
    <3>1. <<e, w, i>> \in Slot /\ <<e, w, i>>[3] = i
      BY DEF Slot
    <3>2. slots'[<<e, w, i>>] = slots[<<e, w, i>>] /\ limitLog'[i] = limitLog[i]
      BY <1>3, <2>2, <3>1
    <3> QED
      BY <3>2 DEF LimitInv, WindowsFit
  <2> QED
    BY <2>1, <2>2
<1>5. BlocksFit'
  BY <1>3 DEF LimitInv, BlocksFit
<1> QED
  BY <1>2, <1>4, <1>5 DEF LimitInv

\* A place taken in a window.
LEMMA PlaceTaken ==
  ASSUME limitNow \in Nat, NEW S \in [Slot -> Seq(Nat)], NEW id \in Caller, NEW e \in Endpoint, NEW w \in {"short", "burst"}
  PROVE  /\ Take(S, <<e, w, id>>) \in [Slot -> Seq(Nat)]
         /\ \A s \in Slot : Take(S, <<e, w, id>>)[s] =
              IF s = <<e, w, id>> THEN Append(Since(S[<<e, w, id>>], Size(w)), limitNow) ELSE S[s]
<1>1. <<e, w, id>> \in Slot /\ <<e, w, id>>[2] = w
  BY DEF Slot
<1>2. S[<<e, w, id>>] \in Seq(Nat) /\ Size(w) \in Int
  BY <1>1, Sizes
<1>3. Since(S[<<e, w, id>>], Size(w)) \in Seq(Nat)
  BY <1>2, SinceCounts
<1>4. Append(Since(S[<<e, w, id>>], Size(w)), limitNow) \in Seq(Nat)
  BY <1>3
<1> QED
  BY <1>1, <1>4 DEF Take

LEMMA RefusalHolds ==
  ASSUME LimitInv, NEW id \in Caller, ~IsBlocked(id), RecordViolation(id),
         NEW r \in LogRecord, r.what = "refused", r.at = limitNow
  PROVE  \E rep \in RepRecord :
           /\ reputation' = [reputation EXCEPT ![id] = rep]
           /\ ViolationsFit(Append(limitLog[id], r), rep.violations, limitNow)
           /\ BlockFits(Append(limitLog[id], r), rep.blockedUntil)
<1>1. PICK log \in Seq(LogRecord) : log = limitLog[id]
  BY DEF LimitInv, LimitTyped
<1>2. PICK old \in RepRecord : old = reputation[id]
  BY DEF LimitInv, LimitTyped
<1>3. limitNow \in Nat /\ old.violations \in Seq(Nat) /\ old.blockedUntil \in Nat /\ old.blockedUntil <= limitNow
  BY <1>2 DEF LimitInv, LimitTyped, RepRecord, IsBlocked
<1>4. ViolationsFit(log, old.violations, limitNow) /\ BlockFits(log, old.blockedUntil)
  BY <1>1, <1>2 DEF LimitInv, BlocksFit
<1>5. PICK new : new = Append(Since(old.violations, ViolationWindow), limitNow) /\ new = Violations(id)
  BY <1>2 DEF Violations
<1>6. new \in Seq(Nat) /\ Len(new) \in Nat
  <2>1. ViolationWindow \in Int
    BY Sizes
  <2>2. Since(old.violations, ViolationWindow) \in Seq(Nat)
    BY <1>3, <2>1, SinceCounts
  <2>3. PICK kept \in Seq(Nat) : kept = Since(old.violations, ViolationWindow)
    BY <2>2
  <2>4. new = Append(kept, limitNow)
    BY <1>5, <2>3
  <2> QED
    BY <1>3, <2>4
<1>7. ViolationsFit(Append(log, r), new, limitNow)
  BY <1>3, <1>4, <1>5, RefusalCounts
<1>8. BlockThreshold \in Nat /\ BlockDuration \in Nat
  BY Sizes
<1>9. PICK until : until = IF Len(new) >= BlockThreshold THEN limitNow + BlockDuration ELSE old.blockedUntil
  OBVIOUS
<1>10. until \in Nat /\ until >= old.blockedUntil
  BY <1>3, <1>8, <1>9
<1>11. PICK rep : rep = [violations |-> new, blockedUntil |-> until]
  OBVIOUS
<1>12. rep \in RepRecord /\ rep.violations = new /\ rep.blockedUntil = until
  BY <1>6, <1>10, <1>11 DEF RepRecord
<1>13. reputation' = [reputation EXCEPT ![id] = rep]
  BY <1>2, <1>5, <1>9, <1>11 DEF RecordViolation
<1>14. /\ Cardinality(Refusals(Append(log, r), Len(log) + 1)) \in Nat
       /\ Cardinality(Refusals(Append(log, r), Len(log) + 1)) <= Len(new)
  BY <1>3, <1>6, <1>7, NewestIsCounted
<1>15. Cardinality(Refusals(Append(log, r), Len(log) + 1)) >= BlockThreshold => until >= limitNow + BlockDuration
  BY <1>3, <1>6, <1>8, <1>9, <1>14
<1>16. BlockFits(Append(log, r), until)
  BY <1>3, <1>4, <1>10, <1>15, BlockGoesOn
<1> QED
  BY <1>1, <1>7, <1>12, <1>13, <1>16

LEMMA OtherHolds ==
  ASSUME LimitInv, NEW id \in Caller, UNCHANGED reputation,
         NEW r \in LogRecord, r.what \in {"granted", "blocked"}, r.at = limitNow, IsBlocked(id) => r.what = "blocked"
  PROVE  \E rep \in RepRecord :
           /\ reputation' = [reputation EXCEPT ![id] = rep]
           /\ ViolationsFit(Append(limitLog[id], r), rep.violations, limitNow)
           /\ BlockFits(Append(limitLog[id], r), rep.blockedUntil)
<1>1. PICK log \in Seq(LogRecord) : log = limitLog[id]
  BY DEF LimitInv, LimitTyped
<1>2. PICK old \in RepRecord : old = reputation[id]
  BY DEF LimitInv, LimitTyped
<1>3. limitNow \in Nat /\ old.violations \in Seq(Nat) /\ old.blockedUntil \in Nat
  BY DEF LimitInv, LimitTyped, RepRecord
<1>4. ViolationsFit(log, old.violations, limitNow) /\ BlockFits(log, old.blockedUntil)
  BY <1>1, <1>2 DEF LimitInv, BlocksFit
<1>5. old.blockedUntil > limitNow => r.what = "blocked"
  BY <1>2 DEF IsBlocked
<1>6. ViolationsFit(Append(log, r), old.violations, limitNow)
  BY <1>3, <1>4, OthersDoNotCount
<1>7. BlockFits(Append(log, r), old.blockedUntil)
  BY <1>3, <1>4, <1>5, BlockGoesOn
<1>8. reputation' = [reputation EXCEPT ![id] = old]
  BY <1>2 DEF LimitInv, LimitTyped
<1> QED
  BY <1>1, <1>6, <1>7, <1>8

\* A request to the limiter keeps the invariant.
LEMMA RequestKeeps ==
  ASSUME LimitInv, NEW id \in Caller, NEW e \in Endpoint, ApplyRateLimit(id, e)
  PROVE  LimitInv'
<1> DEFINE log == limitLog[id]
           rec(x) == [what |-> x, on |-> e, at |-> limitNow]
           Fits(S, r) == \A f \in Endpoint, w \in {"short", "burst"} :
                           SlotFits(Append(log, r), S[<<f, w, id>>], f, w, limitNow)
<1>0. limitNow \in Nat /\ slots \in [Slot -> Seq(Nat)] /\ log \in Seq(LogRecord) /\ limitNow' = limitNow
  BY DEF LimitInv, LimitTyped, ApplyRateLimit
<1>1. \A x \in {"granted", "refused", "blocked"} : rec(x) \in LogRecord
  BY <1>0 DEF LogRecord
<1>2. \A f \in Endpoint, w \in {"short", "burst"} :
        <<f, w, id>> \in Slot /\ slots[<<f, w, id>>] \in Seq(Nat) /\ SlotFits(log, slots[<<f, w, id>>], f, w, limitNow)
  BY <1>0 DEF Slot, LimitInv, WindowsFit
<1>3. \A s, t \in Slot : s[3] # id /\ t[3] = id => s # t
  OBVIOUS
<1>4. \A x : rec(x).what = x /\ rec(x).on = e /\ rec(x).at = limitNow
  OBVIOUS
<1> HIDE DEF log, rec
<1>5. ASSUME NEW x \in {"refused", "blocked"}
      PROVE  Fits(slots, rec(x))
  <2> SUFFICES ASSUME NEW f \in Endpoint, NEW w \in {"short", "burst"}
               PROVE  SlotFits(Append(log, rec(x)), slots[<<f, w, id>>], f, w, limitNow)
    OBVIOUS
  <2>1. rec(x) \in LogRecord /\ ~(rec(x).what = "granted" /\ rec(x).on = f)
    BY <1>1, <1>4
  <2> QED
    BY <1>0, <1>2, <2>1, OtherFits
<1>6. ASSUME NEW r \in LogRecord, limitLog' = [limitLog EXCEPT ![id] = Append(log, r)],
             slots' \in [Slot -> Seq(Nat)], \A s \in Slot : s[3] # id => slots'[s] = slots[s], Fits(slots', r),
             \E rep \in RepRecord :
               /\ reputation' = [reputation EXCEPT ![id] = rep]
               /\ ViolationsFit(Append(log, r), rep.violations, limitNow)
               /\ BlockFits(Append(log, r), rep.blockedUntil)
      PROVE  LimitInv'
  BY <1>0, <1>6, OneCaller DEF log
<1>7. CASE IsBlocked(id)
  <2>1. UNCHANGED <<slots, reputation>> /\ limitLog' = [limitLog EXCEPT ![id] = Append(log, rec("blocked"))]
    BY <1>7 DEF ApplyRateLimit, Log, Grants, log, rec, LimitInv, LimitTyped
  <2>2. rec("blocked") \in LogRecord /\ rec("blocked").what = "blocked" /\ rec("blocked").at = limitNow
    BY <1>1, <1>4
  <2>3. \E rep \in RepRecord :
          /\ reputation' = [reputation EXCEPT ![id] = rep]
          /\ ViolationsFit(Append(log, rec("blocked")), rep.violations, limitNow)
          /\ BlockFits(Append(log, rec("blocked")), rep.blockedUntil)
    BY <2>1, <2>2, OtherHolds DEF log
  <2>4. Fits(slots', rec("blocked")) /\ slots' \in [Slot -> Seq(Nat)] /\ \A s \in Slot : slots'[s] = slots[s]
    BY <1>0, <1>5, <2>1
  <2> QED
    BY <1>6, <2>1, <2>2, <2>3, <2>4
<1>8. CASE ~IsBlocked(id) /\ ~Room(<<e, "short", id>>)
  <2>1. /\ UNCHANGED slots /\ RecordViolation(id)
        /\ limitLog' = [limitLog EXCEPT ![id] = Append(log, rec("refused"))]
    BY <1>8 DEF ApplyRateLimit, Log, Grants, log, rec, LimitInv, LimitTyped
  <2>2. rec("refused") \in LogRecord /\ rec("refused").what = "refused" /\ rec("refused").at = limitNow
    BY <1>1, <1>4
  <2>3. \E rep \in RepRecord :
          /\ reputation' = [reputation EXCEPT ![id] = rep]
          /\ ViolationsFit(Append(log, rec("refused")), rep.violations, limitNow)
          /\ BlockFits(Append(log, rec("refused")), rep.blockedUntil)
    BY <1>8, <2>1, <2>2, RefusalHolds DEF log
  <2>4. Fits(slots', rec("refused")) /\ slots' \in [Slot -> Seq(Nat)] /\ \A s \in Slot : slots'[s] = slots[s]
    BY <1>0, <1>5, <2>1
  <2> QED
    BY <1>6, <2>1, <2>2, <2>3, <2>4
<1>9. CASE ~IsBlocked(id) /\ Room(<<e, "short", id>>) /\ ~Room(<<e, "burst", id>>)
  <2>1. /\ slots' = Take(slots, <<e, "short", id>>) /\ RecordViolation(id)
        /\ limitLog' = [limitLog EXCEPT ![id] = Append(log, rec("refused"))]
    BY <1>9 DEF ApplyRateLimit, Log, Grants, log, rec, LimitInv, LimitTyped
  <2>2. rec("refused") \in LogRecord /\ rec("refused").what = "refused" /\ rec("refused").at = limitNow
    BY <1>1, <1>4
  <2>3. \E rep \in RepRecord :
          /\ reputation' = [reputation EXCEPT ![id] = rep]
          /\ ViolationsFit(Append(log, rec("refused")), rep.violations, limitNow)
          /\ BlockFits(Append(log, rec("refused")), rep.blockedUntil)
    BY <1>9, <2>1, <2>2, RefusalHolds DEF log
  <2>4. /\ slots' \in [Slot -> Seq(Nat)]
        /\ \A s \in Slot : slots'[s] = IF s = <<e, "short", id>> THEN Append(Since(slots[<<e, "short", id>>], Size("short")), limitNow) ELSE slots[s]
    BY <1>0, <2>1, PlaceTaken
  <2>5. \A s \in Slot : s[3] # id => slots'[s] = slots[s]
    BY <2>4
  <2>6. Fits(slots', rec("refused"))
    <3> SUFFICES ASSUME NEW f \in Endpoint, NEW w \in {"short", "burst"}
                 PROVE  SlotFits(Append(log, rec("refused")), slots'[<<f, w, id>>], f, w, limitNow)
      OBVIOUS
    <3>1. slots'[<<f, w, id>>] \in {slots[<<f, w, id>>], Append(Since(slots[<<f, w, id>>], Size(w)), limitNow)}
      <4>1. CASE <<f, w, id>> = <<e, "short", id>>
        <5>1. f = e /\ w = "short"
          BY <4>1
        <5> QED
          BY <1>2, <2>4, <5>1
      <4>2. CASE <<f, w, id>> # <<e, "short", id>>
        BY <1>2, <2>4, <4>2
      <4> QED
        BY <4>1, <4>2
    <3> QED
      BY <1>0, <1>2, <2>2, <3>1, OtherFits
  <2> QED
    BY <1>6, <2>1, <2>2, <2>3, <2>4, <2>5, <2>6
<1>10. CASE Grants(id, e)
  <2>1. /\ slots' = Take(Take(slots, <<e, "short", id>>), <<e, "burst", id>>) /\ UNCHANGED reputation
        /\ limitLog' = [limitLog EXCEPT ![id] = Append(log, rec("granted"))]
        /\ ~IsBlocked(id) /\ Room(<<e, "short", id>>) /\ Room(<<e, "burst", id>>)
    BY <1>10 DEF ApplyRateLimit, Log, Grants, log, rec, LimitInv, LimitTyped
  <2>2. rec("granted") \in LogRecord /\ rec("granted").what = "granted" /\ rec("granted").at = limitNow /\ rec("granted").on = e
    BY <1>1, <1>4
  <2>3. \E rep \in RepRecord :
          /\ reputation' = [reputation EXCEPT ![id] = rep]
          /\ ViolationsFit(Append(log, rec("granted")), rep.violations, limitNow)
          /\ BlockFits(Append(log, rec("granted")), rep.blockedUntil)
    BY <2>1, <2>2, OtherHolds DEF log
  <2>4. PICK T \in [Slot -> Seq(Nat)] :
          /\ T = Take(slots, <<e, "short", id>>)
          /\ \A s \in Slot : T[s] = IF s = <<e, "short", id>> THEN Append(Since(slots[<<e, "short", id>>], Size("short")), limitNow) ELSE slots[s]
    BY <1>0, PlaceTaken
  <2>5. /\ slots' \in [Slot -> Seq(Nat)]
        /\ \A s \in Slot : slots'[s] = IF s = <<e, "burst", id>> THEN Append(Since(T[<<e, "burst", id>>], Size("burst")), limitNow) ELSE T[s]
    BY <1>0, <2>1, <2>4, PlaceTaken
  <2>6. \A s \in Slot : s[3] # id => slots'[s] = slots[s]
    <3>1. \A s \in Slot : s[3] # id => s # <<e, "short", id>> /\ s # <<e, "burst", id>>
      OBVIOUS
    <3> QED
      BY <2>4, <2>5, <3>1
  <2>7. \A w \in {"short", "burst"} : slots'[<<e, w, id>>] = Append(Since(slots[<<e, w, id>>], Size(w)), limitNow)
    <3>1. <<e, "short", id>> # <<e, "burst", id>> /\ <<e, "short", id>> \in Slot /\ <<e, "burst", id>> \in Slot
      BY <1>2
    <3>2. T[<<e, "burst", id>>] = slots[<<e, "burst", id>>]
      BY <2>4, <3>1
    <3>3. slots'[<<e, "burst", id>>] = Append(Since(slots[<<e, "burst", id>>], Size("burst")), limitNow)
      BY <2>5, <3>1, <3>2
    <3>4. slots'[<<e, "short", id>>] = Append(Since(slots[<<e, "short", id>>], Size("short")), limitNow)
      BY <2>4, <2>5, <3>1
    <3> QED
      BY <3>3, <3>4
  <2>8. \A w \in {"short", "burst"} : Len(Since(slots[<<e, w, id>>], Size(w))) < Most(w)
    BY <2>1 DEF Room
  <2>9. Fits(slots', rec("granted"))
    <3> SUFFICES ASSUME NEW f \in Endpoint, NEW w \in {"short", "burst"}
                 PROVE  SlotFits(Append(log, rec("granted")), slots'[<<f, w, id>>], f, w, limitNow)
      OBVIOUS
    <3>1. CASE f = e
      <4>1. SlotFits(log, slots[<<e, w, id>>], e, w, limitNow) /\ slots[<<e, w, id>>] \in Seq(Nat)
        BY <1>2
      <4>2. Len(Since(slots[<<e, w, id>>], Size(w))) < Most(w)
        BY <2>8
      <4>3. SlotFits(Append(log, rec("granted")), Append(Since(slots[<<e, w, id>>], Size(w)), limitNow), e, w, limitNow)
        BY <1>0, <2>2, <4>1, <4>2, GrantFits
      <4> QED
        BY <2>7, <3>1, <4>3
    <3>2. CASE f # e
      <4>1. <<f, w, id>> # <<e, "short", id>> /\ <<f, w, id>> # <<e, "burst", id>> /\ <<f, w, id>> \in Slot
        BY <1>2, <3>2
      <4>2. slots'[<<f, w, id>>] = slots[<<f, w, id>>]
        BY <2>4, <2>5, <4>1
      <4> QED
        BY <1>0, <1>2, <2>2, <3>2, <4>2, OtherFits
    <3> QED
      BY <3>1, <3>2
  <2> QED
    BY <1>6, <2>1, <2>2, <2>3, <2>5, <2>6, <2>9
<1> QED
  BY <1>7, <1>8, <1>9, <1>10 DEF ApplyRateLimit

\* So do an administrator's and the clock's steps.
LEMMA UnblockKeeps ==
  ASSUME LimitInv, NEW id \in Caller, UnblockIp(id)
  PROVE  LimitInv'
<1>1. PICK log \in Seq(LogRecord) : log = limitLog[id]
  BY DEF LimitInv, LimitTyped
<1>2. PICK old \in RepRecord : old = reputation[id]
  BY DEF LimitInv, LimitTyped
<1>3. PICK r : r = [what |-> "lifted", on |-> "none", at |-> limitNow]
  OBVIOUS
<1>4. limitNow \in Nat /\ r \in LogRecord /\ r.what = "lifted" /\ r.at = limitNow
  BY <1>3 DEF LimitInv, LimitTyped, LogRecord
<1>5. PICK rep : rep = [old EXCEPT !.blockedUntil = 0]
  OBVIOUS
<1>6. rep \in RepRecord /\ rep.violations = old.violations /\ rep.blockedUntil = 0
      /\ old.violations \in Seq(Nat) /\ old.blockedUntil \in Nat
  BY <1>2, <1>5 DEF RepRecord
<1>7. /\ reputation' = [reputation EXCEPT ![id] = rep]
      /\ limitLog' = [limitLog EXCEPT ![id] = Append(log, r)]
      /\ UNCHANGED <<limitNow, slots>>
  BY <1>1, <1>2, <1>3, <1>5 DEF UnblockIp, Log, LimitInv, LimitTyped
<1>8. ViolationsFit(log, old.violations, limitNow) /\ BlockFits(log, old.blockedUntil)
  BY <1>1, <1>2 DEF LimitInv, BlocksFit
<1>9. ViolationsFit(Append(log, r), rep.violations, limitNow)
  BY <1>4, <1>6, <1>8, OthersDoNotCount
<1>10. BlockFits(Append(log, r), 0)
  BY <1>4, <1>6, <1>8, BlockGoesOn
<1>11. \A f \in Endpoint, w \in {"short", "burst"} :
         SlotFits(Append(limitLog[id], r), slots'[<<f, w, id>>], f, w, limitNow)
  <2> SUFFICES ASSUME NEW f \in Endpoint, NEW w \in {"short", "burst"}
               PROVE  SlotFits(Append(log, r), slots[<<f, w, id>>], f, w, limitNow)
    BY <1>1, <1>7
  <2>1. <<f, w, id>> \in Slot
    BY DEF Slot
  <2>2. slots[<<f, w, id>>] \in Seq(Nat) /\ SlotFits(log, slots[<<f, w, id>>], f, w, limitNow)
    BY <1>1, <2>1 DEF LimitInv, LimitTyped, WindowsFit
  <2> QED
    BY <1>4, <2>2, OtherFits
<1>12. slots' \in [Slot -> Seq(Nat)] /\ \A s \in Slot : slots'[s] = slots[s]
  BY <1>7 DEF LimitInv, LimitTyped
<1> QED
  BY <1>1, <1>4, <1>6, <1>7, <1>9, <1>10, <1>11, <1>12, OneCaller

LEMMA ClearKeeps ==
  ASSUME LimitInv, ClearIpReputation
  PROVE  LimitInv'
<1>1. PICK r : r = [what |-> "cleared", on |-> "none", at |-> limitNow]
  OBVIOUS
<1>2. limitNow \in Nat /\ r \in LogRecord /\ r.what = "cleared" /\ r.at = limitNow
  BY <1>1 DEF LimitInv, LimitTyped, LogRecord
<1>3. /\ reputation' = [id \in Caller |-> NoReputation]
      /\ limitLog' = [id \in Caller |-> Append(limitLog[id], r)]
      /\ UNCHANGED <<limitNow, slots>>
  BY <1>1 DEF ClearIpReputation
<1>4. NoReputation \in RepRecord /\ NoReputation.violations = <<>> /\ NoReputation.blockedUntil = 0
  BY DEF NoReputation, RepRecord
<1>5. \A id \in Caller : limitLog[id] \in Seq(LogRecord) /\ Append(limitLog[id], r) \in Seq(LogRecord)
  BY <1>2, Appended DEF LimitInv, LimitTyped
<1>6. LimitTyped'
  BY <1>3, <1>4, <1>5 DEF LimitInv, LimitTyped
<1>7. WindowsFit'
  <2> SUFFICES ASSUME NEW id \in Caller, NEW f \in Endpoint, NEW w \in {"short", "burst"}
               PROVE  SlotFits(Append(limitLog[id], r), slots[<<f, w, id>>], f, w, limitNow)
    BY <1>3 DEF WindowsFit
  <2>1. <<f, w, id>> \in Slot
    BY DEF Slot
  <2>2. slots[<<f, w, id>>] \in Seq(Nat) /\ SlotFits(limitLog[id], slots[<<f, w, id>>], f, w, limitNow)
    BY <2>1 DEF LimitInv, LimitTyped, WindowsFit
  <2> QED
    BY <1>2, <1>5, <2>2, OtherFits
<1>8. BlocksFit'
  <2> SUFFICES ASSUME NEW id \in Caller
               PROVE  ViolationsFit(Append(limitLog[id], r), <<>>, limitNow) /\ BlockFits(Append(limitLog[id], r), 0)
    BY <1>3, <1>4 DEF BlocksFit
  <2>1. PICK log \in Seq(LogRecord) : log = limitLog[id]
    BY <1>5
  <2>2. PICK old \in RepRecord : old = reputation[id]
    BY DEF LimitInv, LimitTyped
  <2>3. old.violations \in Seq(Nat) /\ old.blockedUntil \in Nat /\ <<>> \in Seq(Nat)
    BY DEF RepRecord
  <2>4. ViolationsFit(log, old.violations, limitNow) /\ BlockFits(log, old.blockedUntil)
    BY <2>1, <2>2 DEF LimitInv, BlocksFit
  <2>5. ViolationsFit(Append(log, r), <<>>, limitNow)
    BY <1>2, <2>3, <2>4, OthersDoNotCount
  <2>6. BlockFits(Append(log, r), 0)
    BY <1>2, <2>3, <2>4, BlockGoesOn
  <2> QED
    BY <2>1, <2>5, <2>6
<1> QED
  BY <1>6, <1>7, <1>8 DEF LimitInv

LEMMA LimitTickKeeps ==
  ASSUME LimitInv, LimitTick
  PROVE  LimitInv'
<1>1. limitNow \in Nat /\ limitNow' = limitNow + 1 /\ UNCHANGED <<slots, reputation, limitLog>>
  BY DEF LimitTick, LimitInv, LimitTyped
<1>2. LimitTyped'
  BY <1>1 DEF LimitInv, LimitTyped
<1>3. WindowsFit'
  <2> SUFFICES ASSUME NEW id \in Caller, NEW f \in Endpoint, NEW w \in {"short", "burst"}
               PROVE  SlotFits(limitLog[id], slots[<<f, w, id>>], f, w, limitNow + 1)
    BY <1>1 DEF WindowsFit
  <2>1. <<f, w, id>> \in Slot
    BY DEF Slot
  <2>2. /\ slots[<<f, w, id>>] \in Seq(Nat) /\ limitLog[id] \in Seq(LogRecord)
        /\ SlotFits(limitLog[id], slots[<<f, w, id>>], f, w, limitNow)
    BY <2>1 DEF LimitInv, LimitTyped, WindowsFit
  <2> QED
    BY <1>1, <2>2, TickFits
<1>4. BlocksFit'
  <2> SUFFICES ASSUME NEW id \in Caller
               PROVE  ViolationsFit(limitLog[id], reputation[id].violations, limitNow + 1)
    BY <1>1 DEF LimitInv, BlocksFit
  <2>1. ViolationsFit(limitLog[id], reputation[id].violations, limitNow)
    BY DEF LimitInv, BlocksFit
  <2>2. \A t \in Int : t >= (limitNow + 1) - ViolationWindow => t >= limitNow - ViolationWindow
    BY <1>1, Sizes
  <2> QED
    BY <2>1, <2>2 DEF ViolationsFit
<1> QED
  BY <1>2, <1>3, <1>4 DEF LimitInv

\* The limiter's two promises follow.
LEMMA LimiterPromises ==
  ASSUME LimitInv
  PROVE  GrantsFitEveryWindow /\ BlockHolds
<1>1. GrantsFitEveryWindow
  BY DEF LimitInv, WindowsFit, SlotFits, GrantsFitEveryWindow
<1>2. BlockHolds
  BY DEF LimitInv, BlocksFit, BlockFits, HeldAt, BlockHolds
<1> QED
  BY <1>1, <1>2

\* Every step of the API keeps it: a request meets the limiter first.
LEMMA LimiterInvariant == Spec => []LimitInv
<1>1. Init => LimitInv
  BY LimitStart DEF Init
<1>2. ASSUME LimitInv, UNCHANGED limitVars PROVE LimitInv'
  BY <1>2 DEF limitVars, LimitInv, LimitTyped, WindowsFit, BlocksFit
<1>3. ASSUME LimitInv, RouteStep
      PROVE  LimitInv'
  <2>1. ASSUME NEW c \in Call, NEW id \in Caller, NEW e \in Endpoint, NEW k \in Key, NEW t \in Tier,
               RequestArrives(c, id, e, k, t)
        PROVE  LimitInv'
    BY <1>3, <2>1, RequestKeeps DEF RequestArrives
  <2>2. ASSUME UNCHANGED limitVars PROVE LimitInv'
    BY <1>2, <1>3, <2>2
  <2> QED
    BY <1>3, <2>1, <2>2 DEF RouteStep, EntersIdempotency, Handles, KeysMove
<1>4. ASSUME LimitInv, LimiterStep
      PROVE  LimitInv'
  BY <1>4, RequestKeeps, UnblockKeeps, ClearKeeps, LimitTickKeeps DEF LimiterStep
<1>5. LimitInv /\ [Next]_routeVars => LimitInv'
  <2> SUFFICES ASSUME LimitInv, [Next]_routeVars PROVE LimitInv'
    OBVIOUS
  <2>1. CASE UNCHANGED limitVars
    BY <1>2, <2>1
  <2>2. CASE UNCHANGED routeVars
    BY <1>2, <2>2 DEF routeVars
  <2> QED
    BY <1>3, <1>4, <2>1, <2>2 DEF Next
<1> QED
  BY <1>1, <1>5, PTL DEF Spec

\* No window, wherever it ends, lets a caller through more often than its limit
\* (rateLimit.ts:332-349, 412-438).
THEOREM LimitsHold == Spec => []GrantsFitEveryWindow
  BY LimiterInvariant, LimiterPromises, PTL

\* A caller refused too often stays shut out until the block ends or is lifted
\* (rateLimit.ts:167-203).
THEOREM BlocksHold == Spec => []BlockHolds
  BY LimiterInvariant, LimiterPromises, PTL
=============================================================================
