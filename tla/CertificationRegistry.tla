------------------------- MODULE CertificationRegistry -------------------------
(***************************************************************************)
(* src/frontend/app/api/v1/certification-registry: issuers, the index of   *)
(* their addresses, and the list of a product's records.  A request reads  *)
(* a key, then writes it back whole; requests run at the same time and may *)
(* die between two calls to the store.  Rate limits, keys and bodies are   *)
(* checked before anything below.  Certificate types always fit.           *)
(***************************************************************************)
EXTENDS Naturals, Sequences, FiniteSets, SequencesExt

CONSTANTS
  Request,        \* requests that can run at the same time
  Issuer, CertRecord,
  MaxCertRequests \* bound

ASSUME RegistryAssumption ==
  /\ Issuer \cap CertRecord = {} /\ "index" \notin Issuer \cup CertRecord
  /\ MaxCertRequests \in Nat

VARIABLES
  issuers,      \* cert-registry:issuer:*
  issuerIndex,  \* cert-registry:issuers:index
  certRecords,  \* cert-registry:records:* of one product
  request,      \* what each request has read and does next
  answered,     \* history: what the last successful answer for a key said
  disturbed,    \* history: keys whose requests overlapped or died
  begun

registryVars == <<issuers, issuerIndex, certRecords, request, answered, disturbed, begun>>

Idle == [at |-> "idle", issuer |-> "none", record |-> "none", copy |-> <<>>, listed |-> {}]
Key == Issuer \cup CertRecord \cup {"index"}

\* Keys a running request writes; all records are in one list.
Writes(q) ==
  CASE request[q].at = "idle" -> {}
    [] request[q].at \in {"register", "readIndex", "writeIndex"} -> {request[q].issuer, "index"}
    [] request[q].at = "deactivate" -> {request[q].issuer}
    [] OTHER -> CertRecord

BeginRequest(q, r, keys) ==
  /\ request[q].at = "idle" /\ begun < MaxCertRequests
  /\ begun' = begun + 1
  /\ request' = [request EXCEPT ![q] = r]
  /\ disturbed' = disturbed \cup (keys \cap UNION {Writes(p) : p \in Request})
  /\ UNCHANGED <<issuers, issuerIndex, certRecords, answered>>
Go(q, step) == request' = [request EXCEPT ![q].at = step]
Answer(q, k, said) ==
  /\ request' = [request EXCEPT ![q] = Idle]
  /\ answered' = [answered EXCEPT ![k] = said]

\* POST issuers: an active issuer is a conflict, an inactive one is registered again.
RegisterIssuer(q, i) ==
  /\ issuers[i] # "active"
  /\ BeginRequest(q, [Idle EXCEPT !.at = "register", !.issuer = i], {i, "index"})
SetIssuer(q) ==
  /\ request[q].at = "register"
  /\ issuers' = [issuers EXCEPT ![request[q].issuer] = "active"]
  /\ Go(q, "readIndex")
  /\ UNCHANGED <<issuerIndex, certRecords, answered, disturbed, begun>>
GetIssuerIndex(q) ==
  /\ request[q].at = "readIndex"
  /\ IF request[q].issuer \in issuerIndex
     THEN Answer(q, request[q].issuer, "active")
     ELSE /\ request' = [request EXCEPT ![q].at = "writeIndex", ![q].listed = issuerIndex]
          /\ UNCHANGED answered
  /\ UNCHANGED <<issuers, issuerIndex, certRecords, disturbed, begun>>
WriteIssuerIndex(q) ==
  /\ request[q].at = "writeIndex"
  /\ issuerIndex' = request[q].listed \cup {request[q].issuer}
  /\ Answer(q, request[q].issuer, "active")
  /\ UNCHANGED <<issuers, certRecords, disturbed, begun>>

\* DELETE issuers/[address]
ReadIssuer(q, i) ==
  /\ issuers[i] # "none"
  /\ BeginRequest(q, [Idle EXCEPT !.at = "deactivate", !.issuer = i], {i})
DeactivateIssuer(q) ==
  /\ request[q].at = "deactivate"
  /\ issuers' = [issuers EXCEPT ![request[q].issuer] = "inactive"]
  /\ Answer(q, request[q].issuer, "inactive")
  /\ UNCHANGED <<issuerIndex, certRecords, disturbed, begun>>

\* POST records: the issuer is read, then the list.
CheckIssuer(q, i, c) ==
  /\ issuers[i] = "active"
  /\ BeginRequest(q, [Idle EXCEPT !.at = "issue", !.issuer = i, !.record = c], CertRecord)
HasRecord(rs, c) == \E n \in DOMAIN rs : rs[n].id = c
IsDuplicateNever(c) == FALSE                                  \* faulty variant
IsDuplicate(c) == HasRecord(certRecords, c)
GetRecords(q) ==
  /\ request[q].at = "issue"
  /\ request' = [request EXCEPT ![q] =
       IF IsDuplicate(request[q].record) THEN Idle
       ELSE [@ EXCEPT !.at = "push", !.copy = certRecords]]
  /\ UNCHANGED <<issuers, issuerIndex, certRecords, answered, disturbed, begun>>
PushRecord(q) ==
  /\ request[q].at = "push"
  /\ certRecords' = Append(request[q].copy,
       [id |-> request[q].record, issuer |-> request[q].issuer, revoked |-> FALSE])
  /\ Answer(q, request[q].record, "valid")
  /\ UNCHANGED <<issuers, issuerIndex, disturbed, begun>>

\* DELETE records/[recordId]: the first record with the id, by its issuer only.
FirstOf(rs, c) == SelectInSeq(rs, LAMBDA r : r.id = c)
FindRecord(q, i, c) ==
  /\ HasRecord(certRecords, c) /\ certRecords[FirstOf(certRecords, c)].issuer = i
  /\ BeginRequest(q, [Idle EXCEPT !.at = "revoke", !.record = c, !.copy = certRecords], CertRecord)
RevokeRecord(q) ==
  /\ request[q].at = "revoke"
  /\ LET rs == request[q].copy
     IN certRecords' = [rs EXCEPT ![FirstOf(rs, request[q].record)].revoked = TRUE]
  /\ Answer(q, request[q].record, "revoked")
  /\ UNCHANGED <<issuers, issuerIndex, disturbed, begun>>

RequestDies(q) ==
  /\ request[q].at # "idle"
  /\ disturbed' = disturbed \cup Writes(q)
  /\ request' = [request EXCEPT ![q] = Idle]
  /\ UNCHANGED <<issuers, issuerIndex, certRecords, answered, begun>>

RegistryInit ==
  /\ issuers = [i \in Issuer |-> "none"] /\ issuerIndex = {} /\ certRecords = <<>>
  /\ request = [q \in Request |-> Idle]
  /\ answered = [k \in Key |-> "none"] /\ disturbed = {} /\ begun = 0

RegistryNext ==
  \E q \in Request :
    \/ \E i \in Issuer :
         \/ RegisterIssuer(q, i) \/ ReadIssuer(q, i)
         \/ \E c \in CertRecord : CheckIssuer(q, i, c) \/ FindRecord(q, i, c)
    \/ SetIssuer(q) \/ GetIssuerIndex(q) \/ WriteIssuerIndex(q) \/ DeactivateIssuer(q)
    \/ GetRecords(q) \/ PushRecord(q) \/ RevokeRecord(q) \/ RequestDies(q)

-----------------------------------------------------------------------------
\* What a successful request answered stays true until a later request for the same
\* key changes it, and a registered issuer is listed: keys are read in one call and
\* written back whole in another, so this holds only for keys whose requests neither
\* overlapped nor died (records/route.ts:77-100; issuers/route.ts:68-75).
Quiet(k) == k \notin disturbed /\ \A q \in Request : k \notin Writes(q)
AnsweredRecordStands ==
  /\ \A c \in CertRecord : Quiet(c) /\ answered[c] # "none" =>
       /\ HasRecord(certRecords, c)
       /\ certRecords[FirstOf(certRecords, c)].revoked = (answered[c] = "revoked")
  /\ \A i \in Issuer : Quiet(i) /\ answered[i] # "none" => issuers[i] = answered[i]
  /\ \A i \in Issuer : Quiet("index") /\ answered[i] # "none" => i \in issuerIndex
=============================================================================
