---------------------------- MODULE ProductRecords ----------------------------
(***************************************************************************)
(* src/frontend/app/api/v1: the routes that change product, auditor and    *)
(* batch records through the repositories of lib/data.  A handler reads a  *)
(* record, awaits, and writes; requests interleave at each await, and a    *)
(* request may be killed there.  With the data source 'contract', auditors *)
(* and batches are refused, a read may miss what the contract stores       *)
(* apart, and a write may be rejected.                                     *)
(* No route voids a warranty or removes a product.                         *)
(***************************************************************************)
EXTENDS Naturals, Sequences, FiniteSets

CONSTANTS
  ProductId, Fixtures,       \* product ids, and those there from the start
  BatchMembers,              \* products of the batch, in its order
  Auditor,                   \* addresses
  Handler                    \* requests; each is served once
\* A batch is created of products there are, and may name others.
ASSUME FixtureAssumption ==
  /\ Fixtures \subseteq ProductId
  /\ BatchMembers \in Seq(STRING) /\ BatchMembers # <<>>
  /\ \A i \in DOMAIN BatchMembers : BatchMembers[i] \in ProductId => BatchMembers[i] \in Fixtures
  /\ "none" \notin Handler

VARIABLES
  source,        \* getDataSource
  products,      \* records of the products that exist
  batchReason,   \* request that recalled the batch last
  auditors,      \* addresses in the order they were registered
  serving        \* of each request: what it does, where it is, what it read

recordVars == <<source, products, batchReason, auditors, serving>>

NONE == "none"
Blank == [recalled |-> NONE, warranty |-> NONE, claims |-> {}, assembly |-> NONE]
Nobody == [kind |-> NONE, at |-> "new", product |-> NONE, seen |-> Blank, next |-> 0, parts |-> {}]

Known(p) == p \in DOMAIN products
Goes(r, at) == serving' = [serving EXCEPT ![r].at = at]
Ends(r) == Goes(r, "done")
Contract == source = "contract"

\* getById in the contract's repository: hydrate leaves out what it could not read.
Views(p) ==
  IF Contract
  THEN {products[p], [products[p] EXCEPT !.warranty = NONE], [products[p] EXCEPT !.claims = {}]}
  ELSE {products[p]}

\* replaceProduct, or the transaction of the contract: the update is built from
\* the record as it is when the write happens.
RecordRead(r) == serving[r].seen                               \* faulty variant
RecordStored(r) == products[serving[r].product]
Replace(r, Update(_)) ==
  \/ products' = [products EXCEPT ![serving[r].product] = Update(RecordStored(r))]
  \/ Contract /\ UNCHANGED products

-----------------------------------------------------------------------------
\* registerProduct: a fresh id
RegisterProductRoute(r) ==
  /\ \E p \in ProductId \ DOMAIN products :
       \/ products' = [q \in DOMAIN products \cup {p} |-> IF q = p THEN Blank ELSE products[q]]
       \/ Contract /\ UNCHANGED products
  /\ serving' = [serving EXCEPT ![r] = [Nobody EXCEPT !.kind = "register", !.at = "done"]]
  /\ UNCHANGED <<source, batchReason, auditors>>

\* registerWarranty, fileClaim, registerAssembly: first the read, and their refusals
OpenRecord(r, kind, p, parts) ==
  /\ IF Known(p)
     THEN \E v \in Views(p) :
            serving' = [serving EXCEPT ![r] =
              [kind |-> kind, product |-> p, seen |-> v, next |-> 0, parts |-> parts,
               at |-> IF kind = "claim" /\ v.warranty = NONE THEN "done"
                      ELSE IF parts # {} THEN "parts" ELSE "write"]]
     ELSE serving' = [serving EXCEPT ![r] = [Nobody EXCEPT !.kind = kind, !.at = "done"]]
  /\ UNCHANGED <<source, products, batchReason, auditors>>

\* registerAssembly: each component has to exist.
CheckPart(r, p) ==
  /\ serving[r].at = "parts" /\ p \in serving[r].parts
  /\ serving' = [serving EXCEPT ![r].parts = @ \ {p},
                                ![r].at = IF ~Known(p) THEN "done"
                                          ELSE IF serving[r].parts = {p} THEN "write" ELSE "parts"]
  /\ UNCHANGED <<source, products, batchReason, auditors>>

WriteRecord(r) ==
  /\ serving[r].at = "write"
  /\ \/ serving[r].kind = "warranty" /\ Replace(r, LAMBDA d : [d EXCEPT !.warranty = r])
     \/ serving[r].kind = "claim" /\ Replace(r, LAMBDA d : [d EXCEPT !.claims = @ \cup {r}])
     \/ serving[r].kind = "assembly" /\ Replace(r, LAMBDA d : [d EXCEPT !.assembly = r])
  /\ Ends(r)
  /\ UNCHANGED <<source, batchReason, auditors>>

\* POST /batches/[id]/recall: the batch is marked, then its members one by one.
OpenBatch(r) ==
  /\ serving' = [serving EXCEPT ![r] =
       [Nobody EXCEPT !.kind = "batch", !.at = IF Contract THEN "done" ELSE "mark"]]
  /\ UNCHANGED <<source, products, batchReason, auditors>>
MarkBatch(r) ==
  /\ serving[r].at = "mark"
  /\ batchReason' = r
  /\ serving' = [serving EXCEPT ![r].at = "member", ![r].next = 1]
  /\ UNCHANGED <<source, products, auditors>>
ReadMember(r) ==
  /\ serving[r].at = "member"
  /\ LET p == BatchMembers[serving[r].next] IN
     serving' = [serving EXCEPT ![r].at = "recall", ![r].product = p,
                                ![r].seen = IF Known(p) THEN products[p] ELSE Blank]
  /\ UNCHANGED <<source, products, batchReason, auditors>>
StopAtRecalled(r) == serving[r].seen.recalled # NONE           \* faulty variant
Stop(r) == FALSE
RecallMember(r) ==
  /\ serving[r].at = "recall"
  /\ IF Known(serving[r].product) /\ serving[r].seen.recalled = NONE
     THEN Replace(r, LAMBDA d : [d EXCEPT !.recalled = r]) ELSE UNCHANGED products
  /\ serving' = [serving EXCEPT ![r].next = @ + 1,
       ![r].at = IF serving[r].next = Len(BatchMembers) \/ Stop(r) THEN "done" ELSE "member"]
  /\ UNCHANGED <<source, batchReason, auditors>>

\* registerAuditor
OpenAuditor(r, a) ==
  /\ serving' = [serving EXCEPT ![r] =
       [Nobody EXCEPT !.kind = "auditor", !.product = a,
          !.at = IF Contract \/ \E i \in DOMAIN auditors : auditors[i] = a THEN "done" ELSE "create"]]
  /\ UNCHANGED <<source, products, batchReason, auditors>>
CreateAuditor(r) ==
  /\ serving[r].at = "create"
  /\ auditors' = Append(auditors, serving[r].product)
  /\ Ends(r)
  /\ UNCHANGED <<source, products, batchReason>>

KillRequest(r) ==
  /\ serving[r].at \notin {"new", "done"}
  /\ Goes(r, "killed")
  /\ UNCHANGED <<source, products, batchReason, auditors>>

RecordsInit ==
  /\ source \in {"mock", "contract"}
  /\ products = [p \in Fixtures |-> Blank]
  /\ batchReason = NONE /\ auditors = <<>>
  /\ serving = [r \in Handler |-> Nobody]

RecordStep(r) ==
  \/ /\ serving[r].at = "new"
     /\ \/ RegisterProductRoute(r)
        \/ OpenBatch(r)
        \/ \E a \in Auditor : OpenAuditor(r, a)
        \/ \E p \in ProductId : \/ OpenRecord(r, "warranty", p, {})
                                \/ OpenRecord(r, "claim", p, {})
                                \/ \E parts \in SUBSET ProductId \ {{}} :
                                     OpenRecord(r, "assembly", p, parts)
  \/ \E p \in ProductId : CheckPart(r, p)
  \/ WriteRecord(r) \/ MarkBatch(r) \/ ReadMember(r) \/ RecallMember(r) \/ CreateAuditor(r)
  \/ KillRequest(r)

RecordsNext == \E r \in Handler : RecordStep(r)

-----------------------------------------------------------------------------
\* No request undoes what another wrote between its read and its write: records
\* stay, a recall stays, claims stay, a warranty or an assembly is replaced only
\* by another (store.ts:49-59 with the routes around it).
RecordsOnlyGrow ==
  [][\A p \in DOMAIN products :
       /\ p \in DOMAIN products'
       /\ products[p].recalled # NONE => products'[p].recalled # NONE
       /\ products[p].claims \subseteq products'[p].claims
       /\ products[p].warranty # NONE => products'[p].warranty # NONE
       /\ products[p].assembly # NONE => products'[p].assembly # NONE]_recordVars

\* Once a recall of the batch has answered, every member that is on record is
\* recalled, whatever ran meanwhile and whichever earlier recall was killed half
\* way; a member that is recalled already does not end it
\* (app/api/v1/batches/[id]/recall/route.ts:60-82).
BatchRecallComplete ==
  \A r \in Handler :
    serving[r].kind = "batch" /\ serving[r].at = "done" /\ ~Contract =>
      \A i \in DOMAIN BatchMembers :
        Known(BatchMembers[i]) => products[BatchMembers[i]].recalled # NONE
=============================================================================
