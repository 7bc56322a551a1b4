----------------------------- MODULE WarrantyPanel -----------------------------
(***************************************************************************)
(* src/frontend/components/products/WarrantyPanel.tsx on one page: it is   *)
(* given the product's warranty and claims, then shows what it sent and    *)
(* was told.  The client answers success once it has a hash, whatever      *)
(* becomes of the transaction, and failure while an attempt may still run  *)
(* (live-contract-client.ts:105-106, resilience.ts:79-104): an answer says *)
(* nothing of the chain, and a page that is loaded again may show any      *)
(* warranty and claims.  The expiry of a warranty only hides a button, so  *)
(* a page simply may not press it.                                         *)
(***************************************************************************)
EXTENDS Naturals, Sequences, SequencesExt

CONSTANTS
  ClaimId, Status,     \* claims, and the statuses the buttons set
  MaxLoaded, MaxPresses   \* bounds

ASSUME WarrantyAssumption ==
  "Pending" \notin Status /\ "none" \notin ClaimId /\ MaxLoaded \in Nat

VARIABLES
  page,     \* what the page shows, and what it is waiting for
  press     \* the calls it has sent, in order

warrantyVars == <<page, press>>

Claim(c, s) == [id |-> c, status |-> s]
Loaded(owner, w, cs) == [isOwner |-> owner, warranty |-> w, claims |-> cs,
                         claimForm |-> FALSE, busy |-> {}, updating |-> "none"]
\* What a page may be given; a filing that was retried has its claim twice.
ClaimRecord == [id : ClaimId, status : Status \cup {"Pending"}]
Pages ==
  {Loaded(owner, w, cs) : owner \in BOOLEAN, w \in {"none", "valid", "voided"},
                          cs \in UNION {[1..n -> ClaimRecord] : n \in 0..MaxLoaded}}
ShowsClaim(c) == \E i \in DOMAIN page.claims : page.claims[i].id = c

Call(op, c, s) ==
  /\ Len(press) < MaxPresses
  /\ press' = Append(press, [op |-> op, claim |-> c, status |-> s,
                             at |-> "sent", mounted |-> TRUE])

PressRegister ==
  /\ page.isOwner /\ page.warranty = "none" /\ "register" \notin page.busy
  /\ Call("register", "none", "none")
  /\ page' = [page EXCEPT !.busy = @ \cup {"register"}]

PressVoid ==
  /\ page.isOwner /\ page.warranty = "valid" /\ "void" \notin page.busy
  /\ Call("void", "none", "none")
  /\ page' = [page EXCEPT !.busy = @ \cup {"void"}]

\* The form stays open when the warranty is voided meanwhile.
OpenClaimForm ==
  /\ page.warranty = "valid" /\ ~page.claimForm
  /\ page' = [page EXCEPT !.claimForm = TRUE]
  /\ UNCHANGED press
CancelClaim ==
  /\ page.claimForm /\ "file" \notin page.busy
  /\ page' = [page EXCEPT !.claimForm = FALSE]
  /\ UNCHANGED press

\* The claim gets a random id.
PressFileClaim(c) ==
  /\ page.claimForm /\ "file" \notin page.busy
  /\ ~ShowsClaim(c) /\ \A i \in DOMAIN press : press[i].claim # c
  /\ Call("file", c, "Pending")
  /\ page' = [page EXCEPT !.busy = @ \cup {"file"}]

\* handleStatusChange: one claim is remembered as being updated, not each.
PressStatus(c, s) ==
  /\ page.isOwner /\ Claim(c, "Pending") \in ToSet(page.claims)
  /\ page.updating # c
  /\ Call("update", c, s)
  /\ page' = [page EXCEPT !.updating = c]

\* Closing the section forgets what the forms and the list wait for.
Collapse ==
  /\ page.busy # {} \/ page.updating # "none"
  /\ page' = [page EXCEPT !.busy = @ \cap {"void"}, !.updating = "none"]
  /\ press' = [i \in DOMAIN press |-> IF press[i].op # "void"
                                      THEN [press[i] EXCEPT !.mounted = FALSE] ELSE press[i]]

\* Answers to the page that was open before reach nobody.
ReloadPage == page' \in Pages /\ press' = <<>>

\* handleClaimStatusUpdate changes the claims the page shows by then.
ShowStatusAlone(cs, r) ==                                    \* faulty variant
  [i \in DOMAIN cs |-> [cs[i] EXCEPT !.status = IF cs[i].id = r.claim THEN r.status ELSE "Pending"]]
ShowStatus(cs, r) ==
  [i \in DOMAIN cs |-> IF cs[i].id = r.claim THEN [cs[i] EXCEPT !.status = r.status] ELSE cs[i]]
Shown(b, r) ==
  CASE r.op = "register" -> [b EXCEPT !.warranty = "valid"]
    [] r.op = "void" -> [b EXCEPT !.warranty = "voided"]
    [] r.op = "file" -> [b EXCEPT !.claims = Append(@, Claim(r.claim, "Pending")), !.claimForm = FALSE]
    [] r.op = "update" -> [b EXCEPT !.claims = ShowStatus(@, r)]
NotWaiting(b, r) ==
  CASE ~r.mounted -> b
    [] r.op = "update" -> [b EXCEPT !.updating = "none"]
    [] OTHER -> [b EXCEPT !.busy = @ \ {r.op}]

AnswerSuccess(i) ==
  /\ press[i].at = "sent"
  /\ press' = [press EXCEPT ![i].at = "succeeded"]
  /\ page' = NotWaiting(Shown(page, press[i]), press[i])
AnswerFailure(i) ==
  /\ press[i].at = "sent"
  /\ press' = [press EXCEPT ![i].at = "failed"]
  /\ page' = NotWaiting(page, press[i])

WarrantyInit == page \in Pages /\ press = <<>>

WarrantyNext ==
  \/ PressRegister \/ PressVoid \/ OpenClaimForm \/ CancelClaim \/ Collapse \/ ReloadPage
  \/ \E c \in ClaimId : PressFileClaim(c) \/ \E s \in Status : PressStatus(c, s)
  \/ \E i \in DOMAIN press : AnswerSuccess(i) \/ AnswerFailure(i)

-----------------------------------------------------------------------------
\* What the page was told of a claim stays shown, in whatever order calls are
\* sent and answered, forms closed and lists rewritten: a claim it was told is
\* filed is in the list, and one it was told is decided shows a decision it was
\* told of, so that it offers no second one (WarrantyPanel.tsx:365-381, 483-487,
\* 598-602).
Told(c) ==
  {press[i].status : i \in {j \in DOMAIN press : /\ press[j].claim = c
                                                  /\ press[j].op = "update"
                                                  /\ press[j].at = "succeeded"}}
ToldStaysShown ==
  \A i \in DOMAIN press :
    press[i].at = "succeeded" /\ press[i].op \in {"file", "update"} =>
      LET c == press[i].claim IN
      /\ ShowsClaim(c)
      /\ \A k \in DOMAIN page.claims :
           page.claims[k].id = c /\ Told(c) # {} => page.claims[k].status \in Told(c)
=============================================================================
