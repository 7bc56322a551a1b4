----------------------------- MODULE TransferForm -----------------------------
(***************************************************************************)
(* src/frontend/components/products/TransferOwnershipForm.tsx: the address *)
(* typed is checked by POST /api/v1/transfer-preflight after a pause, the  *)
(* form shows the verdict and lets the user go on to a dialog, which calls *)
(* the contract without another check.  A check that fails counts as a     *)
(* pass.  Whether the product is fit to be transferred (active, not        *)
(* recalled, spoiled or expired, certified) may change meanwhile.          *)
(***************************************************************************)
EXTENDS Naturals, FiniteSets

CONSTANTS
  Address,       \* well-formed addresses
  FirstOwner,    \* the owner when the form opens
  MaxEdits       \* bound

VARIABLES
  typed,      \* the field: an address, or "bad" for anything else
  timers,     \* addresses runPreflight is to be called with
  checks,     \* preflight requests: the address and the server's answer
  shield,     \* the verdict shown, and (history) the address it is for
  checking,   \* complianceChecking
  step,       \* "form", "confirm", "sent" or "done"
  pendingOwner, owner, fit, edits,
  crossing,   \* history: a check began while another was running
  early       \* history: the dialog was opened for an address without a verdict

transferVars == <<typed, timers, checks, shield, checking, step, pendingOwner, owner, fit,
                  edits, crossing, early>>

\* checkTransferCompliance on the server's record of the product.
Allowed(a) == fit /\ a # owner

\* The effect clears the last timer before it sets its own.
KeepTimer(a) == timers \cup {a}                               \* faulty variant
ResetTimer(a) == {a}
Type(a) ==
  /\ step = "form" /\ a # typed /\ edits < MaxEdits
  /\ edits' = edits + 1
  /\ typed' = a /\ timers' = ResetTimer(a)
  /\ UNCHANGED <<checks, shield, checking, step, pendingOwner, owner, fit, crossing, early>>

RunPreflight(a) ==
  /\ a \in timers /\ timers' = timers \ {a}
  /\ IF a \in Address
     THEN /\ checks' = checks \cup {[address |-> a, edit |-> edits, answer |-> "none"]}
          /\ checking' = TRUE
          /\ crossing' = (crossing \/ checks # {})
          /\ UNCHANGED shield
     ELSE /\ shield' = [shield EXCEPT !.checked = FALSE, !.blockers = FALSE]
          /\ UNCHANGED <<checks, checking, crossing>>
  /\ UNCHANGED <<typed, step, pendingOwner, owner, fit, edits, early>>

\* The route answers, or the request fails.
ServerChecks(c) ==
  /\ c \in checks /\ c.answer = "none"
  /\ checks' = (checks \ {c}) \cup
       {[c EXCEPT !.answer = IF Allowed(c.address) THEN "allowed" ELSE "blocked"]}
  /\ UNCHANGED <<typed, timers, shield, checking, step, pendingOwner, owner, fit, edits,
                 crossing, early>>
Show(c, allowed) ==
  /\ checks' = checks \ {c} /\ checking' = FALSE
  /\ shield' = [checked |-> TRUE, allowed |-> allowed, blockers |-> ~allowed, address |-> c.address]
  /\ UNCHANGED <<typed, timers, step, pendingOwner, owner, fit, edits, crossing, early>>
VerdictArrives(c) == c \in checks /\ c.answer # "none" /\ Show(c, c.answer = "allowed")
CheckFails(c) == c \in checks /\ Show(c, TRUE)

\* handleSubmit, the button and onFormSubmit: nothing waits for the pause to end.
Submit ==
  /\ step = "form" /\ typed \in Address
  /\ ~shield.blockers /\ ~checking
  /\ typed # FirstOwner /\ shield.allowed
  /\ step' = "confirm" /\ pendingOwner' = typed
  /\ early' = (timers # {} \/ checks # {})
  /\ UNCHANGED <<typed, timers, checks, shield, checking, owner, fit, edits, crossing>>
Cancel ==
  /\ step = "confirm" /\ step' = "form"
  /\ UNCHANGED <<typed, timers, checks, shield, checking, pendingOwner, owner, fit, edits,
                 crossing, early>>
OnConfirm ==
  /\ step = "confirm" /\ step' = "sent"
  /\ UNCHANGED <<typed, timers, checks, shield, checking, pendingOwner, owner, fit, edits,
                 crossing, early>>
TransferApplies ==
  /\ step = "sent" /\ owner # pendingOwner
  /\ owner' = pendingOwner
  /\ UNCHANGED <<typed, timers, checks, shield, checking, step, pendingOwner, fit, edits,
                 crossing, early>>
TransferAnswered ==
  /\ step = "sent"
  /\ \/ owner = pendingOwner /\ step' = "done"
     \/ step' = "form"
  /\ UNCHANGED <<typed, timers, checks, shield, checking, pendingOwner, owner, fit, edits,
                 crossing, early>>

ProductChanges ==
  /\ fit' = ~fit
  /\ UNCHANGED <<typed, timers, checks, shield, checking, step, pendingOwner, owner, edits,
                 crossing, early>>

TransferInit ==
  /\ typed = "bad" /\ timers = {"bad"} /\ checks = {} /\ checking = FALSE
  /\ shield = [checked |-> FALSE, allowed |-> TRUE, blockers |-> FALSE, address |-> "none"]
  /\ step = "form" /\ pendingOwner = "none" /\ owner = FirstOwner /\ fit \in BOOLEAN
  /\ edits = 0 /\ crossing = FALSE /\ early = FALSE

TransferNext ==
  \/ \E a \in Address \cup {"bad"} : Type(a) \/ RunPreflight(a)
  \/ \E c \in checks : ServerChecks(c) \/ VerdictArrives(c) \/ CheckFails(c)
  \/ Submit \/ Cancel \/ OnConfirm \/ TransferApplies \/ TransferAnswered \/ ProductChanges

-----------------------------------------------------------------------------
\* With no pause and no check running, the shield next to a well-formed address is
\* the verdict for that address, and the dialog asks about an address that was let
\* through, unless checks crossed or it was opened before the verdict came
\* (TransferOwnershipForm.tsx:111-163, 302).
ShieldMatchesAddress ==
  ~crossing =>
    /\ timers = {} /\ checks = {} /\ typed \in Address => shield.checked /\ shield.address = typed
    /\ step = "confirm" /\ ~early => pendingOwner = shield.address /\ shield.allowed
=============================================================================
