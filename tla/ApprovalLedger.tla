--------------------------- MODULE ApprovalLedger ---------------------------
(***************************************************************************)
(* What multi-signature approval promises, without saying how: proposals   *)
(* are opened under fresh numbers by one signer, gather distinct signers,  *)
(* each by an act of its own, and are either accepted by a quorum before   *)
(* their deadline or dropped after it.  Nothing is accepted twice and      *)
(* nothing else is accepted.                                               *)
(***************************************************************************)
EXTENDS Naturals, Sequences, FiniteSets

CONSTANTS Signer, Subject

VARIABLES
  opened,    \* how many proposals were ever opened
  open,      \* the proposals neither accepted nor dropped
  accepted,  \* the subjects accepted, in order
  clock,
  by         \* who acts: an input, free to change while the ledger does not

ledgerVars == <<opened, open, accepted, clock>>

Proposal == [id : Nat, subject : Subject, signers : SUBSET Signer,
             quorum : Nat, deadline : Nat]

LedgerInit ==
  /\ opened = 0
  /\ open = {}
  /\ accepted = <<>>
  /\ clock = 0

\* Some proposals are opened at once, each signed by who opens them and with a
\* quorum that this signer alone does not reach.
Open ==
  /\ opened' > opened
  /\ open \subseteq open'
  /\ {d.id : d \in open' \ open} = opened..(opened' - 1)
  /\ Cardinality(open' \ open) = opened' - opened
  /\ \A d \in open' \ open :
       d.signers = {by'} /\ d.quorum > 1 /\ d.deadline >= clock
  /\ UNCHANGED <<accepted, clock>>

Sign(d, s) ==
  /\ by' = s
  /\ clock <= d.deadline
  /\ Cardinality(d.signers \cup {s}) < d.quorum
  /\ open' = (open \ {d}) \cup {[d EXCEPT !.signers = @ \cup {s}]}
  /\ UNCHANGED <<opened, accepted, clock>>

Accept(d, s) ==
  /\ by' = s
  /\ clock <= d.deadline
  /\ Cardinality(d.signers \cup {s}) >= d.quorum
  /\ open' = open \ {d}
  /\ accepted' = Append(accepted, d.subject)
  /\ UNCHANGED <<opened, clock>>

Drop ==
  /\ open' = {d \in open : clock <= d.deadline}
  /\ UNCHANGED <<opened, accepted, clock>>

Pass ==
  /\ clock' > clock
  /\ UNCHANGED <<opened, open, accepted>>

LedgerNext ==
  \/ Open
  \/ \E d \in open, s \in Signer : Sign(d, s) \/ Accept(d, s)
  \/ Drop
  \/ Pass

LedgerStep == LedgerNext \/ UNCHANGED ledgerVars

LedgerSpec == LedgerInit /\ [][LedgerNext]_ledgerVars
=============================================================================
