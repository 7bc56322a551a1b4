----------------------------- MODULE EventSequence -----------------------------
(***************************************************************************)
(* src/frontend/lib/api/eventSequence.ts: the next sequence number of a    *)
(* product's events, claimed by clients that name the number they expect.  *)
(* claimEventSequence reads the number in one access of the store and      *)
(* writes the next one in another.                                         *)
(***************************************************************************)
EXTENDS Naturals, FiniteSets

CONSTANTS
  Claimant,   \* claims under way at the same time
  MaxSeq,     \* bound: numbers claimed
  MaxResets   \* bound: resetEventSequence

VARIABLES
  nextSeq,    \* event:seq:<product>; 0 where the key is missing
  claim,      \* the claim each claimant is in
  accepted,   \* history: numbers accepted so far
  resets

seqVars == <<nextSeq, claim, accepted, resets>>

\* A number that is not the next one is a conflict: the claim ends.
ReadSequence(p, claimed) ==
  /\ claim[p].at = "idle"
  /\ claimed = nextSeq
  /\ claim' = [claim EXCEPT ![p] = [at |-> "write", claimed |-> claimed, current |-> nextSeq]]
  /\ UNCHANGED <<nextSeq, accepted, resets>>

Successor2(c) == c.current + 2              \* faulty variant: a number is skipped
Successor(c) == c.current + 1
WriteSequence(p) ==
  /\ claim[p].at = "write"
  /\ nextSeq' = Successor(claim[p])
  /\ accepted' = accepted \cup {claim[p].claimed}
  /\ claim' = [claim EXCEPT ![p] = [at |-> "idle", claimed |-> 0, current |-> 0]]
  /\ UNCHANGED resets

\* Admin or recovery only.
ResetSequence ==
  /\ resets < MaxResets
  /\ resets' = resets + 1
  /\ nextSeq' = 0
  /\ UNCHANGED <<claim, accepted>>

SeqInit ==
  /\ nextSeq = 0
  /\ claim = [p \in Claimant |-> [at |-> "idle", claimed |-> 0, current |-> 0]]
  /\ accepted = {}
  /\ resets = 0

SeqNext ==
  \/ \E p \in Claimant, n \in 0..(MaxSeq - 1) : ReadSequence(p, n)
  \/ \E p \in Claimant : WriteSequence(p)
  \/ ResetSequence

-----------------------------------------------------------------------------
\* However claims and resets overlap, every number below the next one was
\* accepted: a client never has to name a number nobody could have had
\* (eventSequence.ts:43-63).
NoSkippedNumber == \A n \in 0..(nextSeq - 1) : n \in accepted
=============================================================================
