--------------------------- MODULE ApprovalProofs ---------------------------
(***************************************************************************)
(* The approval queue implements the approval ledger: how pending events   *)
(* leave the queue and change while they are in it, for every bound.       *)
(***************************************************************************)
EXTENDS SupplyLinkContractProofs, FiniteSetTheorems

\* A sequence without repetition has as many members as places.
LEMMA DistinctCardinality ==
  ASSUME NEW S, NEW s \in Seq(S), \A i, j \in 1..Len(s) : s[i] = s[j] => i = j
  PROVE  IsFiniteSet(Members(s)) /\ Cardinality(Members(s)) = Len(s)
<1> DEFINE f == [i \in 1..Len(s) |-> s[i]]
<1>1. Len(s) \in Nat
  BY LenProperties
<1>2. f \in Bijection(1..Len(s), Members(s))
  BY DEF Bijection, Injection, Surjection, IsInjective, Members
<1>3. ExistsBijection(1..Len(s), Members(s))
  BY <1>2 DEF ExistsBijection
<1> QED
  BY <1>1, <1>3, FS_NatBijection, FS_CountingElements

\* approve_event: the approvals afterwards are those before and the approver,
\* still without repetition.
LEMMA ApprovalsGrow ==
  ASSUME NEW e \in PendingEvent, SoundPending(e), NEW a \in Address
  PROVE  /\ Members(Approvals(e, a)) = Members(e.approvals) \cup {a}
         /\ \A i, j \in 1..Len(Approvals(e, a)) :
              Approvals(e, a)[i] = Approvals(e, a)[j] => i = j
<1>1. e.approvals \in Seq(Address)
  BY DEF PendingEvent
<1>2. CASE \E i \in 1..Len(e.approvals) : e.approvals[i] = a
  BY <1>2 DEF Approvals, Members, SoundPending
<1>3. CASE \A i \in 1..Len(e.approvals) : e.approvals[i] # a
  <2> DEFINE s == e.approvals
             t == Append(s, a)
  <2>1. Approvals(e, a) = t
    BY <1>3 DEF Approvals
  <2>2. /\ Len(s) \in Nat
        /\ Len(t) = Len(s) + 1
        /\ t[Len(s) + 1] = a
        /\ \A i \in 1..Len(s) : t[i] = s[i]
    BY <1>1
  <2>3. \A i, j \in 1..Len(t) : t[i] = t[j] => i = j
    <3> TAKE i, j \in 1..Len(t)
    <3>1. CASE i \in 1..Len(s) /\ j \in 1..Len(s)
      BY <2>2, <3>1 DEF SoundPending
    <3>2. CASE i = Len(s) + 1 /\ j \in 1..Len(s)
      BY <1>3, <2>2, <3>2
    <3>3. CASE i \in 1..Len(s) /\ j = Len(s) + 1
      BY <1>3, <2>2, <3>3
    <3> QED
      BY <2>2, <3>1, <3>2, <3>3
  <2>4. Members(t) = Members(s) \cup {a}
    <3>1. 1..Len(t) = 1..Len(s) \cup {Len(s) + 1}
      BY <2>2
    <3> QED
      BY <2>2, <3>1 DEF Members
  <2> QED
    BY <2>1, <2>3, <2>4
<1> QED
  BY <1>2, <1>3

\* The number of approvals approve_event compares with the quorum is the number
\* of distinct approvers.
LEMMA FinalizesByQuorum ==
  ASSUME NEW e \in PendingEvent, SoundPending(e), NEW a \in Address
  PROVE  Finalizes(e, a) <=>
           Cardinality(Members(e.approvals) \cup {a}) >= e.required_signatures
<1>1. Approvals(e, a) \in Seq(Address)
  BY ApprovalsType
<1> QED
  BY <1>1, ApprovalsGrow, DistinctCardinality DEF Finalizes

-----------------------------------------------------------------------------
(* One approval *)

\* What a committed approve_event says about the approver.
LEMMA ApproverSigns ==
  ASSUME TypeOK, NEW p \in ProductId, NEW e \in pending[p], NEW a \in Address,
         NEW k \in 0..MaxNonce, ApproveEvent(p, e, a, k)
  PROVE  SignsNow(p, a) /\ now <= e.expiration /\ nextPendingId' = nextPendingId
<1>1. nonce' = [nonce EXCEPT ![a] = @ + 1]
  BY NonceType DEF ApproveEvent, TypeOK
<1> QED
  BY <1>1 DEF ApproveEvent, SignsNow

\* The two outcomes of approve_event.
LEMMA ApproveOutcomes ==
  ASSUME TypeOK, PendingQueueSound, NEW p \in ProductId, NEW e \in pending[p],
         NEW a \in Address, NEW k \in 0..MaxNonce, ApproveEvent(p, e, a, k)
  PROVE  /\ e \in PendingEvent /\ SoundPending(e)
         /\ \A q \in ProductId : q # p =>
              /\ pending'[q] = pending[q]
              /\ provenanceRoot'[q] = provenanceRoot[q]
         /\ \/ /\ Cardinality(Members(e.approvals) \cup {a}) >= e.required_signatures
               /\ pending'[p] = pending[p] \ {e}
               /\ events'[p] = Append(events[p], e.event)
               /\ provenanceRoot'[p] = Append(provenanceRoot[p], e.event)
            \/ /\ Cardinality(Members(e.approvals) \cup {a}) < e.required_signatures
               /\ pending'[p] = (pending[p] \ {e})
                                  \cup {[e EXCEPT !.approvals = Approvals(e, a)]}
               /\ UNCHANGED <<events, provenanceRoot>>
<1>1. e \in PendingEvent /\ SoundPending(e)
  BY QueueSoundByElement DEF TypeOK
<1>2. /\ Finalizes(e, a) <=>
           Cardinality(Members(e.approvals) \cup {a}) >= e.required_signatures
      /\ Cardinality(Members(e.approvals) \cup {a}) \in Nat
      /\ e.required_signatures \in Nat
  <2>1. Approvals(e, a) \in Seq(Address)
    BY <1>1, ApprovalsType
  <2>2. Cardinality(Members(e.approvals) \cup {a}) = Len(Approvals(e, a))
    BY <1>1, <2>1, ApprovalsGrow, DistinctCardinality
  <2> QED
    BY <1>1, <2>1, <2>2, FinalizesByQuorum, LenProperties DEF PendingEvent
<1>3. CASE Finalizes(e, a)
  <2>1. /\ events' = [events EXCEPT ![p] = Append(@, e.event)]
        /\ provenanceRoot' = [provenanceRoot EXCEPT ![p] = Append(@, e.event)]
        /\ pending' = [pending EXCEPT ![p] = @ \ {e}]
    BY <1>3 DEF ApproveEvent
  <2> QED
    BY <1>1, <1>2, <1>3, <2>1 DEF TypeOK
<1>4. CASE ~Finalizes(e, a)
  <2> DEFINE d == [e EXCEPT !.approvals = Approvals(e, a)]
  <2>1. /\ pending' = [pending EXCEPT ![p] = (@ \ {e}) \cup {d}]
        /\ UNCHANGED <<events, provenanceRoot>>
    BY <1>4 DEF ApproveEvent
  <2> HIDE DEF d
  <2>2. /\ pending'[p] = (pending[p] \ {e}) \cup {d}
        /\ \A q \in ProductId : q # p => pending'[q] = pending[q]
    BY <2>1 DEF TypeOK
  <2> QED
    BY <1>1, <1>2, <1>4, <2>1, <2>2 DEF d
<1> QED
  BY <1>3, <1>4

-----------------------------------------------------------------------------
(* How pending events leave the queue *)

LEMMA StepLeaves ==
  ASSUME TypeOK, PendingQueueSound, [Next]_vars, NEW p \in ProductId,
         NEW e \in pending[p], \A d \in pending'[p] : d.id # e.id
  PROVE  PendingLeaves(p, e)
<1>1. CASE QueueUnchanged
  BY <1>1 DEF QueueUnchanged
<1>2. ASSUME NEW q \in ProductId, NEW es \in Seq(Event), Stages(q, es)
      PROVE  FALSE
  <2>1. e \in pending'[p]
    BY <1>2 DEF Stages, StageEvents, TypeOK
  <2> QED
    BY <2>1
<1>3. ASSUME NEW q \in ProductId, NEW c \in pending[q], NEW a \in Address,
             NEW k \in 0..MaxNonce, ApproveEvent(q, c, a, k)
      PROVE  PendingLeaves(p, e)
  <2> DEFINE d == [c EXCEPT !.approvals = Approvals(c, a)]
  <2>1. /\ c \in PendingEvent
        /\ \A r \in ProductId : r # q => pending'[r] = pending[r]
        /\ \/ /\ Cardinality(Members(c.approvals) \cup {a}) >= c.required_signatures
              /\ pending'[q] = pending[q] \ {c}
              /\ events'[q] = Append(events[q], c.event)
           \/ pending'[q] = (pending[q] \ {c}) \cup {d}
    BY <1>3, ApproveOutcomes
  <2>2. d.id = c.id
    BY <2>1 DEF PendingEvent
  <2> HIDE DEF d
  <2>3. q = p /\ c = e
    BY <2>1
  <2>4. /\ Cardinality(Members(e.approvals) \cup {a}) >= e.required_signatures
        /\ events'[p] = Append(events[p], e.event)
    BY <2>1, <2>2, <2>3
  <2>5. SignsNow(p, a) /\ now <= e.expiration
    BY <1>3, <2>3, ApproverSigns
  <2> QED
    BY <2>4, <2>5 DEF PendingLeaves
<1>4. ASSUME NEW q \in ProductId, CleanupExpiredEvents(q)
      PROVE  PendingLeaves(p, e)
  <2>1. pending' = [pending EXCEPT ![q] = {d \in @ : now <= d.expiration}]
        /\ events' = events
    BY <1>4 DEF CleanupExpiredEvents
  <2>2. ~(now <= e.expiration)
    BY <2>1 DEF TypeOK
  <2>3. now \in Nat /\ e.expiration \in Nat
    BY DEF TypeOK, PendingEvent
  <2> QED
    BY <2>1, <2>2, <2>3 DEF PendingLeaves
<1> QED
  BY <1>1, <1>2, <1>3, <1>4, QueueSteps DEF Approves

\* A pending event leaves the queue only expired, or accepted by as many
\* distinct authorized signers as it was staged for.
THEOREM LeavesByApprovalOrExpiry == Spec => PendingLeavesByApprovalOrExpiry
<1>1. TypeOK /\ PendingQueueSound /\ [Next]_vars =>
        [\A p \in ProductId : \A e \in pending[p] :
           (\A d \in pending'[p] : d.id # e.id) => PendingLeaves(p, e)]_vars
  BY StepLeaves
<1> QED
  BY <1>1, TypeCorrect, QueueSound, PTL DEF Spec, PendingLeavesByApprovalOrExpiry

-----------------------------------------------------------------------------
(* How pending events change while they wait *)

LEMMA StepEvolves ==
  ASSUME TypeOK, PendingQueueSound, [Next]_vars, NEW p \in ProductId,
         NEW e \in pending[p], NEW d \in pending'[p], d.id = e.id
  PROVE  PendingEvolves(p, e, d)
<1>0. /\ \A b, c \in pending[p] : b.id = c.id => b = c
      /\ e \in PendingEvent /\ e.id < nextPendingId[p] /\ nextPendingId[p] \in Nat
  BY DEF PendingQueueSound, PendingIdsFresh, TypeOK
<1>1. d \in pending[p] => PendingEvolves(p, e, d)
  BY <1>0 DEF PendingEvolves
<1>2. CASE QueueUnchanged
  BY <1>1, <1>2 DEF QueueUnchanged
<1>3. ASSUME NEW q \in ProductId, NEW es \in Seq(Event), Stages(q, es)
      PROVE  PendingEvolves(p, e, d)
  <2>1. d \in pending[p] \/ (q = p /\ d \in StagedEvents(p, es))
    BY <1>3 DEF Stages, StageEvents, TypeOK
  <2>2. CASE q = p /\ d \in StagedEvents(p, es)
    <3>1. d.id >= nextPendingId[p] /\ d.id \in Nat
      BY <1>3, <2>2, StagedSound
    <3> QED
      BY <1>0, <3>1
  <2> QED
    BY <1>1, <2>1, <2>2
<1>4. ASSUME NEW q \in ProductId, NEW c \in pending[q], NEW a \in Address,
             NEW k \in 0..MaxNonce, ApproveEvent(q, c, a, k)
      PROVE  PendingEvolves(p, e, d)
  <2> DEFINE g == [c EXCEPT !.approvals = Approvals(c, a)]
  <2>1. /\ c \in PendingEvent
        /\ \A r \in ProductId : r # q => pending'[r] = pending[r]
        /\ \/ pending'[q] = pending[q] \ {c}
           \/ pending'[q] = (pending[q] \ {c}) \cup {g}
    BY <1>4, ApproveOutcomes, ZenonT(40)
  <2>2. CASE q = p /\ d = g
    <3>1. c \in PendingEvent /\ g.id = c.id
      BY <2>1 DEF PendingEvent
    <3>2. c = e
      BY <1>0, <2>2, <3>1
    <3>3. /\ d.event = e.event
          /\ d.required_signatures = e.required_signatures
          /\ d.expiration = e.expiration
          /\ d.approvals = Approvals(e, a)
      BY <2>2, <3>1, <3>2 DEF PendingEvent
    <3>4. SignsNow(p, a)
      BY <1>4, <2>2, ApproverSigns
    <3> QED
      BY <3>3, <3>4 DEF PendingEvolves, Approvals
  <2>3. d \in pending[p] \/ (q = p /\ d = g)
    <3> HIDE DEF g
    <3> QED
      BY <2>1
  <2> QED
    BY <1>1, <2>2, <2>3
<1>5. ASSUME NEW q \in ProductId, CleanupExpiredEvents(q)
      PROVE  PendingEvolves(p, e, d)
  <2>1. d \in pending[p]
    BY <1>5 DEF CleanupExpiredEvents, TypeOK
  <2> QED
    BY <1>1, <2>1
<1> QED
  BY <1>2, <1>3, <1>4, <1>5, QueueSteps DEF Approves

\* Whatever becomes of its product, a pending event keeps its content, quorum,
\* deadline and approvals, and gains approvals only from who signs them.
THEOREM ChangesOnlyBySignedApproval == Spec => PendingChangesOnlyBySignedApproval
<1>1. TypeOK /\ PendingQueueSound /\ [Next]_vars =>
        [\A p \in ProductId : \A e \in pending[p], d \in pending'[p] :
           d.id = e.id => PendingEvolves(p, e, d)]_vars
  BY StepEvolves
<1> QED
  BY <1>1, TypeCorrect, QueueSound, PTL DEF Spec, PendingChangesOnlyBySignedApproval

-----------------------------------------------------------------------------
(* The contract implements the approval ledger *)

\* The cardinality the ledger speaks of is the one of FiniteSets.
LEMMA LedgerCardinality ==
  ASSUME NEW p, NEW S
  PROVE  Ledger(p)!Cardinality(S) = Cardinality(S)
BY DEF Ledger!Cardinality, Cardinality

LEMMA MembersOfOne ==
  ASSUME NEW x
  PROVE  Members(<<x>>) = {x}
BY DEF Members

\* Different pending events are different proposals.
LEMMA ProposalImage ==
  ASSUME PendingQueueSound, NEW p \in ProductId, NEW c \in pending[p]
  PROVE  {ProposalOf(e) : e \in pending[p] \ {c}}
           = {ProposalOf(e) : e \in pending[p]} \ {ProposalOf(c)}
<1>1. \A e \in pending[p] : e # c => ProposalOf(e) # ProposalOf(c)
  <2> SUFFICES ASSUME NEW e \in pending[p], ProposalOf(e) = ProposalOf(c)
               PROVE  e = c
    OBVIOUS
  <2>1. e.id = c.id
    BY DEF ProposalOf
  <2> QED
    BY <2>1 DEF PendingQueueSound, PendingIdsFresh
<1> QED
  BY <1>1

LEMMA LedgerStutter ==
  ASSUME NEW p \in ProductId, pending'[p] = pending[p],
         nextPendingId'[p] = nextPendingId[p],
         provenanceRoot'[p] = provenanceRoot[p], now' = now
  PROVE  Ledger(p)!LedgerStep
BY DEF Ledger!LedgerStep, Ledger!ledgerVars

\* The events record_event stages are proposals opened under the next numbers.
LEMMA StagedProposals ==
  ASSUME TypeOK, NEW p \in ProductId, NEW es \in Seq(Event), Stages(p, es)
  PROVE  LET New == {ProposalOf(e) : e \in StagedEvents(p, es)} IN
         /\ {d.id : d \in New} = nextPendingId[p]..(nextPendingId[p] + Len(es) - 1)
         /\ Cardinality(New) = Len(es)
         /\ \A d \in New : d.signers = {signer'} /\ d.quorum > 1 /\ d.deadline >= now
<1> DEFINE n == Len(es)
           first == nextPendingId[p]
           staged(i) == NewPending(first + i - 1, es[i], product[p].required_signatures)
           New == {ProposalOf(e) : e \in StagedEvents(p, es)}
           f == [i \in 1..n |-> ProposalOf(staged(i))]
<1>0. \A i \in 1..n : es[i].actor = signer'
  BY DEF Stages, SignedBySender
<1>1. n \in Nat /\ first \in Nat /\ now \in Nat
  BY LenProperties DEF TypeOK
<1>2. New = {f[i] : i \in 1..n}
  BY DEF StagedEvents
<1>3. \A i \in 1..n :
        /\ f[i].id = first + i - 1
        /\ f[i].signers = Members(<<es[i].actor>>)
        /\ f[i].quorum = product[p].required_signatures
        /\ f[i].deadline = now + ExpirationWindow
  BY DEF ProposalOf, NewPending
<1> HIDE DEF New, f, n, first, staged
<1>4. {d.id : d \in New} = first..(first + n - 1)
  <2>0. \A i \in 1..n : f[i].id = first + i - 1
    BY <1>3
  <2>1. ASSUME NEW d \in New
        PROVE  d.id \in first..(first + n - 1)
    <3>1. PICK i \in 1..n : d = f[i]
      BY <1>2
    <3>2. d.id = first + i - 1
      BY <2>0, <3>1
    <3> QED
      BY <1>1, <3>2
  <2>2. ASSUME NEW k \in first..(first + n - 1)
        PROVE  \E d \in New : d.id = k
    <3>1. k - first + 1 \in 1..n
      BY <1>1
    <3>2. f[k - first + 1].id = k
      <4> DEFINE i == k - first + 1
      <4>1. i \in 1..n
        BY <3>1
      <4> HIDE DEF i
      <4>2. f[i].id = first + i - 1
        BY <2>0, <4>1
      <4>3. first + i - 1 = k
        BY <1>1 DEF i
      <4> QED
        BY <4>2, <4>3 DEF i
    <3> QED
      BY <1>2, <3>1, <3>2
  <2> QED
    BY <2>1, <2>2
<1>5. Cardinality(New) = n
  <2>1. f \in Bijection(1..n, New)
    <3>1. f \in [1..n -> New]
      BY <1>2 DEF f
    <3>2. \A i, j \in 1..n : f[i] = f[j] => i = j
      <4> SUFFICES ASSUME NEW i \in 1..n, NEW j \in 1..n, f[i] = f[j]
                   PROVE  i = j
        OBVIOUS
      <4>1. f[i].id = first + i - 1 /\ f[j].id = first + j - 1
        BY <1>3
      <4> QED
        BY <1>1, <4>1
    <3>3. \A d \in New : \E i \in 1..n : f[i] = d
      BY <1>2
    <3> QED
      BY <3>1, <3>2, <3>3 DEF Bijection, Injection, Surjection, IsInjective
  <2> QED
    BY <1>1, <2>1, FS_CountingElements DEF ExistsBijection
<1>6. ASSUME NEW d \in New
      PROVE  d.signers = {signer'} /\ d.quorum > 1 /\ d.deadline >= now
  <2>1. PICK i \in 1..n : d = f[i]
    BY <1>2
  <2>2. d.signers = {signer'}
    <3>1. es[i].actor = signer'
      BY <1>0
    <3>2. d.signers = {es[i].actor}
      BY <1>3, <2>1, MembersOfOne
    <3> QED
      BY <3>1, <3>2
  <2>3. d.quorum > 1
    BY <1>3, <2>1 DEF Stages
  <2>4. d.deadline >= now
    <3>1. d.deadline = now + ExpirationWindow
      BY <1>3, <2>1
    <3> QED
      BY <1>1, <3>1, WindowAssumption
  <2> QED
    BY <2>2, <2>3, <2>4
<1> QED
  BY <1>4, <1>5, <1>6 DEF New, n, first

LEMMA StageOpens ==
  ASSUME TypeOK, PendingQueueSound, NEW p \in ProductId, NEW es \in Seq(Event),
         Stages(p, es)
  PROVE  Ledger(p)!LedgerStep
<1> DEFINE New == {ProposalOf(e) : e \in StagedEvents(p, es)}
           Old == {ProposalOf(e) : e \in pending[p]}
<1>1. /\ pending'[p] = pending[p] \cup StagedEvents(p, es)
      /\ nextPendingId'[p] = nextPendingId[p] + Len(es)
      /\ provenanceRoot' = provenanceRoot /\ now' = now
      /\ Len(es) \in Nat /\ nextPendingId[p] \in Nat
  BY LenProperties DEF Stages, StageEvents, TypeOK
<1>2. /\ {d.id : d \in New} = nextPendingId[p]..(nextPendingId[p] + Len(es) - 1)
      /\ Cardinality(New) = Len(es)
      /\ \A d \in New : d.signers = {signer'} /\ d.quorum > 1 /\ d.deadline >= now
  BY StagedProposals
<1>3. {ProposalOf(e) : e \in pending'[p]} = Old \cup New
  BY <1>1
<1>4. \A d \in Old : d.id \in Nat /\ d.id < nextPendingId[p]
  <2>1. \A e \in pending[p] : e.id \in Nat /\ e.id < nextPendingId[p]
    BY DEF TypeOK, PendingEvent, PendingQueueSound, PendingIdsFresh
  <2> QED
    BY <2>1 DEF ProposalOf
<1> HIDE DEF New, Old
<1>5. (Old \cup New) \ Old = New
  <2>1. \A d \in New : d.id \in nextPendingId[p]..(nextPendingId[p] + Len(es) - 1)
    BY <1>2
  <2> QED
    BY <1>1, <1>4, <2>1
<1>6. CASE Len(es) = 0
  <2>1. StagedEvents(p, es) = {}
    BY <1>6 DEF StagedEvents
  <2> QED
    BY <1>1, <1>6, <2>1, LedgerStutter
<1>7. CASE Len(es) # 0
  <2>1. nextPendingId'[p] > nextPendingId[p]
        /\ nextPendingId'[p] - 1 = nextPendingId[p] + Len(es) - 1
        /\ nextPendingId'[p] - nextPendingId[p] = Len(es)
    BY <1>1, <1>7
  <2>2. Ledger(p)!Open
    BY <1>1, <1>2, <1>3, <1>5, <2>1, LedgerCardinality DEF Ledger!Open, Old
  <2> QED
    BY <2>2 DEF Ledger!LedgerStep, Ledger!LedgerNext
<1> QED
  BY <1>6, <1>7

LEMMA ApproveSigns ==
  ASSUME TypeOK, PendingQueueSound, NEW p \in ProductId, NEW c \in pending[p],
         NEW a \in Address, NEW k \in 0..MaxNonce, ApproveEvent(p, c, a, k)
  PROVE  Ledger(p)!LedgerStep
<1> DEFINE g == [c EXCEPT !.approvals = Approvals(c, a)]
           Old == {ProposalOf(e) : e \in pending[p]}
           proposal == ProposalOf(c)
<1>1. /\ nextPendingId' = nextPendingId /\ now <= c.expiration /\ now' = now
      /\ c \in PendingEvent /\ SoundPending(c) /\ signer' = a
  BY ApproverSigns, ApproveOutcomes DEF ApproveEvent
<1>2. \/ /\ Cardinality(Members(c.approvals) \cup {a}) >= c.required_signatures
         /\ pending'[p] = pending[p] \ {c}
         /\ provenanceRoot'[p] = Append(provenanceRoot[p], c.event)
      \/ /\ Cardinality(Members(c.approvals) \cup {a}) < c.required_signatures
         /\ pending'[p] = (pending[p] \ {c}) \cup {g}
         /\ provenanceRoot' = provenanceRoot
  BY ApproveOutcomes, ZenonT(40)
<1>3. /\ proposal \in Old
      /\ proposal.signers = Members(c.approvals) /\ proposal.subject = c.event
      /\ proposal.quorum = c.required_signatures /\ proposal.deadline = c.expiration
  BY DEF ProposalOf
<1>4. {ProposalOf(e) : e \in pending[p] \ {c}} = Old \ {proposal}
  BY ProposalImage
<1>5. ProposalOf(g) = [proposal EXCEPT !.signers = @ \cup {a}]
  <2>1. /\ g.id = c.id /\ g.event = c.event /\ g.expiration = c.expiration
        /\ g.required_signatures = c.required_signatures
        /\ g.approvals = Approvals(c, a)
    BY <1>1 DEF PendingEvent
  <2>2. Members(Approvals(c, a)) = Members(c.approvals) \cup {a}
    BY <1>1, ApprovalsGrow
  <2> HIDE DEF g
  <2> QED
    BY <2>1, <2>2 DEF ProposalOf
<1>6. CASE /\ Cardinality(Members(c.approvals) \cup {a}) >= c.required_signatures
           /\ pending'[p] = pending[p] \ {c}
           /\ provenanceRoot'[p] = Append(provenanceRoot[p], c.event)
  <2>1. Ledger(p)!Accept(proposal, a)
    BY <1>1, <1>3, <1>4, <1>6, LedgerCardinality DEF Ledger!Accept
  <2> QED
    BY <1>3, <2>1 DEF Ledger!LedgerStep, Ledger!LedgerNext
<1>7. CASE /\ Cardinality(Members(c.approvals) \cup {a}) < c.required_signatures
           /\ pending'[p] = (pending[p] \ {c}) \cup {g}
           /\ provenanceRoot' = provenanceRoot
  <2>1. {ProposalOf(e) : e \in pending'[p]} = (Old \ {proposal}) \cup {ProposalOf(g)}
    <3> HIDE DEF g, proposal, Old
    <3> QED
      BY <1>4, <1>7
  <2>2. Ledger(p)!Sign(proposal, a)
    <3> HIDE DEF g
    <3> QED
      BY <1>1, <1>3, <1>5, <1>7, <2>1, LedgerCardinality DEF Ledger!Sign
  <2> QED
    BY <1>3, <2>2 DEF Ledger!LedgerStep, Ledger!LedgerNext
<1> QED
  BY <1>2, <1>6, <1>7

LEMMA CleanupDrops ==
  ASSUME TypeOK, NEW p \in ProductId, CleanupExpiredEvents(p)
  PROVE  Ledger(p)!LedgerStep
<1>1. /\ pending'[p] = {e \in pending[p] : now <= e.expiration}
      /\ UNCHANGED <<nextPendingId, provenanceRoot, now>>
  BY DEF CleanupExpiredEvents, TypeOK
<1>2. \A e \in pending[p] : ProposalOf(e).deadline = e.expiration
  BY DEF ProposalOf
<1>3. {ProposalOf(e) : e \in pending'[p]}
        = {d \in {ProposalOf(e) : e \in pending[p]} : now <= d.deadline}
  BY <1>1, <1>2
<1>4. Ledger(p)!Drop
  BY <1>1, <1>3 DEF Ledger!Drop
<1> QED
  BY <1>4 DEF Ledger!LedgerStep, Ledger!LedgerNext

LEMMA StepLedger ==
  ASSUME TypeOK, PendingQueueSound, [Next]_vars, NEW p \in ProductId
  PROVE  Ledger(p)!LedgerStep
<1>1. CASE QueueUnchanged
  <2>1. CASE now' = now
    BY <1>1, <2>1, LedgerStutter DEF QueueUnchanged
  <2>2. CASE now' > now
    BY <1>1, <2>2 DEF QueueUnchanged, Ledger!Pass, Ledger!LedgerNext, Ledger!LedgerStep
  <2> QED
    BY <1>1, <2>1, <2>2 DEF QueueUnchanged
<1>2. ASSUME NEW q \in ProductId, NEW es \in Seq(Event), Stages(q, es)
      PROVE  Ledger(p)!LedgerStep
  <2>1. CASE q = p
    BY <1>2, <2>1, StageOpens
  <2>2. CASE q # p
    <3>1. /\ pending'[p] = pending[p] /\ nextPendingId'[p] = nextPendingId[p]
          /\ provenanceRoot' = provenanceRoot /\ now' = now
      BY <1>2, <2>2 DEF Stages, StageEvents, TypeOK
    <3> QED
      BY <3>1, LedgerStutter
  <2> QED
    BY <2>1, <2>2
<1>3. ASSUME NEW q \in ProductId, NEW c \in pending[q], NEW a \in Address,
             NEW k \in 0..MaxNonce, ApproveEvent(q, c, a, k)
      PROVE  Ledger(p)!LedgerStep
  <2>1. CASE q = p
    BY <1>3, <2>1, ApproveSigns
  <2>2. CASE q # p
    <3>1. pending'[p] = pending[p] /\ provenanceRoot'[p] = provenanceRoot[p]
      BY <1>3, <2>2, ApproveOutcomes
    <3>2. nextPendingId' = nextPendingId /\ now' = now
      BY <1>3 DEF ApproveEvent
    <3> QED
      BY <3>1, <3>2, LedgerStutter
  <2> QED
    BY <2>1, <2>2
<1>4. ASSUME NEW q \in ProductId, CleanupExpiredEvents(q)
      PROVE  Ledger(p)!LedgerStep
  <2>1. CASE q = p
    BY <1>4, <2>1, CleanupDrops
  <2>2. CASE q # p
    <3>1. pending'[p] = pending[p] /\ UNCHANGED <<nextPendingId, provenanceRoot, now>>
      BY <1>4, <2>2 DEF CleanupExpiredEvents, TypeOK
    <3> QED
      BY <3>1, LedgerStutter
  <2> QED
    BY <2>1, <2>2
<1> QED
  BY <1>1, <1>2, <1>3, <1>4, QueueSteps DEF Approves

\* For every product, the pending events and the provenance root behave like
\* the approval ledger: each step of the contract opens, signs, accepts, drops,
\* lets time pass, or changes nothing of it.
THEOREM RefinesApprovalLedger == Spec => ImplementsApprovalLedger
<1>1. Init => \A p \in ProductId : Ledger(p)!LedgerInit
  BY DEF Init, Ledger!LedgerInit
<1>2. TypeOK /\ PendingQueueSound /\ [Next]_vars =>
        [\A p \in ProductId : Ledger(p)!LedgerStep]_vars
  BY StepLedger
<1> QED
  BY <1>1, <1>2, TypeCorrect, QueueSound, PTL DEF Spec, ImplementsApprovalLedger
=============================================================================
