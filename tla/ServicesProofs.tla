---------------------------- MODULE ServicesProofs ----------------------------
(***************************************************************************)
(* What the services promise, for any number of alerts, policies, products *)
(* and requests, and for any thresholds and timeouts of the breakers.       *)
(***************************************************************************)
EXTENDS Services, SequenceTheorems, FiniteSetTheorems, WellFoundedInduction, TLAPS

-----------------------------------------------------------------------------
(* CircuitBreaker, resilience.ts *)

\* Every state the breaker, its clock and its calls can be in (resilience.ts:117-131).
LEMMA BreakerTyped == BreakerSpec => []BreakerTypeOK
<1>1. BreakerInit => BreakerTypeOK
  <2> SUFFICES ASSUME BreakerInit PROVE BreakerTypeOK
    OBVIOUS
  <2>1. 0 \in 0..MaxAttempts
    BY BreakerAssumption
  <2>2. running \in [Dependent -> 0..MaxAttempts]
    BY <2>1 DEF BreakerInit
  <2>3. breakerNow \in Nat /\ openedAt \in Int /\ failures \in Nat /\ streak \in Nat /\ lastFailure \in Int
    BY BreakerAssumption DEF BreakerInit
  <2> QED
    BY <2>2, <2>3 DEF BreakerInit, BreakerTypeOK
<1>2. BreakerTypeOK /\ [BreakerNext]_breakerVars => BreakerTypeOK'
  <2> SUFFICES ASSUME BreakerTypeOK, [BreakerNext]_breakerVars
               PROVE  BreakerTypeOK'
    OBVIOUS
  <2> USE BreakerAssumption DEF BreakerTypeOK
  <2>1. ASSUME NEW c \in Dependent, BeginCall(c) PROVE BreakerTypeOK'
    BY <2>1 DEF BeginCall
  <2>2. ASSUME NEW c \in Dependent, Succeed(c) PROVE BreakerTypeOK'
    BY <2>2 DEF Succeed, OnSuccess, Settle
  <2>3. ASSUME NEW c \in Dependent, Fail(c) PROVE BreakerTypeOK'
    BY <2>3 DEF Fail, OnFailure, Settle
  <2>4. ASSUME NEW c \in Dependent, RetryCall(c) PROVE BreakerTypeOK'
    BY <2>4 DEF RetryCall
  <2>5. CASE BreakerTick
    BY <2>5 DEF BreakerTick
  <2>6. CASE UNCHANGED breakerVars
    BY <2>6 DEF breakerVars
  <2> QED
    BY <2>1, <2>2, <2>3, <2>4, <2>5, <2>6 DEF BreakerNext
<1> QED
  BY <1>1, <1>2, PTL DEF BreakerSpec

\* While it probes, the rest after the last failure is over; no failure lies in
\* the future.
Rested ==
  /\ lastFailure <= breakerNow
  /\ state = "half-open" => breakerNow - openedAt >= ResetTimeout

BreakerInv == ClosedBelowThreshold /\ Rested /\ ~tooEarly

\* No step of a call or of the clock breaks the invariant.
LEMMA BreakerStep ==
  BreakerTypeOK /\ BreakerInv /\ [BreakerNext]_breakerVars => BreakerInv'
<1> SUFFICES ASSUME BreakerTypeOK, BreakerInv, [BreakerNext]_breakerVars
             PROVE  BreakerInv'
  OBVIOUS
<1> USE BreakerAssumption DEF BreakerTypeOK, BreakerInv, ClosedBelowThreshold, Rested
<1>1. ASSUME NEW c \in Dependent, BeginCall(c) PROVE BreakerInv'
  BY <1>1 DEF BeginCall, Opens
<1>2. ASSUME NEW c \in Dependent, Succeed(c) PROVE BreakerInv'
  BY <1>2 DEF Succeed, OnSuccess, Settle
<1>3. ASSUME NEW c \in Dependent, Fail(c) PROVE BreakerInv'
  BY <1>3 DEF Fail, OnFailure, Settle, Trips
<1>4. ASSUME NEW c \in Dependent, RetryCall(c) PROVE BreakerInv'
  BY <1>4 DEF RetryCall
<1>5. CASE BreakerTick
  BY <1>5 DEF BreakerTick
<1>6. CASE UNCHANGED breakerVars
  BY <1>6 DEF breakerVars
<1> QED
  BY <1>1, <1>2, <1>3, <1>4, <1>5, <1>6 DEF BreakerNext

\* When the threshold's number of calls failed with no success in between, none
\* begins before the reset timeout has passed since the last failure, whatever
\* outcomes of older calls arrive meanwhile (CircuitBreaker, resilience.ts:137-167).
THEOREM BreakerRests == BreakerSpec => []RestsAfterFailures
<1>1. BreakerInit => BreakerInv
  BY BreakerAssumption DEF BreakerInit, BreakerInv, ClosedBelowThreshold, Rested
<1>2. BreakerInv => RestsAfterFailures
  BY DEF BreakerInv, RestsAfterFailures
<1> QED
  BY <1>1, <1>2, BreakerTyped, BreakerStep, PTL DEF BreakerSpec

-----------------------------------------------------------------------------
(* The second breaker, rateLimit.ts *)

\* Successes are counted only while it probes, and each has its proof.
ProbeInv ==
  /\ probeState \in {"CLOSED", "OPEN", "HALF_OPEN"}
  /\ successes \in Nat /\ proofs \in Nat
  /\ probeState # "HALF_OPEN" => successes = 0
  /\ successes <= proofs

\* No outcome and no probe breaks the count.
LEMMA ProbeStep == ProbeInv /\ [ProbeNext]_probeVars => ProbeInv'
<1> SUFFICES ASSUME ProbeInv, [ProbeNext]_probeVars PROVE ProbeInv'
  OBVIOUS
<1> USE DEF ProbeInv
<1>1. ASSUME NEW c \in Prober, BeginProbe(c) PROVE ProbeInv'
  BY <1>1 DEF BeginProbe
<1>2. ASSUME NEW c \in Prober, ProbeSucceeds(c) PROVE ProbeInv'
  BY <1>2 DEF ProbeSucceeds
<1>3. ASSUME NEW c \in Prober, ProbeFails(c) PROVE ProbeInv'
  BY <1>3 DEF ProbeFails, ResetSuccesses
<1>4. CASE ProbeTick
  BY <1>4 DEF ProbeTick
<1>5. CASE UNCHANGED probeVars
  BY <1>5 DEF probeVars
<1> QED
  BY <1>1, <1>2, <1>3, <1>4, <1>5 DEF ProbeNext

\* The second breaker closes only after the required successes in a row of its
\* own half-open state (CircuitBreaker, rateLimit.ts:257-302).
THEOREM ProbesProve == ProbeSpec => ClosesAfterProofs
<1>1. ProbeInit => ProbeInv
  BY DEF ProbeInit, ProbeInv
<1>2. ProbeInv /\ [ProbeNext]_probeVars
        => [probeState # "CLOSED" /\ probeState' = "CLOSED" => proofs' >= SuccessThreshold]_probeVars
  <2> SUFFICES ASSUME ProbeInv, ProbeNext, probeState # "CLOSED", probeState' = "CLOSED"
               PROVE  proofs' >= SuccessThreshold
    BY DEF probeVars
  <2> PICK c \in Prober : ProbeSucceeds(c)
    BY DEF ProbeNext, BeginProbe, ProbeFails, ProbeTick
  <2> QED
    BY ProbeAssumption DEF ProbeInv, ProbeSucceeds
<1> QED
  BY <1>1, <1>2, ProbeStep, PTL DEF ProbeSpec, ClosesAfterProofs

-----------------------------------------------------------------------------
(* A behaviour of the services is one of each breaker. *)

\* The breakers' part of the services is a behaviour of the breakers, whatever
\* service an instance exercises (Only).
LEMMA BreakersRun == Spec => BreakerSpec /\ ProbeSpec
<1>1. Init => BreakerInit /\ ProbeInit
  BY DEF Init
<1>2. [Next]_servicesVars => [BreakerNext]_breakerVars /\ [ProbeNext]_probeVars
  <2> SUFFICES ASSUME [Next]_servicesVars
               PROVE  (BreakerNext \/ UNCHANGED breakerVars) /\ (ProbeNext \/ UNCHANGED probeVars)
    OBVIOUS
  <2> QED
    BY DEF Next, Only, servicesVars
<1> QED
  BY <1>1, <1>2, PTL DEF Spec, BreakerSpec, ProbeSpec

\* Both breakers rest and close as they promise wherever they are used
\* (resilience.ts:137-167; rateLimit.ts:257-302).
THEOREM BreakersKeepTheirWord == Spec => []RestsAfterFailures /\ ClosesAfterProofs
  BY BreakersRun, BreakerRests, ProbesProve

-----------------------------------------------------------------------------
(* Emergency alerts *)

LogEntry == [recipient : Recipient, channel : Channel,
             status : {"pending", "delivered", "acknowledged"}]
AlertRecord == [severity : Severity, status : {"active", "acknowledged", "resolved", "cancelled"},
                deliveryLog : SUBSET LogEntry, acknowledgedBy : Recipient \cup {NoOne}]
AlertsTyped == alerts \in Seq(AlertRecord)

\* What each operation writes is an alert, and its status moves forward.
Forward(i) ==
  /\ alerts'[i].status = "active" => alerts[i].status = "active"
  /\ alerts'[i].status = "acknowledged" => alerts[i].status \in {"active", "acknowledged"}

\* Writing one alert back keeps the types and moves only that alert
\* (emergencyAlerts.ts:144-186).
LEMMA AlertSet ==
  ASSUME AlertsTyped, NEW i \in DOMAIN alerts, NEW a \in AlertRecord,
         alerts' = [alerts EXCEPT ![i] = a],
         a.status = "active" => alerts[i].status = "active",
         a.status = "acknowledged" => alerts[i].status \in {"active", "acknowledged"}
  PROVE  AlertsTyped' /\ \A j \in DOMAIN alerts : Forward(j)
  BY DEF AlertsTyped, Forward

\* Each operation on the alerts moves every status forward (emergencyAlerts.ts:86-186).
LEMMA AlertStep ==
  ASSUME AlertsTyped, AlertNext
  PROVE  AlertsTyped' /\ \A j \in DOMAIN alerts : Forward(j)
<1>1. CASE PostAlert
  <2>1. PICK sev \in Severity, rs \in SUBSET Recipient, cs \in SUBSET Channel : CreateAlert(sev, rs, cs)
    BY <1>1 DEF PostAlert
  <2> DEFINE a == [severity |-> sev, status |-> "active", acknowledgedBy |-> NoOne,
                   deliveryLog |-> {[recipient |-> r, channel |-> c, status |-> "pending"] :
                                     r \in rs, c \in cs}]
  <2>2. a \in AlertRecord
    <3>1. a.deliveryLog \in SUBSET LogEntry
      BY DEF LogEntry
    <3> QED
      BY <3>1 DEF AlertRecord
  <2>3. alerts' = Append(alerts, a)
    BY <2>1 DEF CreateAlert
  <2> HIDE DEF a
  <2> QED
    BY <2>2, <2>3 DEF AlertsTyped, Forward
<1>2. ASSUME NEW i \in DOMAIN alerts, NEW r \in Recipient, AcknowledgeAlert(i, r)
      PROVE  AlertsTyped' /\ \A j \in DOMAIN alerts : Forward(j)
  <2> DEFINE log == AcknowledgedLog(alerts[i].deliveryLog, r)
             a == [alerts[i] EXCEPT !.status = "acknowledged", !.acknowledgedBy = r, !.deliveryLog = log]
  <2>1. alerts[i] \in AlertRecord /\ alerts[i].status = "active"
    BY <1>2 DEF AcknowledgeAlert, IsActive, AlertsTyped
  <2>2. log \in SUBSET LogEntry
    <3>1. \A d \in LogEntry : [d EXCEPT !.status = "acknowledged"] \in LogEntry
      BY DEF LogEntry
    <3> QED
      BY <2>1, <3>1 DEF AlertRecord, AcknowledgedLog
  <2>3. alerts' = [alerts EXCEPT ![i] = a]
    BY <1>2 DEF AcknowledgeAlert
  <2> HIDE DEF log
  <2>4. a.status = "acknowledged"
    BY <2>1 DEF AlertRecord
  <2>5. a \in AlertRecord
    <3>1. \A x \in AlertRecord : [x EXCEPT !.status = "acknowledged"] \in AlertRecord
      BY DEF AlertRecord
    <3>2. \A x \in AlertRecord : [x EXCEPT !.acknowledgedBy = r] \in AlertRecord
      BY DEF AlertRecord
    <3>3. \A x \in AlertRecord : [x EXCEPT !.deliveryLog = log] \in AlertRecord
      BY <2>2 DEF AlertRecord
    <3>4. a = [[[alerts[i] EXCEPT !.status = "acknowledged"] EXCEPT !.acknowledgedBy = r]
                 EXCEPT !.deliveryLog = log]
      BY <2>1
    <3> HIDE DEF a
    <3> QED
      BY <2>1, <3>1, <3>2, <3>3, <3>4
  <2> HIDE DEF a
  <2> QED
    BY <2>1, <2>3, <2>4, <2>5, AlertSet
<1>3. ASSUME NEW i \in DOMAIN alerts, NEW s \in {"resolved", "cancelled"},
             alerts' = [alerts EXCEPT ![i].status = s]
      PROVE  AlertsTyped' /\ \A j \in DOMAIN alerts : Forward(j)
  <2> DEFINE a == [alerts[i] EXCEPT !.status = s]
  <2>1. a \in AlertRecord /\ a.status = s
    <3>1. alerts[i] \in AlertRecord
      BY DEF AlertsTyped
    <3> QED
      BY <3>1 DEF AlertRecord
  <2>2. alerts' = [alerts EXCEPT ![i] = a]
    BY <1>3
  <2> HIDE DEF a
  <2> QED
    BY <2>1, <2>2, AlertSet
<1>4. CASE UNCHANGED alerts
  BY <1>4 DEF AlertsTyped, Forward
<1> QED
  BY <1>1, <1>2, <1>3, <1>4
     DEF AlertNext, PatchAlert, DeleteAlert, ResolveAlert, CancelAlert, RenderBanner, Dismiss

\* An alert never becomes active again, nor acknowledged after it was resolved or
\* cancelled (emergencyAlerts.ts:144-186).
THEOREM AlertsForward == Spec => AlertsMoveForward
<1>1. Init => AlertsTyped
  BY DEF Init, AlertInit, AlertsTyped
<1>2. ASSUME AlertsTyped, [Next]_servicesVars
      PROVE  AlertNext \/ UNCHANGED alertVars
  BY <1>2 DEF Next, Only, servicesVars
<1>3. AlertsTyped /\ [Next]_servicesVars => AlertsTyped'
  BY <1>2, AlertStep DEF alertVars, AlertsTyped
<1>4. AlertsTyped /\ [Next]_servicesVars
        => [\A i \in DOMAIN alerts :
              /\ alerts'[i].status = "active" => alerts[i].status = "active"
              /\ alerts'[i].status = "acknowledged" => alerts[i].status \in {"active", "acknowledged"}
           ]_alertVars
  BY <1>2, AlertStep DEF Forward
<1> QED
  BY <1>1, <1>3, <1>4, PTL DEF Spec, AlertsMoveForward

-----------------------------------------------------------------------------
(* Insurance: a policy with a claim is no longer active. *)

ClaimRecord == [hash : BOOLEAN, status : {"pending", "verified", "rejected"}]
Policy == [product : Insured, validFrom : Nat, validUntil : Nat,
           status : {"active", "claimed", "voided"}, small : BOOLEAN, claims : Seq(ClaimRecord)]
Sound(c) == c.claims # <<>> => c.status # "active"
InsuranceInv ==
  /\ insuranceNow \in Nat
  /\ coverage \in [Site -> Seq(Policy)]
  /\ \A s \in Site : \A i \in DOMAIN coverage[s] : Sound(coverage[s][i])

\* Changing one policy for another that is sound keeps it.
LEMMA PolicySet ==
  ASSUME InsuranceInv, NEW s \in Site, NEW i \in DOMAIN coverage[s], NEW c \in Policy, Sound(c),
         coverage' = [coverage EXCEPT ![s] = [@ EXCEPT ![i] = c]], insuranceNow' = insuranceNow
  PROVE  InsuranceInv'
<1>1. coverage[s] \in Seq(Policy)
  BY DEF InsuranceInv
<1>2. [coverage[s] EXCEPT ![i] = c] \in Seq(Policy) /\ DOMAIN [coverage[s] EXCEPT ![i] = c] = DOMAIN coverage[s]
  BY <1>1
<1>3. coverage' = [coverage EXCEPT ![s] = [coverage[s] EXCEPT ![i] = c]]
  OBVIOUS
<1>4. coverage' \in [Site -> Seq(Policy)] /\ coverage'[s] = [coverage[s] EXCEPT ![i] = c]
      /\ \A t \in Site \ {s} : coverage'[t] = coverage[t]
  BY <1>2, <1>3 DEF InsuranceInv
<1>5. ASSUME NEW t \in Site, NEW j \in DOMAIN coverage'[t] PROVE Sound(coverage'[t][j])
  <2>1. CASE t = s
    BY <1>2, <1>4, <2>1 DEF InsuranceInv
  <2>2. CASE t # s
    BY <1>4, <2>2 DEF InsuranceInv
  <2> QED
    BY <2>1, <2>2
<1> QED
  BY <1>4, <1>5 DEF InsuranceInv, Sound

\* addCoverage: the new policy has no claim.
LEMMA PolicyAdded ==
  ASSUME InsuranceInv, NEW s \in Site, NEW p \in Insured, NEW from \in Nat, NEW until \in Nat,
         NEW small \in BOOLEAN, AddCoverage(s, p, from, until, small), insuranceNow' = insuranceNow
  PROVE  InsuranceInv'
<1> DEFINE c == [product |-> p, validFrom |-> from, validUntil |-> until, status |-> "active",
                 small |-> small, claims |-> <<>>]
<1>1. c \in Policy /\ Sound(c)
  BY DEF Policy, Sound
<1>2. coverage' = [coverage EXCEPT ![s] = Append(@, c)]
  BY DEF AddCoverage
<1> HIDE DEF c
<1>3. coverage[s] \in Seq(Policy) /\ Append(coverage[s], c) \in Seq(Policy)
      /\ \A j \in DOMAIN Append(coverage[s], c) :
           Append(coverage[s], c)[j] = c \/ (j \in DOMAIN coverage[s] /\ Append(coverage[s], c)[j] = coverage[s][j])
  BY <1>1 DEF InsuranceInv
<1>4. coverage' \in [Site -> Seq(Policy)] /\ coverage'[s] = Append(coverage[s], c)
      /\ \A t \in Site \ {s} : coverage'[t] = coverage[t]
  BY <1>2, <1>3 DEF InsuranceInv
<1>5. ASSUME NEW t \in Site, NEW j \in DOMAIN coverage'[t] PROVE Sound(coverage'[t][j])
  <2>1. CASE t = s
    BY <1>1, <1>3, <1>4, <2>1 DEF InsuranceInv
  <2>2. CASE t # s
    BY <1>4, <2>2 DEF InsuranceInv
  <2> QED
    BY <2>1, <2>2
<1> QED
  BY <1>4, <1>5 DEF InsuranceInv, Sound

\* addClaimProof
LEMMA PolicyClaimed ==
  ASSUME InsuranceInv, NEW s \in Site, NEW i \in DOMAIN coverage[s], NEW hash \in BOOLEAN,
         AddClaimProof(s, i, hash), insuranceNow' = insuranceNow
  PROVE  InsuranceInv'
<1> DEFINE r == [hash |-> hash, status |-> "pending"]
           c == [coverage[s][i] EXCEPT !.claims = Append(@, r), !.status = "claimed"]
<1>1. coverage[s][i] \in Policy
  BY DEF InsuranceInv
<1>2. r \in ClaimRecord
  BY DEF ClaimRecord
<1>3. coverage' = [coverage EXCEPT ![s] = [@ EXCEPT ![i] = c]]
  BY DEF AddClaimProof, StatusOnClaim
<1> HIDE DEF r
<1>4. c.status = "claimed"
  BY <1>1 DEF Policy
<1>5. c \in Policy
  <2>1. \A x \in Policy : [x EXCEPT !.status = "claimed"] \in Policy
    BY DEF Policy
  <2>2. \A x \in Policy, q \in Seq(ClaimRecord) : [x EXCEPT !.claims = q] \in Policy
    BY DEF Policy
  <2>3. Append(coverage[s][i].claims, r) \in Seq(ClaimRecord)
    BY <1>1, <1>2 DEF Policy
  <2>4. c = [[coverage[s][i] EXCEPT !.status = "claimed"] EXCEPT !.claims = Append(coverage[s][i].claims, r)]
    BY <1>1
  <2> HIDE DEF c
  <2> QED
    BY <1>1, <2>1, <2>2, <2>3, <2>4
<1> HIDE DEF c
<1> QED
  BY <1>3, <1>4, <1>5, PolicySet DEF Sound

\* updateClaimProofStatus: a claim's status is no concern of its policy's.
LEMMA ClaimDecided ==
  ASSUME InsuranceInv, NEW s \in Site, NEW i \in DOMAIN coverage[s],
         NEW k \in DOMAIN coverage[s][i].claims, NEW status \in {"pending", "verified", "rejected"},
         UpdateClaimProofStatus(s, i, k, status), insuranceNow' = insuranceNow
  PROVE  InsuranceInv'
<1> DEFINE r == [coverage[s][i].claims[k] EXCEPT !.status = status]
           q == [coverage[s][i].claims EXCEPT ![k] = r]
           c == [coverage[s][i] EXCEPT !.claims = q]
<1>1. coverage[s][i] \in Policy
  BY DEF InsuranceInv
<1>2. coverage[s][i].claims \in Seq(ClaimRecord) /\ coverage[s][i].claims[k] \in ClaimRecord
  BY <1>1 DEF Policy
<1>3. r \in ClaimRecord
  BY <1>2 DEF ClaimRecord
<1>4. coverage' = [coverage EXCEPT ![s] = [@ EXCEPT ![i] = c]]
  BY DEF UpdateClaimProofStatus
<1> HIDE DEF r
<1>5. q \in Seq(ClaimRecord) /\ (q # <<>> => coverage[s][i].claims # <<>>)
  BY <1>2, <1>3
<1> HIDE DEF q
<1>6. c \in Policy /\ c.claims = q /\ c.status = coverage[s][i].status
  BY <1>1, <1>5 DEF Policy
<1>7. Sound(coverage[s][i])
  BY DEF InsuranceInv
<1>8. Sound(c)
  BY <1>5, <1>6, <1>7 DEF Sound
<1> HIDE DEF c
<1> QED
  BY <1>4, <1>6, <1>8, PolicySet

\* Each step of the routes, the panel and time.
LEMMA InsuranceStep ==
  ASSUME InsuranceInv, [InsuranceNext]_insuranceVars
  PROVE  InsuranceInv'
<1>1. CASE UNCHANGED <<coverage, insuranceNow>>
  BY <1>1 DEF InsuranceInv, Sound
<1>2. ASSUME NEW s \in Site, NEW p \in Insured, NEW from \in Moments, NEW until \in Moments \cup {NEVER},
             NEW small \in BOOLEAN, AddCoverage(s, p, from, until, small), insuranceNow' = insuranceNow
      PROVE  InsuranceInv'
  <2>1. from \in Nat /\ until \in Nat
    BY InsuranceAssumption DEF Moments, NEVER
  <2> QED
    BY <1>2, <2>1, PolicyAdded
<1>3. ASSUME NEW i \in DOMAIN coverage["server"], NEW k \in DOMAIN coverage["server"][i].claims,
             ProcessByRoute(i, k)
      PROVE  InsuranceInv'
  <2>1. coverage["server"][i] \in Policy
    BY DEF InsuranceInv, Site
  <2>2. coverage["server"][i].claims[k] \in ClaimRecord
    BY <2>1 DEF Policy
  <2>3. Decision(coverage["server"][i], coverage["server"][i].claims[k]) \in {"pending", "verified", "rejected"}
    BY <2>2 DEF ClaimRecord, Decision
  <2> QED
    BY <1>3, <2>3, ClaimDecided DEF ProcessByRoute, ProcessClaim, Site
<1>4. ASSUME NEW i \in DOMAIN coverage["server"], NEW k \in DOMAIN coverage["server"][i].claims,
             DecideByRoute(i, k)
      PROVE  InsuranceInv'
  BY <1>4, ClaimDecided DEF DecideByRoute, Site
<1>5. ASSUME NEW s \in Site, NEW i \in DOMAIN coverage[s], NEW hash \in BOOLEAN,
             AddClaimProof(s, i, hash), insuranceNow' = insuranceNow
      PROVE  InsuranceInv'
  BY <1>5, PolicyClaimed
<1>6. CASE InsuranceTick
  BY <1>6 DEF InsuranceTick, InsuranceInv, Sound
<1>7. ASSUME NEW i \in DOMAIN coverage["server"], CertifyByRoute(i)
      PROVE  InsuranceInv'
  BY <1>1, <1>7 DEF CertifyByRoute
<1>8. CASE InsuranceNext
  <2>1. ASSUME NEW p \in Insured, NEW from \in Moments, NEW until \in Moments \cup {NEVER},
               NEW small \in BOOLEAN, RegisterByRoute(p, from, until, small)
        PROVE  InsuranceInv'
    BY <1>2, <2>1 DEF RegisterByRoute, Site
  <2>2. ASSUME NEW p \in Insured, NEW from \in Moments, NEW until \in Moments \cup {NEVER},
               SubmitCoverage(p, from, until)
        PROVE  InsuranceInv'
    BY <1>2, <2>2 DEF SubmitCoverage, Site
  <2>3. ASSUME NEW i \in DOMAIN coverage["server"], NEW hash \in BOOLEAN, ClaimByRoute(i, hash)
        PROVE  InsuranceInv'
    BY <1>5, <2>3 DEF ClaimByRoute, Site
  <2>4. ASSUME NEW p \in Insured, NEW i \in DOMAIN coverage["browser"], SubmitClaim(p, i)
        PROVE  InsuranceInv'
    BY <1>5, <2>4 DEF SubmitClaim, Site
  <2> QED
    BY <1>3, <1>4, <1>6, <1>7, <1>8, <2>1, <2>2, <2>3, <2>4 DEF InsuranceNext
<1> QED
  BY <1>1, <1>8 DEF insuranceVars

\* A policy that covers a product has not expired and was never claimed on
\* (insuranceCoverage.ts:461-557).
THEOREM CoverIsUnclaimed == Spec => []CoveredMeansUnclaimed
<1>1. Init => InsuranceInv
  BY DEF Init, InsuranceInit, InsuranceInv
<1>2. InsuranceInv /\ [Next]_servicesVars => InsuranceInv'
  <2> SUFFICES ASSUME InsuranceInv, [Next]_servicesVars PROVE InsuranceInv'
    OBVIOUS
  <2>1. [InsuranceNext]_insuranceVars
    BY DEF Next, Only, servicesVars
  <2> QED
    BY <2>1, InsuranceStep
<1>3. InsuranceInv => CoveredMeansUnclaimed
  <2> SUFFICES ASSUME InsuranceInv, NEW s \in Site, NEW p \in Insured, NEW i \in GetActiveCoverage(s, p)
               PROVE  coverage[s][i].claims = <<>> /\ ~Expired(coverage[s][i])
    BY DEF CoveredMeansUnclaimed
  <2>1. i \in DOMAIN coverage[s] /\ coverage[s][i].status = "active"
        /\ (coverage[s][i].validUntil = NEVER \/ coverage[s][i].validUntil >= insuranceNow)
    BY DEF GetActiveCoverage, ListCoverageForProduct
  <2>2. coverage[s][i] \in Policy /\ Sound(coverage[s][i])
    BY <2>1 DEF InsuranceInv
  <2> QED
    BY <2>1, <2>2 DEF Policy, Sound, Expired, InsuranceInv
<1> QED
  BY <1>1, <1>2, <1>3, PTL DEF Spec

-----------------------------------------------------------------------------
(* Product records: a recall of a batch leaves the members behind it        *)
(* recalled, and no other request takes that back.                          *)
(***************************************************************************)
Writer == Handler \cup {NONE}
ProductRecord == [recalled : Writer, warranty : Writer, claims : SUBSET Handler, assembly : Writer]
Named == ProductId \cup Auditor \cup {BatchMembers[i] : i \in DOMAIN BatchMembers} \cup {NONE}
ServingRecord ==
  [kind : {NONE, "register", "warranty", "claim", "assembly", "batch", "auditor"},
   at : {"new", "parts", "write", "mark", "member", "recall", "create", "done", "killed"},
   product : Named, seen : ProductRecord, next : Nat,
   parts : SUBSET ProductId]

IsRecalled(i) == BatchMembers[i] \in DOMAIN products => products[BatchMembers[i]].recalled # NONE

Fits(n) ==
  /\ n.at \in {"write", "parts", "create"} => n.kind # "batch"
  /\ n.at \in {"mark", "member", "recall"} => n.kind = "batch" /\ ~Contract
  /\ n.at \in {"member", "recall"} =>
       /\ n.next \in DOMAIN BatchMembers
       /\ \A i \in DOMAIN BatchMembers : i < n.next => IsRecalled(i)
  /\ n.at = "recall" =>
       /\ n.product = BatchMembers[n.next]
       /\ n.seen.recalled # NONE => IsRecalled(n.next)
  /\ n.kind = "batch" /\ n.at = "done" /\ ~Contract => \A i \in DOMAIN BatchMembers : IsRecalled(i)

ProductsTyped ==
  /\ DOMAIN products \subseteq ProductId /\ Fixtures \subseteq DOMAIN products
  /\ products \in [DOMAIN products -> ProductRecord]

RecordsInv ==
  /\ ProductsTyped
  /\ serving \in [Handler -> ServingRecord]
  /\ \A r \in Handler : Fits(serving[r])

\* What RecordsOnlyGrow says of a step.
Grows ==
  \A p \in DOMAIN products :
    /\ p \in DOMAIN products'
    /\ products[p].recalled # NONE => products'[p].recalled # NONE
    /\ products[p].claims \subseteq products'[p].claims
    /\ products[p].warranty # NONE => products'[p].warranty # NONE
    /\ products[p].assembly # NONE => products'[p].assembly # NONE

\* A write of one record that keeps what it says.
LEMMA RecordSet ==
  ASSUME ProductsTyped, NEW p, NEW d \in ProductRecord,
         products' = [products EXCEPT ![p] = d],
         p \in DOMAIN products =>
           /\ products[p].recalled # NONE => d.recalled # NONE
           /\ products[p].claims \subseteq d.claims
           /\ products[p].warranty # NONE => d.warranty # NONE
           /\ products[p].assembly # NONE => d.assembly # NONE
  PROVE  ProductsTyped' /\ Grows
<1>1. DOMAIN products' = DOMAIN products /\ \A q \in DOMAIN products : products'[q] = IF q = p THEN d ELSE products[q]
  BY DEF ProductsTyped
<1>2. ProductsTyped'
  BY <1>1 DEF ProductsTyped
<1> QED
  BY <1>1, <1>2 DEF Grows

\* A step that leaves the products alone.
LEMMA RecordsSame == ASSUME ProductsTyped, products' = products PROVE ProductsTyped' /\ Grows
  BY DEF ProductsTyped, Grows

\* What was recalled stays recalled: members of a batch are no new products.
LEMMA RecallStays ==
  ASSUME ProductsTyped, ProductsTyped', Grows, NEW i \in DOMAIN BatchMembers, IsRecalled(i)
  PROVE  IsRecalled(i)'
<1>1. BatchMembers[i] \in DOMAIN products' => BatchMembers[i] \in DOMAIN products
  BY FixtureAssumption DEF ProductsTyped
<1> QED
  BY <1>1 DEF IsRecalled, Grows

\* One request's record changes, to one that fits the products then.
LEMMA RequestMoves ==
  ASSUME RecordsInv, ProductsTyped', Grows, source' = source, NEW r \in Handler, NEW n \in ServingRecord,
         serving' = [serving EXCEPT ![r] = n], Fits(n)'
  PROVE  RecordsInv'
<1>1. serving' \in [Handler -> ServingRecord]
  BY DEF RecordsInv
<1>2. ASSUME NEW q \in Handler PROVE Fits(serving[q])'
  <2>1. CASE q = r
    <3>1. serving'[q] = n
      BY <2>1 DEF RecordsInv
    <3> QED
      BY <3>1 DEF Fits, IsRecalled, Contract
  <2>2. CASE q # r
    <3>1. PICK m : m = serving[q]
      OBVIOUS
    <3>2. serving'[q] = m /\ Fits(m) /\ m \in ServingRecord
      BY <2>2, <3>1 DEF RecordsInv
    <3>3. (Contract <=> Contract') /\ \A i \in DOMAIN BatchMembers : IsRecalled(i) => IsRecalled(i)'
      BY RecallStays DEF RecordsInv, Contract
    <3>4. Fits(m)'
      BY <3>2, <3>3 DEF Fits
    <3> QED
      BY <3>2, <3>4 DEF Fits
  <2> QED
    BY <2>1, <2>2
<1> QED
  BY <1>1, <1>2 DEF RecordsInv

\* A step that leaves the products alone, and where the request is not (or no
\* longer) in the middle of a batch.
LEMMA OtherRequest ==
  ASSUME RecordsInv, products' = products, source' = source, NEW r \in Handler, NEW n \in ServingRecord,
         serving' = [serving EXCEPT ![r] = n],
         n.at \in {"write", "parts", "create", "done", "killed"},
         n.kind # "batch" \/ n.at = "killed" \/ (n.at = "done" /\ Contract)
  PROVE  RecordsInv' /\ Grows
<1>1. ProductsTyped' /\ Grows
  BY RecordsSame DEF RecordsInv
<1>2. Contract' = Contract
  BY DEF Contract
<1>3. Fits(n)'
  BY <1>2 DEF Fits
<1> QED
  BY <1>1, <1>3, RequestMoves

\* A request's record before it does anything.
LEMMA NobodyTyped == Nobody \in ServingRecord
<1>1. Blank \in ProductRecord
  BY DEF Blank, ProductRecord, Writer
<1> QED
  BY <1>1 DEF Nobody, ServingRecord, Named, NONE

\* Requests that open: what they read, and where they go on.
LEMMA OpenKeeps ==
  ASSUME RecordsInv, NEW r \in Handler,
         \/ \E a \in Auditor : OpenAuditor(r, a)
         \/ \E p \in ProductId, kind \in {"warranty", "claim", "assembly"}, parts \in SUBSET ProductId :
              OpenRecord(r, kind, p, parts)
  PROVE  RecordsInv' /\ Grows
<1>1. ASSUME NEW a \in Auditor, OpenAuditor(r, a) PROVE RecordsInv' /\ Grows
  <2>1. PICK at \in {"done", "create"} : serving' = [serving EXCEPT ![r] =
          [Nobody EXCEPT !.kind = "auditor", !.product = a, !.at = at]]
    BY <1>1 DEF OpenAuditor
  <2>2. PICK n : n = [Nobody EXCEPT !.kind = "auditor", !.product = a, !.at = at]
    OBVIOUS
  <2>3. n \in ServingRecord /\ n.kind = "auditor" /\ n.at = at
    BY <2>2, NobodyTyped DEF ServingRecord, Named
  <2> QED
    BY <1>1, <2>1, <2>2, <2>3, OtherRequest DEF OpenAuditor
<1>2. ASSUME NEW p \in ProductId, NEW kind \in {"warranty", "claim", "assembly"},
             NEW parts \in SUBSET ProductId, OpenRecord(r, kind, p, parts)
      PROVE  RecordsInv' /\ Grows
  <2>1. CASE Known(p)
    <3>1. PICK v \in Views(p) : serving' = [serving EXCEPT ![r] =
            [kind |-> kind, product |-> p, seen |-> v, next |-> 0, parts |-> parts,
             at |-> IF kind = "claim" /\ v.warranty = NONE THEN "done"
                    ELSE IF parts # {} THEN "parts" ELSE "write"]]
      BY <1>2, <2>1 DEF OpenRecord
    <3>2. v \in ProductRecord
      <4>1. products[p] \in ProductRecord
        BY <2>1 DEF RecordsInv, ProductsTyped, Known
      <4>2. [products[p] EXCEPT !.warranty = NONE] \in ProductRecord
        BY <4>1 DEF ProductRecord, Writer
      <4>3. [products[p] EXCEPT !.claims = {}] \in ProductRecord
        BY <4>1 DEF ProductRecord
      <4> QED
        BY <4>1, <4>2, <4>3 DEF Views
    <3>3. PICK n : n = [kind |-> kind, product |-> p, seen |-> v, next |-> 0, parts |-> parts,
             at |-> IF kind = "claim" /\ v.warranty = NONE THEN "done"
                    ELSE IF parts # {} THEN "parts" ELSE "write"]
      OBVIOUS
    <3>4. n \in ServingRecord /\ n.kind = kind /\ n.at \in {"done", "parts", "write"}
      BY <3>2, <3>3 DEF ServingRecord, Named
    <3> QED
      BY <1>2, <3>1, <3>3, <3>4, OtherRequest DEF OpenRecord
  <2>2. CASE ~Known(p)
    <3>1. serving' = [serving EXCEPT ![r] = [Nobody EXCEPT !.kind = kind, !.at = "done"]]
      BY <1>2, <2>2 DEF OpenRecord
    <3>2. PICK n : n = [Nobody EXCEPT !.kind = kind, !.at = "done"]
      OBVIOUS
    <3>3. n \in ServingRecord /\ n.kind = kind /\ n.at = "done"
      BY <3>2, NobodyTyped DEF ServingRecord
    <3> QED
      BY <1>2, <3>1, <3>2, <3>3, OtherRequest DEF OpenRecord
  <2> QED
    BY <2>1, <2>2
<1> QED
  BY <1>1, <1>2

\* registerProduct: a new record, or none.
LEMMA RegisterKeeps ==
  ASSUME RecordsInv, NEW r \in Handler, RegisterProductRoute(r)
  PROVE  RecordsInv' /\ Grows
<1>0. Blank \in ProductRecord
  BY DEF Blank, ProductRecord, Writer
<1>1. ProductsTyped' /\ Grows
  <2>1. CASE products' = products
    BY <2>1, RecordsSame DEF RecordsInv
  <2>2. ASSUME NEW p \in ProductId \ DOMAIN products,
               products' = [q \in DOMAIN products \cup {p} |-> IF q = p THEN Blank ELSE products[q]]
        PROVE  ProductsTyped' /\ Grows
    <3>1. DOMAIN products' = DOMAIN products \cup {p} /\ \A q \in DOMAIN products : products'[q] = products[q]
      BY <2>2
    <3>2. \A q \in DOMAIN products' : products'[q] \in ProductRecord
      BY <1>0, <2>2 DEF RecordsInv, ProductsTyped
    <3> QED
      BY <2>2, <3>1, <3>2 DEF RecordsInv, ProductsTyped, Grows
  <2> QED
    BY <2>1, <2>2 DEF RegisterProductRoute
<1>2. PICK n : n = [Nobody EXCEPT !.kind = "register", !.at = "done"]
  OBVIOUS
<1>3. serving' = [serving EXCEPT ![r] = n] /\ source' = source
  BY <1>2 DEF RegisterProductRoute
<1>4. n \in ServingRecord /\ n.kind = "register" /\ n.at = "done"
  BY <1>2, NobodyTyped DEF ServingRecord
<1>5. Fits(n)'
  BY <1>4 DEF Fits
<1> QED
  BY <1>1, <1>3, <1>4, <1>5, RequestMoves

\* registerAssembly looks at its parts, registerAuditor writes, a request is killed.
LEMMA CheckKeeps ==
  ASSUME RecordsInv, NEW r \in Handler,
         (\E p \in ProductId : CheckPart(r, p)) \/ CreateAuditor(r) \/ KillRequest(r)
  PROVE  RecordsInv' /\ Grows
<1>0. serving[r] \in ServingRecord /\ Fits(serving[r])
  BY DEF RecordsInv
<1>1. ASSUME NEW p \in ProductId, CheckPart(r, p) PROVE RecordsInv' /\ Grows
  <2>1. PICK at \in {"done", "write", "parts"} :
          serving' = [serving EXCEPT ![r] = [serving[r] EXCEPT !.parts = @ \ {p}, !.at = at]]
    BY <1>1 DEF CheckPart
  <2>2. PICK n : n = [serving[r] EXCEPT !.parts = @ \ {p}, !.at = at]
    OBVIOUS
  <2>3. n \in ServingRecord /\ n.kind = serving[r].kind /\ n.at = at
    BY <1>0, <2>2 DEF ServingRecord
  <2>4. serving[r].kind # "batch"
    BY <1>0, <1>1 DEF CheckPart, Fits
  <2> QED
    BY <1>1, <2>1, <2>2, <2>3, <2>4, OtherRequest, ZenonT(40) DEF CheckPart
<1>2. ASSUME CreateAuditor(r) PROVE RecordsInv' /\ Grows
  <2>1. PICK n : n = [serving[r] EXCEPT !.at = "done"]
    OBVIOUS
  <2>2. n \in ServingRecord /\ n.kind = serving[r].kind /\ n.at = "done"
    BY <1>0, <2>1 DEF ServingRecord
  <2>3. serving[r].kind # "batch"
    BY <1>0, <1>2 DEF CreateAuditor, Fits
  <2>4. serving' = [serving EXCEPT ![r] = n]
    BY <1>2, <2>1 DEF CreateAuditor, Ends, Goes
  <2> QED
    BY <1>2, <2>2, <2>3, <2>4, OtherRequest DEF CreateAuditor
<1>3. ASSUME KillRequest(r) PROVE RecordsInv' /\ Grows
  <2>1. PICK n : n = [serving[r] EXCEPT !.at = "killed"]
    OBVIOUS
  <2>2. n \in ServingRecord /\ n.at = "killed"
    BY <1>0, <2>1 DEF ServingRecord
  <2>3. serving' = [serving EXCEPT ![r] = n]
    BY <1>3, <2>1 DEF KillRequest, Goes
  <2> QED
    BY <1>3, <2>2, <2>3, OtherRequest DEF KillRequest
<1> QED
  BY <1>1, <1>2, <1>3

\* registerWarranty, fileClaim and registerAssembly write what they add to the
\* record as it is.
LEMMA WriteKeeps ==
  ASSUME RecordsInv, NEW r \in Handler, WriteRecord(r)
  PROVE  RecordsInv' /\ Grows
<1>0. serving[r] \in ServingRecord /\ Fits(serving[r]) /\ r # NONE /\ ProductsTyped
  BY FixtureAssumption DEF RecordsInv, NONE
<1>1. ProductsTyped' /\ Grows
  <2> DEFINE p == serving[r].product
  <2>1. CASE products' = products
    BY <1>0, <2>1, RecordsSame
  <2>2. CASE p \notin DOMAIN products
    <3>1. \A d : [products EXCEPT ![p] = d] = products
      BY <1>0, <2>2 DEF ProductsTyped
    <3>2. products' = products \/ \E d : products' = [products EXCEPT ![p] = d]
      BY DEF WriteRecord, Replace
    <3> HIDE DEF p
    <3>3. products' = products
      BY <3>1, <3>2
    <3> QED
      BY <1>0, <3>3, RecordsSame
  <2>3. CASE p \in DOMAIN products /\ products' = [products EXCEPT ![p] = [RecordStored(r) EXCEPT !.warranty = r]]
    <3>1. PICK d : d = [products[p] EXCEPT !.warranty = r]
      OBVIOUS
    <3>2. products[p] \in ProductRecord
      BY <1>0, <2>3 DEF ProductsTyped
    <3>3. /\ d \in ProductRecord
          /\ d.recalled = products[p].recalled /\ d.claims = products[p].claims
          /\ d.assembly = products[p].assembly /\ d.warranty = r
      BY <3>1, <3>2 DEF ProductRecord, Writer
    <3> QED
      BY <1>0, <2>3, <3>1, <3>3, RecordSet DEF RecordStored
  <2>4. CASE p \in DOMAIN products /\ products' = [products EXCEPT ![p] = [RecordStored(r) EXCEPT !.claims = @ \cup {r}]]
    <3>1. PICK d : d = [products[p] EXCEPT !.claims = @ \cup {r}]
      OBVIOUS
    <3>2. products[p] \in ProductRecord
      BY <1>0, <2>4 DEF ProductsTyped
    <3>3. /\ d \in ProductRecord
          /\ d.recalled = products[p].recalled /\ products[p].claims \subseteq d.claims
          /\ d.assembly = products[p].assembly /\ d.warranty = products[p].warranty
      BY <3>1, <3>2 DEF ProductRecord, Writer
    <3> QED
      BY <1>0, <2>4, <3>1, <3>3, RecordSet DEF RecordStored
  <2>5. CASE p \in DOMAIN products /\ products' = [products EXCEPT ![p] = [RecordStored(r) EXCEPT !.assembly = r]]
    <3>1. PICK d : d = [products[p] EXCEPT !.assembly = r]
      OBVIOUS
    <3>2. products[p] \in ProductRecord
      BY <1>0, <2>5 DEF ProductsTyped
    <3>3. /\ d \in ProductRecord
          /\ d.recalled = products[p].recalled /\ d.claims = products[p].claims
          /\ d.assembly = r /\ d.warranty = products[p].warranty
      BY <3>1, <3>2 DEF ProductRecord, Writer
    <3> QED
      BY <1>0, <2>5, <3>1, <3>3, RecordSet DEF RecordStored
  <2> QED
    BY <2>1, <2>2, <2>3, <2>4, <2>5 DEF WriteRecord, Replace
<1>2. PICK n : n = [serving[r] EXCEPT !.at = "done"]
  OBVIOUS
<1>3. n \in ServingRecord /\ n.kind = serving[r].kind /\ n.at = "done"
  BY <1>0, <1>2 DEF ServingRecord
<1>4. n.kind # "batch"
  BY <1>0, <1>3 DEF WriteRecord, Fits
<1>5. serving' = [serving EXCEPT ![r] = n] /\ source' = source
  BY <1>2 DEF WriteRecord, Ends, Goes
<1>6. Fits(n)'
  BY <1>3, <1>4 DEF Fits
<1> QED
  BY <1>1, <1>3, <1>5, <1>6, RequestMoves

\* POST /batches/[id]/recall marks the batch and reads its members.
LEMMA BatchKeeps ==
  ASSUME RecordsInv, NEW r \in Handler, OpenBatch(r) \/ MarkBatch(r) \/ ReadMember(r)
  PROVE  RecordsInv' /\ Grows
<1>0. serving[r] \in ServingRecord /\ Fits(serving[r]) /\ products' = products /\ source' = source
  BY DEF RecordsInv, OpenBatch, MarkBatch, ReadMember
<1>1. ProductsTyped' /\ Grows /\ (Contract <=> Contract') /\ \A i \in DOMAIN BatchMembers : IsRecalled(i)' = IsRecalled(i)
  BY <1>0, RecordsSame DEF RecordsInv, Contract, IsRecalled
<1>2. DOMAIN BatchMembers = 1..Len(BatchMembers) /\ Len(BatchMembers) \in Nat \ {0}
  BY FixtureAssumption
<1>3. CASE OpenBatch(r)
  <2>1. PICK at \in {"done", "mark"} : /\ serving' = [serving EXCEPT ![r] = [Nobody EXCEPT !.kind = "batch", !.at = at]]
                                       /\ at = "done" <=> Contract
    BY <1>3 DEF OpenBatch
  <2>2. PICK n : n = [Nobody EXCEPT !.kind = "batch", !.at = at]
    OBVIOUS
  <2>3. n \in ServingRecord /\ n.kind = "batch" /\ n.at = at
    BY <2>2, NobodyTyped DEF ServingRecord
  <2>4. Fits(n)'
    BY <1>1, <2>1, <2>3 DEF Fits
  <2> QED
    BY <1>0, <1>1, <2>1, <2>2, <2>3, <2>4, RequestMoves
<1>4. CASE MarkBatch(r)
  <2>1. PICK n : n = [serving[r] EXCEPT !.at = "member", !.next = 1]
    OBVIOUS
  <2>2. n \in ServingRecord /\ n.kind = serving[r].kind /\ n.at = "member" /\ n.next = 1
    BY <1>0, <2>1 DEF ServingRecord
  <2>3. serving[r].kind = "batch" /\ ~Contract
    BY <1>0, <1>4 DEF MarkBatch, Fits
  <2>4. Fits(n)'
    BY <1>1, <1>2, <2>2, <2>3 DEF Fits
  <2>5. serving' = [serving EXCEPT ![r] = n]
    BY <1>4, <2>1 DEF MarkBatch
  <2> QED
    BY <1>0, <1>1, <2>2, <2>4, <2>5, RequestMoves
<1>5. CASE ReadMember(r)
  <2> DEFINE k == serving[r].next
  <2>0. /\ serving[r].at = "member" /\ serving[r].kind = "batch" /\ ~Contract
        /\ k \in DOMAIN BatchMembers /\ \A i \in DOMAIN BatchMembers : i < k => IsRecalled(i)
    BY <1>0, <1>5 DEF ReadMember, Fits
  <2>1. PICK v : v = IF Known(BatchMembers[k]) THEN products[BatchMembers[k]] ELSE Blank
    OBVIOUS
  <2>2. v \in ProductRecord /\ (v.recalled # NONE => IsRecalled(k))
    BY <2>1 DEF RecordsInv, ProductsTyped, Known, IsRecalled, Blank, ProductRecord, Writer
  <2>3. PICK n : n = [serving[r] EXCEPT !.at = "recall", !.product = BatchMembers[k], !.seen = v]
    OBVIOUS
  <2>4. BatchMembers[k] \in Named
    BY <2>0 DEF Named
  <2>5. n \in ServingRecord /\ n.kind = "batch" /\ n.at = "recall" /\ n.next = k
        /\ n.product = BatchMembers[k] /\ n.seen = v
    <3>1. \A x \in ServingRecord : [x EXCEPT !.at = "recall"] \in ServingRecord
      BY DEF ServingRecord
    <3>2. \A x \in ServingRecord : [x EXCEPT !.product = BatchMembers[k]] \in ServingRecord
      BY <2>4 DEF ServingRecord
    <3>3. \A x \in ServingRecord : [x EXCEPT !.seen = v] \in ServingRecord
      BY <2>2 DEF ServingRecord
    <3>4. n = [[[serving[r] EXCEPT !.at = "recall"] EXCEPT !.product = BatchMembers[k]] EXCEPT !.seen = v]
      BY <2>3
    <3>5. n \in ServingRecord
      BY <1>0, <3>1, <3>2, <3>3, <3>4
    <3> QED
      BY <1>0, <2>0, <2>3, <3>5 DEF ServingRecord
  <2>6. Fits(n)'
    BY <1>1, <2>0, <2>2, <2>5 DEF Fits
  <2>7. serving' = [serving EXCEPT ![r] = n]
    BY <1>5, <2>1, <2>3 DEF ReadMember
  <2> QED
    BY <1>0, <1>1, <2>5, <2>6, <2>7, RequestMoves
<1> QED
  BY <1>3, <1>4, <1>5

\* A member is recalled unless it is, and the next one follows.
LEMMA RecallKeeps ==
  ASSUME RecordsInv, NEW r \in Handler, RecallMember(r)
  PROVE  RecordsInv' /\ Grows
<1>0. PICK k \in DOMAIN BatchMembers, p \in Named :
        /\ k = serving[r].next /\ p = BatchMembers[k]
        /\ serving[r] \in ServingRecord /\ serving[r].at = "recall" /\ serving[r].kind = "batch" /\ ~Contract
        /\ \A i \in DOMAIN BatchMembers : i < k => IsRecalled(i)
        /\ serving[r].product = p /\ (serving[r].seen.recalled # NONE => IsRecalled(k))
  BY DEF RecordsInv, RecallMember, Fits, Named
<1>1. ProductsTyped /\ r # NONE /\ source' = source /\ (Contract <=> Contract')
  BY FixtureAssumption DEF RecordsInv, RecallMember, NONE, Contract
<1>2. DOMAIN BatchMembers = 1..Len(BatchMembers) /\ Len(BatchMembers) \in Nat \ {0}
  BY FixtureAssumption
<1>3. ProductsTyped' /\ Grows /\ IsRecalled(k)'
  <2>1. CASE p \in DOMAIN products /\ serving[r].seen.recalled = NONE
    <3>1. products' = [products EXCEPT ![p] = [products[p] EXCEPT !.recalled = r]]
      BY <1>0, <2>1 DEF RecallMember, Known, Replace, RecordStored
    <3>2. PICK d : d = [products[p] EXCEPT !.recalled = r]
      OBVIOUS
    <3>3. products[p] \in ProductRecord
      BY <1>1, <2>1 DEF ProductsTyped
    <3>4. /\ d \in ProductRecord
          /\ d.recalled = r /\ d.claims = products[p].claims
          /\ d.assembly = products[p].assembly /\ d.warranty = products[p].warranty
      BY <3>2, <3>3 DEF ProductRecord, Writer
    <3>5. ProductsTyped' /\ Grows
      BY <1>1, <3>1, <3>2, <3>4, RecordSet
    <3>6. products'[p] = d
      BY <2>1, <3>1, <3>2
    <3> QED
      BY <1>0, <1>1, <3>4, <3>5, <3>6 DEF IsRecalled
  <2>2. CASE ~(p \in DOMAIN products /\ serving[r].seen.recalled = NONE)
    <3>1. products' = products
      BY <1>0, <2>2 DEF RecallMember, Known
    <3>2. IsRecalled(k)
      BY <1>0, <2>2 DEF IsRecalled
    <3> QED
      BY <1>1, <3>1, <3>2, RecordsSame DEF IsRecalled
  <2> QED
    BY <2>1, <2>2
<1>4. \A i \in DOMAIN BatchMembers : i < k + 1 => IsRecalled(i)'
  <2>1. \A i \in DOMAIN BatchMembers : i < k => IsRecalled(i)'
    BY <1>0, <1>1, <1>3, RecallStays
  <2>2. \A i \in DOMAIN BatchMembers : i < k + 1 => i < k \/ i = k
    BY <1>0, <1>2
  <2> QED
    BY <1>3, <2>1, <2>2
<1>5. PICK at \in {"done", "member"} :
        /\ serving' = [serving EXCEPT ![r] = [serving[r] EXCEPT !.next = @ + 1, !.at = at]]
        /\ at = "done" <=> k = Len(BatchMembers)
  BY <1>0 DEF RecallMember, Stop
<1>6. PICK n : n = [serving[r] EXCEPT !.next = @ + 1, !.at = at]
  OBVIOUS
<1>7. n \in ServingRecord /\ n.kind = "batch" /\ n.at = at /\ n.next = k + 1
  <2>1. \A x \in ServingRecord : [x EXCEPT !.at = at] \in ServingRecord
    BY <1>5 DEF ServingRecord
  <2>2. \A x \in ServingRecord : [x EXCEPT !.next = k + 1] \in ServingRecord
    BY <1>2 DEF ServingRecord
  <2>3. n = [[serving[r] EXCEPT !.next = k + 1] EXCEPT !.at = at]
    BY <1>0, <1>6
  <2>4. n \in ServingRecord
    BY <1>0, <2>1, <2>2, <2>3
  <2> QED
    BY <1>0, <1>6, <2>4 DEF ServingRecord
<1>8. Fits(n)'
  <2>1. at = "member" => k + 1 \in DOMAIN BatchMembers
    BY <1>0, <1>2, <1>5
  <2>2. at = "done" => \A i \in DOMAIN BatchMembers : i < k + 1
    BY <1>0, <1>2, <1>5
  <2> QED
    BY <1>0, <1>1, <1>4, <1>7, <2>1, <2>2 DEF Fits
<1> QED
  BY <1>1, <1>3, <1>5, <1>6, <1>7, <1>8, RequestMoves

\* Every step of every request.
LEMMA RecordsStep ==
  ASSUME RecordsInv, [RecordsNext]_recordVars
  PROVE  RecordsInv' /\ Grows
<1>1. ASSUME NEW r \in Handler, RecordStep(r) PROVE RecordsInv' /\ Grows
  <2>1. CASE RegisterProductRoute(r)
    BY <2>1, RegisterKeeps
  <2>2. CASE \/ OpenBatch(r) \/ MarkBatch(r) \/ ReadMember(r)
    BY <2>2, BatchKeeps
  <2>3. CASE \/ \E a \in Auditor : OpenAuditor(r, a)
             \/ \E p \in ProductId, kind \in {"warranty", "claim", "assembly"}, parts \in SUBSET ProductId :
                  OpenRecord(r, kind, p, parts)
    BY <2>3, OpenKeeps
  <2>4. CASE (\E p \in ProductId : CheckPart(r, p)) \/ CreateAuditor(r) \/ KillRequest(r)
    BY <2>4, CheckKeeps
  <2>5. CASE WriteRecord(r)
    BY <2>5, WriteKeeps
  <2>6. CASE RecallMember(r)
    BY <2>6, RecallKeeps
  <2> QED
    BY <1>1, <2>1, <2>2, <2>3, <2>4, <2>5, <2>6 DEF RecordStep
<1>2. CASE UNCHANGED recordVars
  BY <1>2 DEF recordVars, RecordsInv, ProductsTyped, Grows, Fits, IsRecalled, Contract
<1> QED
  BY <1>1, <1>2 DEF RecordsNext

\* The invariant holds of every state of the services.
LEMMA RecordsInvariant == Spec => []RecordsInv
<1>1. Init => RecordsInv
  <2> SUFFICES ASSUME RecordsInit PROVE RecordsInv
    BY DEF Init
  <2>1. Blank \in ProductRecord
    BY DEF Blank, ProductRecord, Writer
  <2>2. ProductsTyped
    BY <2>1, FixtureAssumption DEF RecordsInit, ProductsTyped
  <2>3. Fits(Nobody)
    BY DEF Fits, Nobody, NONE
  <2> QED
    BY <2>2, <2>3, NobodyTyped DEF RecordsInit, RecordsInv
<1>2. RecordsInv /\ [Next]_servicesVars => RecordsInv'
  BY RecordsStep DEF Next, Only, servicesVars
<1> QED
  BY <1>1, <1>2, PTL DEF Spec

\* A recall of a batch that has answered left every member on record recalled
\* (app/api/v1/batches/[id]/recall/route.ts:60-82).
THEOREM BatchRecalled == Spec => []BatchRecallComplete
<1>1. RecordsInv => BatchRecallComplete
  BY DEF RecordsInv, Fits, BatchRecallComplete, IsRecalled, Known
<1> QED
  BY <1>1, RecordsInvariant, PTL

\* No request undoes what another wrote between its read and its write
\* (store.ts:49-59 with the routes around it).
THEOREM RecordsKept == Spec => RecordsOnlyGrow
<1>1. RecordsInv /\ [Next]_servicesVars =>
        [\A p \in DOMAIN products :
           /\ p \in DOMAIN products'
           /\ products[p].recalled # NONE => products'[p].recalled # NONE
           /\ products[p].claims \subseteq products'[p].claims
           /\ products[p].warranty # NONE => products'[p].warranty # NONE
           /\ products[p].assembly # NONE => products'[p].assembly # NONE]_recordVars
  BY RecordsStep DEF Next, Only, servicesVars, Grows
<1> QED
  BY <1>1, RecordsInvariant, PTL DEF Spec, RecordsOnlyGrow

-----------------------------------------------------------------------------
(* Insurance, the premium of a quote *)

\* The score is a number and keeps the order of risks: its caps and its gap of
\* certifications do (assessRisk, insuranceCoverage.ts:36-77).
LEMMA ScoreKeepsOrder ==
  ASSUME NEW r \in RiskProfile, NEW q \in RiskProfile, Riskier(r, q)
  PROVE  AssessRisk(q) \in Nat /\ AssessRisk(r) \in Nat /\ AssessRisk(q) <= AssessRisk(r)
<1>1. \A x \in RiskProfile :
        /\ x.value \in Nat /\ x.transit \in Nat /\ x.certified \in Nat /\ x.storage \in Nat
        /\ x.recalled \in BOOLEAN
  BY RiskAssumption DEF RiskProfile
<1>2. \A m, n \in Nat : m <= n => AtMostTen(m) <= AtMostTen(n) /\ AtMostTen(m) \in Nat /\ AtMostTen(n) \in Nat
  BY DEF AtMostTen
<1>3. \A m, n \in Nat : m <= n => CertificationGap(n) <= CertificationGap(m) /\ CertificationGap(m) \in Nat /\ CertificationGap(n) \in Nat
  BY DEF CertificationGap
<1>4. /\ AtMostTen(q.value) <= AtMostTen(r.value) /\ AtMostTen(q.value) \in Nat /\ AtMostTen(r.value) \in Nat
      /\ AtMostTen(q.transit) <= AtMostTen(r.transit) /\ AtMostTen(q.transit) \in Nat /\ AtMostTen(r.transit) \in Nat
      /\ AtMostTen(q.storage) <= AtMostTen(r.storage) /\ AtMostTen(q.storage) \in Nat /\ AtMostTen(r.storage) \in Nat
      /\ CertificationGap(q.certified) <= CertificationGap(r.certified)
      /\ CertificationGap(q.certified) \in Nat /\ CertificationGap(r.certified) \in Nat
  BY <1>1, <1>2, <1>3 DEF Riskier
<1>5. (IF q.recalled THEN 8 ELSE 1) <= (IF r.recalled THEN 8 ELSE 1)
  BY <1>1 DEF Riskier
<1> QED
  BY <1>4, <1>5 DEF AssessRisk

\* A riskier product never gets a lower premium for the same amount
\* (calculatePremium, insuranceCoverage.ts:92-152).
THEOREM RiskierPaysMore == Spec => PremiumFollowsRisk
<1>1. ASSUME NEW r \in RiskProfile, NEW q \in RiskProfile, Riskier(r, q)
      PROVE  Premium(r, 1000) >= Premium(q, 1000)
  <2>1. \A m, n \in Nat : m <= n => Multiplier(m) <= Multiplier(n) /\ Multiplier(m) \in {100, 125, 160, 200}
                                    /\ Multiplier(n) \in {100, 125, 160, 200}
    BY DEF Multiplier
  <2>2. /\ Multiplier(AssessRisk(q)) <= Multiplier(AssessRisk(r))
        /\ Multiplier(AssessRisk(q)) \in {100, 125, 160, 200} /\ Multiplier(AssessRisk(r)) \in {100, 125, 160, 200}
    BY <1>1, <2>1, ScoreKeepsOrder
  <2>3. \A m, n \in {100, 125, 160, 200} : m <= n => (1000 * n + 50) \div 100 >= (1000 * m + 50) \div 100
    OBVIOUS
  <2> QED
    BY <2>2, <2>3 DEF Premium
<1>2. Init => asked \in RiskProfile
  BY DEF Init, QuoteInit
<1>3. asked \in RiskProfile /\ [Next]_servicesVars => (asked \in RiskProfile)'
  BY DEF Next, Only, Quote, servicesVars
<1>4. asked \in RiskProfile /\ (asked \in RiskProfile)'
        => [Riskier(asked', asked) => Premium(asked', 1000) >= Premium(asked, 1000)]_asked
  BY <1>1
<1> QED
  BY <1>2, <1>3, <1>4, PTL DEF Spec, PremiumFollowsRisk

-----------------------------------------------------------------------------
(* RecallBroadcast: what the panel shows is true, and the log agrees *)

\* What a notification, an entry of a log and a message are made of.
NoticeRecord == [broadcast : Nat, acknowledged : BOOLEAN]
EntryRecord == [stakeholder : Stakeholder, status : {"delivered", "acknowledged"}]
CardRecord == [broadcast : Nat, log : Seq(EntryRecord)]
Payload == CardRecord \cup Seq(CardRecord) \cup Seq(NoticeRecord)
PanelRecord == [shown : Seq(CardRecord), notices : Seq(NoticeRecord), loading : BOOLEAN]
MessageRecord == [kind : {"broadcasts", "notifications", "initiate", "acknowledge"},
                  arg : Nat \cup Seq(Stakeholder), answered : BOOLEAN, ok : BOOLEAN,
                  data : Payload]
StoresTyped ==
  /\ broadcasts \in Seq(Seq(EntryRecord))
  /\ notifications \in [Stakeholder -> Seq(NoticeRecord)]
  /\ \A s \in Stakeholder : \A i \in DOMAIN notifications[s] :
       notifications[s][i].broadcast \in DOMAIN broadcasts
PanelTyped ==
  /\ panel \in PanelRecord
  /\ flying \subseteq MessageRecord

\* A stakeholder's notifications of a broadcast and its entries in the log: there are both
\* or neither, and only the first of each is acknowledged, the one with the other.
Agree(ns, log, b, s) ==
  /\ (\E i \in DOMAIN ns : ns[i].broadcast = b) <=> (\E i \in DOMAIN log : log[i].stakeholder = s)
  /\ (\E i \in DOMAIN ns : ns[i].broadcast = b /\ ns[i].acknowledged) <=>
     (\E i \in DOMAIN log : log[i].stakeholder = s /\ log[i].status = "acknowledged")
  /\ \A i, j \in DOMAIN ns :
       ns[i].broadcast = b /\ ns[i].acknowledged /\ ns[j].broadcast = b => i <= j
  /\ \A i, j \in DOMAIN log :
       log[i].stakeholder = s /\ log[i].status = "acknowledged" /\ log[j].stakeholder = s => i <= j
LogsInv == \A b \in DOMAIN broadcasts : \A s \in Stakeholder : Agree(notifications[s], broadcasts[b], b, s)

\* An earlier list of a stakeholder's notifications.
Earlier(ns, now) == \A i \in DOMAIN ns :
  /\ i \in DOMAIN now /\ ns[i].broadcast = now[i].broadcast
  /\ ns[i].acknowledged => now[i].acknowledged

\* An earlier log of a broadcast, and a card that was true then.
Behind(log, now) ==
  /\ Len(log) = Len(now)
  /\ \A k \in DOMAIN log :
       /\ log[k].stakeholder = now[k].stakeholder
       /\ log[k].status = "acknowledged" => now[k].status = "acknowledged"
CardTrue(card) ==
  card.broadcast \in DOMAIN broadcasts /\ Behind(card.log, broadcasts[card.broadcast])

\* What was sent to the panel was true then.
AnswerTrue(m) ==
  /\ m.kind = "initiate" => m.arg \in Lists
  /\ m.answered /\ m.ok =>
       /\ m.kind = "broadcasts" =>
            m.data \in Seq(CardRecord) /\ \A i \in DOMAIN m.data : CardTrue(m.data[i])
       /\ m.kind = "notifications" =>
            m.data \in Seq(NoticeRecord) /\ Earlier(m.data, notifications[PANEL])
       /\ m.kind = "initiate" => m.data \in CardRecord /\ CardTrue(m.data)
AnswersInv == \A m \in flying : AnswerTrue(m)
ShownInv ==
  /\ \A i \in DOMAIN panel.shown : CardTrue(panel.shown[i])
  /\ Earlier(panel.notices, notifications[PANEL])

BroadcastInv == StoresTyped /\ PanelTyped /\ LogsInv /\ AnswersInv /\ ShownInv

Below == OpToRel(<, Nat)

\* Every set of naturals that is not empty has a smallest member.
LEMMA SmallestNat ==
  ASSUME NEW T, T \subseteq Nat, T # {}
  PROVE  \E n \in T : \A m \in T : n <= m
<1>1. \A x, y \in Nat : <<x, y>> \in Below <=> x < y
  BY DEF Below, OpToRel
<1>2. IsWellFoundedOn(Below, Nat)
  BY NatLessThanWellFounded, Zenon DEF Below
<1>3. PICK x \in T : \A y \in T : ~(<<y, x>> \in Below)
  BY <1>2, WFMin, Zenon
<1>4. \A y \in T : ~(y < x)
  BY <1>1, <1>3, Zenon
<1> QED
  BY <1>4

\* The first notification of a broadcast, and a stakeholder's first entry.
FirstNotice(ns, b) == FirstOf(ns, LAMBDA n : n.broadcast = b)
FirstEntry(log, s) == FirstOf(log, LAMBDA e : e.stakeholder = s)

LEMMA FirstNoticeIs ==
  ASSUME NEW ns \in Seq(NoticeRecord), NEW b, \E i \in DOMAIN ns : ns[i].broadcast = b
  PROVE  /\ FirstNotice(ns, b) \in DOMAIN ns /\ ns[FirstNotice(ns, b)].broadcast = b
         /\ \A j \in DOMAIN ns : ns[j].broadcast = b => FirstNotice(ns, b) <= j
<1> DEFINE T == {i \in DOMAIN ns : ns[i].broadcast = b}
<1>0. DOMAIN ns = 1..Len(ns) /\ Len(ns) \in Nat
  OBVIOUS
<1>1. T \subseteq Nat /\ T # {}
  BY <1>0
<1>2. PICK k \in T : \A m \in T : k <= m
  BY <1>1, SmallestNat
<1>3. k \in DOMAIN ns /\ ns[k].broadcast = b /\ \A j \in 1..(k - 1) : ~(ns[j].broadcast = b)
  BY <1>0, <1>2
<1>4. /\ FirstNotice(ns, b) \in DOMAIN ns /\ ns[FirstNotice(ns, b)].broadcast = b
      /\ \A j \in 1..(FirstNotice(ns, b) - 1) : ~(ns[j].broadcast = b)
  BY <1>3 DEF FirstNotice, FirstOf
<1> HIDE DEF T
<1> QED
  BY <1>0, <1>4

LEMMA FirstEntryIs ==
  ASSUME NEW log \in Seq(EntryRecord), NEW s, \E i \in DOMAIN log : log[i].stakeholder = s
  PROVE  /\ FirstEntry(log, s) \in DOMAIN log /\ log[FirstEntry(log, s)].stakeholder = s
         /\ \A j \in DOMAIN log : log[j].stakeholder = s => FirstEntry(log, s) <= j
<1> DEFINE T == {i \in DOMAIN log : log[i].stakeholder = s}
<1>0. DOMAIN log = 1..Len(log) /\ Len(log) \in Nat
  OBVIOUS
<1>1. T \subseteq Nat /\ T # {}
  BY <1>0
<1>2. PICK k \in T : \A m \in T : k <= m
  BY <1>1, SmallestNat
<1>3. k \in DOMAIN log /\ log[k].stakeholder = s /\ \A j \in 1..(k - 1) : ~(log[j].stakeholder = s)
  BY <1>0, <1>2
<1>4. /\ FirstEntry(log, s) \in DOMAIN log /\ log[FirstEntry(log, s)].stakeholder = s
      /\ \A j \in 1..(FirstEntry(log, s) - 1) : ~(log[j].stakeholder = s)
  BY <1>3 DEF FirstEntry, FirstOf
<1> HIDE DEF T
<1> QED
  BY <1>0, <1>4

\* The first notification and the first entry are marked, whether or not they were before.
MarkedAt(old, was, ns, log, b, s, k, n) ==
  /\ k \in DOMAIN ns /\ n \in DOMAIN log
  /\ ns[k] = [broadcast |-> b, acknowledged |-> TRUE]
  /\ log[n] = [stakeholder |-> s, status |-> "acknowledged"]
  /\ old[k].broadcast = b /\ was[n].stakeholder = s
  /\ \A i \in DOMAIN ns : i # k => ns[i] = old[i]
  /\ \A i \in DOMAIN log : i # n => log[i] = was[i]
  /\ \A i \in DOMAIN ns : old[i].broadcast = b => k <= i
  /\ \A i \in DOMAIN log : was[i].stakeholder = s => n <= i
Marked(old, was, ns, log, b, s) ==
  /\ DOMAIN ns = DOMAIN old /\ DOMAIN log = DOMAIN was
  /\ \E k, n : MarkedAt(old, was, ns, log, b, s, k, n)

\* Acknowledging marks the first notification of the broadcast and the first entry of the
\* stakeholder, and there are both.
LEMMA AcknowledgeIs ==
  ASSUME StoresTyped, LogsInv, NEW s \in Stakeholder, NEW b, AcknowledgeNotification(s, b)
  PROVE  /\ b \in DOMAIN broadcasts
         /\ \E ns \in Seq(NoticeRecord), log \in Seq(EntryRecord) :
              /\ notifications' = [notifications EXCEPT ![s] = ns]
              /\ broadcasts' = [broadcasts EXCEPT ![b] = log]
              /\ Marked(notifications[s], broadcasts[b], ns, log, b, s)
<1>1. PICK old : old = notifications[s]
  OBVIOUS
<1>2. old \in Seq(NoticeRecord) /\ \E i \in DOMAIN old : old[i].broadcast = b
  BY <1>1 DEF StoresTyped, AcknowledgeNotification, IsNotified
<1>3. b \in DOMAIN broadcasts
  BY <1>1, <1>2 DEF StoresTyped
<1>4. PICK was : was = broadcasts[b]
  OBVIOUS
<1>5. was \in Seq(EntryRecord) /\ \E i \in DOMAIN was : was[i].stakeholder = s
  <2>1. Agree(old, was, b, s)
    BY <1>1, <1>3, <1>4 DEF LogsInv
  <2> QED
    BY <1>2, <1>3, <1>4, <2>1 DEF StoresTyped, Agree
<1>6. PICK k \in DOMAIN old : /\ k = FirstNotice(old, b) /\ old[k].broadcast = b
                              /\ \A j \in DOMAIN old : old[j].broadcast = b => k <= j
  BY <1>2, FirstNoticeIs
<1>7. PICK n \in DOMAIN was : /\ n = FirstEntry(was, s) /\ was[n].stakeholder = s
                              /\ \A j \in DOMAIN was : was[j].stakeholder = s => n <= j
  BY <1>5, FirstEntryIs
<1>8. PICK r : r = [old[k] EXCEPT !.acknowledged = TRUE]
  OBVIOUS
<1>9. r \in NoticeRecord /\ r = [broadcast |-> b, acknowledged |-> TRUE]
  <2>1. old[k] \in NoticeRecord
    BY <1>2, <1>6
  <2> QED
    BY <1>6, <1>8, <2>1 DEF NoticeRecord
<1>10. PICK e : e = [was[n] EXCEPT !.status = "acknowledged"]
  OBVIOUS
<1>11. e \in EntryRecord /\ e = [stakeholder |-> s, status |-> "acknowledged"]
  <2>1. was[n] \in EntryRecord
    BY <1>5, <1>7
  <2> QED
    BY <1>7, <1>10, <2>1 DEF EntryRecord
<1>12. PICK ns : ns = [old EXCEPT ![k] = r]
  OBVIOUS
<1>13. PICK log : log = [was EXCEPT ![n] = e]
  OBVIOUS
<1>14. /\ ns \in Seq(NoticeRecord) /\ DOMAIN ns = DOMAIN old /\ ns[k] = r
       /\ \A i \in DOMAIN old : i # k => ns[i] = old[i]
  BY <1>2, <1>6, <1>9, <1>12
<1>15. /\ log \in Seq(EntryRecord) /\ DOMAIN log = DOMAIN was /\ log[n] = e
       /\ \A i \in DOMAIN was : i # n => log[i] = was[i]
  BY <1>5, <1>7, <1>11, <1>13
<1>16. notifications' = [notifications EXCEPT ![s] = ns]
  <2>1. notifications' = [notifications EXCEPT ![s][k].acknowledged = TRUE]
    BY <1>1, <1>6 DEF AcknowledgeNotification, FirstNotice
  <2> QED
    BY <1>1, <1>8, <1>12, <2>1
<1>17. broadcasts' = [broadcasts EXCEPT ![b] = log]
  <2>1. MarkEntry(was, s) = log
    BY <1>7, <1>10, <1>13 DEF MarkEntry, FirstEntry
  <2> QED
    BY <1>4, <2>1 DEF AcknowledgeNotification
<1>18. MarkedAt(old, was, ns, log, b, s, k, n)
  BY <1>6, <1>7, <1>9, <1>11, <1>14, <1>15 DEF MarkedAt
<1>19. Marked(old, was, ns, log, b, s)
  BY <1>14, <1>15, <1>18 DEF Marked
<1> QED
  BY <1>1, <1>3, <1>4, <1>14, <1>15, <1>16, <1>17, <1>19

\* A stakeholder's notifications of one broadcast and its entries in its log, left alone.
LEMMA AgreeStays ==
  ASSUME NEW old, NEW was, NEW ns, NEW log, NEW b, NEW s, Agree(old, was, b, s),
         \A i \in DOMAIN old : old[i].broadcast = b => i \in DOMAIN ns /\ ns[i] = old[i],
         \A i \in DOMAIN ns : ns[i].broadcast = b => i \in DOMAIN old /\ ns[i] = old[i],
         \A i \in DOMAIN was : was[i].stakeholder = s => i \in DOMAIN log /\ log[i] = was[i],
         \A i \in DOMAIN log : log[i].stakeholder = s => i \in DOMAIN was /\ log[i] = was[i]
  PROVE  Agree(ns, log, b, s)
<1>1. (\E i \in DOMAIN ns : ns[i].broadcast = b) <=> (\E i \in DOMAIN log : log[i].stakeholder = s)
  BY DEF Agree
<1>2. (\E i \in DOMAIN ns : ns[i].broadcast = b /\ ns[i].acknowledged) <=>
      (\E i \in DOMAIN log : log[i].stakeholder = s /\ log[i].status = "acknowledged")
  BY DEF Agree
<1>3. \A i, j \in DOMAIN ns :
        ns[i].broadcast = b /\ ns[i].acknowledged /\ ns[j].broadcast = b => i <= j
  BY DEF Agree
<1>4. \A i, j \in DOMAIN log :
        log[i].stakeholder = s /\ log[i].status = "acknowledged" /\ log[j].stakeholder = s => i <= j
  BY DEF Agree
<1> QED
  BY <1>1, <1>2, <1>3, <1>4 DEF Agree

\* A list and a log that agree agree when both are marked.
LEMMA AgreeMarked ==
  ASSUME NEW old, NEW was, NEW ns, NEW log, NEW b, NEW s, Agree(old, was, b, s),
         Marked(old, was, ns, log, b, s)
  PROVE  Agree(ns, log, b, s)
<1>a. PICK k, n : MarkedAt(old, was, ns, log, b, s, k, n)
  BY DEF Marked
<1>b. DOMAIN ns = DOMAIN old /\ DOMAIN log = DOMAIN was
  BY DEF Marked
<1>0. /\ ns[k].broadcast = b /\ ns[k].acknowledged = TRUE
      /\ log[n].stakeholder = s /\ log[n].status = "acknowledged"
  BY <1>a DEF MarkedAt
<1>1. (\E i \in DOMAIN ns : ns[i].broadcast = b) <=> (\E i \in DOMAIN log : log[i].stakeholder = s)
  BY <1>0, <1>a, <1>b DEF MarkedAt
<1>2. (\E i \in DOMAIN ns : ns[i].broadcast = b /\ ns[i].acknowledged) <=>
      (\E i \in DOMAIN log : log[i].stakeholder = s /\ log[i].status = "acknowledged")
  BY <1>0, <1>a, <1>b DEF MarkedAt
<1>3. \A j \in DOMAIN ns : ns[j].broadcast = b => old[j].broadcast = b /\ k <= j
  BY <1>0, <1>a, <1>b DEF MarkedAt
<1>4. \A j \in DOMAIN log : log[j].stakeholder = s => was[j].stakeholder = s /\ n <= j
  BY <1>0, <1>a, <1>b DEF MarkedAt
<1>5. \A i, j \in DOMAIN ns :
        ns[i].broadcast = b /\ ns[i].acknowledged /\ ns[j].broadcast = b => i <= j
  BY <1>0, <1>3, <1>a, <1>b DEF Agree, MarkedAt
<1>6. \A i, j \in DOMAIN log :
        log[i].stakeholder = s /\ log[i].status = "acknowledged" /\ log[j].stakeholder = s => i <= j
  BY <1>0, <1>4, <1>a, <1>b DEF Agree, MarkedAt
<1> QED
  BY <1>1, <1>2, <1>5, <1>6 DEF Agree

\* The stores only grow, and what was told of them stays true.
StoresGrow == /\ \A b \in DOMAIN broadcasts :
                   b \in DOMAIN broadcasts' /\ Behind(broadcasts[b], broadcasts'[b])
              /\ Earlier(notifications[PANEL], notifications'[PANEL])

LEMMA AcknowledgeKeeps ==
  ASSUME StoresTyped, LogsInv, NEW s \in Stakeholder, NEW b, AcknowledgeNotification(s, b)
  PROVE  StoresTyped' /\ LogsInv' /\ StoresGrow
<1>1. b \in DOMAIN broadcasts
  BY AcknowledgeIs
<1>2. PICK ns \in Seq(NoticeRecord), log \in Seq(EntryRecord) :
        /\ notifications' = [notifications EXCEPT ![s] = ns]
        /\ broadcasts' = [broadcasts EXCEPT ![b] = log]
        /\ Marked(notifications[s], broadcasts[b], ns, log, b, s)
  BY AcknowledgeIs
<1>3. PICK k, n : MarkedAt(notifications[s], broadcasts[b], ns, log, b, s, k, n)
  BY <1>2 DEF Marked
<1>4. /\ ns[k].broadcast = b /\ ns[k].acknowledged = TRUE /\ log[n].stakeholder = s
      /\ DOMAIN ns = DOMAIN notifications[s] /\ DOMAIN log = DOMAIN broadcasts[b]
  BY <1>2, <1>3 DEF Marked, MarkedAt
<1>5. /\ notifications' \in [Stakeholder -> Seq(NoticeRecord)] /\ notifications'[s] = ns
      /\ \A t \in Stakeholder : t # s => notifications'[t] = notifications[t]
      /\ broadcasts' \in Seq(Seq(EntryRecord)) /\ DOMAIN broadcasts' = DOMAIN broadcasts
      /\ Len(broadcasts') = Len(broadcasts) /\ Len(broadcasts) \in Nat
      /\ broadcasts'[b] = log /\ \A c \in DOMAIN broadcasts : c # b => broadcasts'[c] = broadcasts[c]
  BY <1>1, <1>2 DEF StoresTyped
<1>6. \A i \in DOMAIN ns : ns[i].broadcast = notifications[s][i].broadcast
  BY <1>3, <1>4 DEF MarkedAt
<1>7. StoresTyped'
  <2>1. \A i \in DOMAIN ns : ns[i].broadcast \in DOMAIN broadcasts
    BY <1>4, <1>6 DEF StoresTyped
  <2>2. \A t \in Stakeholder : \A i \in DOMAIN notifications'[t] : notifications'[t][i].broadcast \in DOMAIN broadcasts
    BY <1>5, <2>1 DEF StoresTyped
  <2> QED
    BY <1>5, <2>2 DEF StoresTyped
<1>8. LogsInv'
  <2> SUFFICES ASSUME NEW c \in DOMAIN broadcasts, NEW t \in Stakeholder
               PROVE  Agree(notifications'[t], broadcasts'[c], c, t)
    BY <1>5 DEF LogsInv
  <2>1. Agree(notifications[t], broadcasts[c], c, t)
    BY DEF LogsInv
  <2>2. CASE c = b /\ t = s
    <3>1. Agree(ns, log, b, s)
      BY <1>2, <2>1, <2>2, AgreeMarked
    <3> QED
      BY <1>5, <2>2, <3>1
  <2>3. CASE c # b /\ t = s
    <3>1. \A i \in DOMAIN ns : ns[i].broadcast = c => ns[i] = notifications[s][i]
      BY <1>3, <1>4, <2>3 DEF MarkedAt
    <3>2. \A i \in DOMAIN ns : notifications[s][i].broadcast = c => ns[i] = notifications[s][i]
      BY <1>3, <1>4, <2>3 DEF MarkedAt
    <3>3. PICK old, was : old = notifications[s] /\ was = broadcasts[c]
      OBVIOUS
    <3>4. /\ \A i \in DOMAIN old : old[i].broadcast = c => i \in DOMAIN ns /\ ns[i] = old[i]
          /\ \A i \in DOMAIN ns : ns[i].broadcast = c => i \in DOMAIN old /\ ns[i] = old[i]
      BY <1>4, <3>1, <3>2, <3>3
    <3>5. Agree(old, was, c, s)
      BY <2>1, <2>3, <3>3
    <3>6. Agree(ns, was, c, s)
      BY <3>4, <3>5, AgreeStays
    <3> QED
      BY <1>5, <2>3, <3>3, <3>6
  <2>4. CASE c = b /\ t # s
    <3>1. \A i \in DOMAIN log : log[i].stakeholder = t => log[i] = broadcasts[b][i]
      BY <1>3, <1>4, <2>4 DEF MarkedAt
    <3>2. \A i \in DOMAIN log : broadcasts[b][i].stakeholder = t => log[i] = broadcasts[b][i]
      BY <1>3, <1>4, <2>4 DEF MarkedAt
    <3>3. PICK old, was : old = notifications[t] /\ was = broadcasts[b]
      OBVIOUS
    <3>4. /\ \A i \in DOMAIN was : was[i].stakeholder = t => i \in DOMAIN log /\ log[i] = was[i]
          /\ \A i \in DOMAIN log : log[i].stakeholder = t => i \in DOMAIN was /\ log[i] = was[i]
      BY <1>4, <3>1, <3>2, <3>3
    <3>5. Agree(old, was, b, t)
      BY <2>1, <2>4, <3>3
    <3>6. Agree(old, log, b, t)
      BY <3>4, <3>5, AgreeStays
    <3> QED
      BY <1>5, <2>4, <3>3, <3>6
  <2>5. CASE c # b /\ t # s
    BY <1>5, <2>1, <2>5
  <2> QED
    BY <2>2, <2>3, <2>4, <2>5
<1>9. Earlier(notifications[PANEL], notifications'[PANEL])
  <2>1. CASE s = PANEL
    <3>1. \A i \in DOMAIN notifications[s] : i \in DOMAIN ns /\ ns[i].broadcast = notifications[s][i].broadcast
      BY <1>4, <1>6
    <3>2. \A i \in DOMAIN notifications[s] : notifications[s][i].acknowledged => ns[i].acknowledged
      BY <1>3, <1>4 DEF MarkedAt
    <3> QED
      BY <1>5, <2>1, <3>1, <3>2 DEF Earlier
  <2>2. CASE s # PANEL
    BY <1>5, <2>2, BroadcastAssumption DEF Earlier
  <2> QED
    BY <2>1, <2>2
<1>10. Behind(broadcasts[b], log)
  <2>1. PICK was : was = broadcasts[b]
    OBVIOUS
  <2>2. was \in Seq(EntryRecord) /\ Len(log) = Len(was)
    BY <1>1, <1>2, <1>4, <2>1 DEF StoresTyped
  <2>3. \A k1 \in DOMAIN was : k1 # n => log[k1] = was[k1]
    BY <1>3, <1>4, <2>1 DEF MarkedAt
  <2>4. was[n].stakeholder = s /\ log[n].stakeholder = s /\ log[n].status = "acknowledged"
    BY <1>3, <2>1 DEF MarkedAt
  <2> QED
    BY <2>1, <2>2, <2>3, <2>4 DEF Behind
<1>11. \A c \in DOMAIN broadcasts : Behind(broadcasts[c], broadcasts'[c])
  BY <1>5, <1>10 DEF Behind
<1>12. StoresGrow
  BY <1>5, <1>9, <1>11 DEF StoresGrow
<1> QED
  BY <1>7, <1>8, <1>12

\* A stakeholder is told of a new broadcast as often as it is on the list.
LEMMA TimesIs ==
  ASSUME NEW list \in Seq(Stakeholder), NEW s \in Stakeholder
  PROVE  Times(s, list) \in Nat /\ (Times(s, list) > 0 <=> \E i \in DOMAIN list : list[i] = s)
<1>1. IsFiniteSet({i \in DOMAIN list : list[i] = s})
  <2>1. DOMAIN list = 1..Len(list) /\ Len(list) \in Nat
    OBVIOUS
  <2>2. IsFiniteSet(1..Len(list))
    BY <2>1, FS_Interval
  <2>3. {i \in DOMAIN list : list[i] = s} \subseteq 1..Len(list)
    BY <2>1
  <2> QED
    BY <2>2, <2>3, FS_Subset
<1>2. Times(s, list) \in Nat
  BY <1>1, FS_CardinalityType DEF Times
<1>3. Times(s, list) = 0 <=> {i \in DOMAIN list : list[i] = s} = {}
  BY <1>1, FS_EmptySet, Zenon DEF Times
<1> QED
  BY <1>2, <1>3

LEMMA InitiateKeeps ==
  ASSUME StoresTyped, LogsInv, NEW list \in Lists, InitiateBroadcast(list)
  PROVE  /\ StoresTyped' /\ LogsInv' /\ StoresGrow
         /\ Len(broadcasts) + 1 \in DOMAIN broadcasts' /\ FirstLog(list) \in Seq(EntryRecord)
         /\ broadcasts'[Len(broadcasts) + 1] = FirstLog(list)
<1>1. list \in Seq(Stakeholder)
  BY BroadcastAssumption
<1>2. PICK log : /\ log = FirstLog(list)
                 /\ log = [i \in DOMAIN list |-> [stakeholder |-> list[i], status |-> "delivered"]]
  BY DEF FirstLog
<1>3. /\ log \in Seq(EntryRecord) /\ DOMAIN log = DOMAIN list
      /\ \A i \in DOMAIN log : log[i].stakeholder = list[i] /\ log[i].status = "delivered"
  <2>1. DOMAIN list = 1..Len(list) /\ Len(list) \in Nat
    BY <1>1
  <2>2. \A i \in DOMAIN list : log[i] \in EntryRecord /\ log[i].stakeholder = list[i] /\ log[i].status = "delivered"
    BY <1>1, <1>2 DEF EntryRecord
  <2> QED
    BY <1>2, <2>1, <2>2
<1>4. /\ broadcasts' \in Seq(Seq(EntryRecord)) /\ Len(broadcasts) \in Nat
      /\ DOMAIN broadcasts = 1..Len(broadcasts) /\ DOMAIN broadcasts' = 1..(Len(broadcasts) + 1)
      /\ Len(broadcasts') = Len(broadcasts) + 1
      /\ broadcasts'[Len(broadcasts) + 1] = log
      /\ \A c \in DOMAIN broadcasts : broadcasts'[c] = broadcasts[c]
  <2>1. broadcasts' = Append(broadcasts, log) /\ broadcasts \in Seq(Seq(EntryRecord))
    BY <1>2 DEF InitiateBroadcast, StoresTyped
  <2> QED
    BY <1>3, <2>1
<1>5. PICK new : new = Len(broadcasts) + 1
  OBVIOUS
<1>6. Notice(new) \in NoticeRecord /\ Notice(new).broadcast = new /\ Notice(new).acknowledged = FALSE
  BY <1>4, <1>5 DEF Notice, NoticeRecord
<1>7. notifications' = [s \in Stakeholder |-> notifications[s] \o [i \in 1..Times(s, list) |-> Notice(new)]]
  BY <1>5 DEF InitiateBroadcast
<1>8. ASSUME NEW s \in Stakeholder
      PROVE  /\ notifications'[s] \in Seq(NoticeRecord)
             /\ \A i \in DOMAIN notifications[s] : i \in DOMAIN notifications'[s] /\ notifications'[s][i] = notifications[s][i]
             /\ \A i \in DOMAIN notifications'[s] :
                  i \in DOMAIN notifications[s] \/ (notifications'[s][i].broadcast = new /\ notifications'[s][i].acknowledged = FALSE)
             /\ (\E i \in DOMAIN list : list[i] = s) => \E i \in DOMAIN notifications'[s] : notifications'[s][i].broadcast = new
             /\ (\E i \in DOMAIN notifications'[s] : notifications'[s][i].broadcast = new) => \E i \in DOMAIN list : list[i] = s
  <2>1. PICK old : old = notifications[s]
    OBVIOUS
  <2>2. PICK add : add = [i \in 1..Times(s, list) |-> Notice(new)]
    OBVIOUS
  <2>3. PICK ns : ns = old \o add
    OBVIOUS
  <2>4. notifications'[s] = ns
    BY <1>7, <2>1, <2>2, <2>3
  <2>5. Times(s, list) \in Nat /\ (Times(s, list) > 0 <=> \E i \in DOMAIN list : list[i] = s)
    BY <1>1, TimesIs
  <2>6. add \in Seq(NoticeRecord) /\ Len(add) = Times(s, list) /\ \A i \in 1..Len(add) : add[i] = Notice(new)
    BY <1>6, <2>2, <2>5
  <2>7. old \in Seq(NoticeRecord) /\ Len(old) \in Nat /\ DOMAIN old = 1..Len(old)
        /\ \A i \in DOMAIN old : old[i].broadcast # new
    BY <1>4, <1>5, <2>1 DEF StoresTyped
  <2>8. /\ ns \in Seq(NoticeRecord) /\ Len(ns) = Len(old) + Len(add)
        /\ \A i \in 1..Len(ns) : ns[i] = IF i <= Len(old) THEN old[i] ELSE add[i - Len(old)]
    <3>1. /\ old \o add \in Seq(NoticeRecord) /\ Len(old \o add) = Len(old) + Len(add)
          /\ \A i \in 1..Len(old) + Len(add) :
               (old \o add)[i] = IF i <= Len(old) THEN old[i] ELSE add[i - Len(old)]
      BY <2>6, <2>7, ConcatProperties
    <3> QED
      BY <2>3, <3>1
  <2>9. DOMAIN ns = 1..Len(ns) /\ Len(add) \in Nat
    BY <2>5, <2>6, <2>8
  <2>10. \A i \in DOMAIN old : i \in DOMAIN ns /\ ns[i] = old[i]
    BY <2>7, <2>8, <2>9
  <2>11. \A i \in DOMAIN ns : i \in DOMAIN old \/ ns[i] = Notice(new)
    BY <2>6, <2>7, <2>8, <2>9
  <2>12. Times(s, list) > 0 <=> \E i \in DOMAIN ns : ns[i].broadcast = new
    <3>1. ASSUME Times(s, list) > 0 PROVE ns[Len(old) + 1].broadcast = new /\ Len(old) + 1 \in DOMAIN ns
      <4>1. Len(old) + 1 \in DOMAIN ns /\ Len(old) + 1 \notin DOMAIN old
        BY <2>5, <2>6, <2>7, <2>8, <2>9, <3>1
      <4> QED
        BY <1>6, <2>11, <4>1
    <3>2. ASSUME NEW i \in DOMAIN ns, ns[i].broadcast = new PROVE Times(s, list) > 0
      <4>1. i \notin DOMAIN old
        BY <2>7, <2>10, <3>2
      <4> QED
        BY <2>5, <2>6, <2>7, <2>8, <2>9, <4>1
    <3> QED
      BY <3>1, <3>2
  <2>13. (\E i \in DOMAIN list : list[i] = s) <=> \E i \in DOMAIN ns : ns[i].broadcast = new
    BY <2>5, <2>12
  <2> QED
    BY <1>6, <2>1, <2>4, <2>8, <2>10, <2>11, <2>13
<1>9. \A s \in Stakeholder : \A i \in DOMAIN notifications[s] : notifications[s][i].broadcast \in 1..Len(broadcasts)
  BY <1>4 DEF StoresTyped
<1>10. StoresTyped'
  <2>1. notifications' \in [Stakeholder -> Seq(NoticeRecord)]
    BY <1>7, <1>8
  <2>2. ASSUME NEW s \in Stakeholder, NEW i \in DOMAIN notifications'[s]
        PROVE  notifications'[s][i].broadcast \in DOMAIN broadcasts'
    <3>1. CASE i \in DOMAIN notifications[s]
      <4>1. notifications'[s][i] = notifications[s][i]
        BY <1>8, <3>1
      <4>2. notifications[s][i].broadcast \in 1..Len(broadcasts)
        BY <1>9, <3>1
      <4> QED
        BY <1>4, <4>1, <4>2
    <3>2. CASE i \notin DOMAIN notifications[s]
      <4>1. notifications'[s][i].broadcast = new
        BY <1>8, <3>2
      <4> QED
        BY <1>4, <1>5, <4>1
    <3> QED
      BY <3>1, <3>2
  <2> QED
    BY <1>4, <2>1, <2>2 DEF StoresTyped
<1>11. LogsInv'
  <2> SUFFICES ASSUME NEW c \in DOMAIN broadcasts', NEW t \in Stakeholder
               PROVE  Agree(notifications'[t], broadcasts'[c], c, t)
    BY DEF LogsInv
  <2>1. CASE c \in DOMAIN broadcasts
    <3>1. Agree(notifications[t], broadcasts[c], c, t) /\ broadcasts'[c] = broadcasts[c]
      BY <1>4, <2>1 DEF LogsInv
    <3>2. c # new
      BY <1>4, <1>5, <2>1
    <3>3. \A i \in DOMAIN notifications'[t] : notifications'[t][i].broadcast = c =>
            i \in DOMAIN notifications[t] /\ notifications'[t][i] = notifications[t][i]
      BY <1>8, <3>2, ZenonT(40)
    <3>4. \A i \in DOMAIN notifications[t] : i \in DOMAIN notifications'[t] /\ notifications'[t][i] = notifications[t][i]
      BY <1>8
    <3> QED
      BY <3>1, <3>3, <3>4, AgreeStays
  <2>2. CASE c = new
    <3>1. broadcasts'[c] = log
      BY <1>4, <1>5, <2>2
    <3>2. ASSUME NEW i \in DOMAIN notifications'[t], notifications'[t][i].broadcast = c
          PROVE  ~notifications'[t][i].acknowledged
      <4>1. CASE i \in DOMAIN notifications[t]
        <5>1. notifications'[t][i] = notifications[t][i]
          BY <1>8, <4>1
        <5>2. notifications[t][i].broadcast \in 1..Len(broadcasts)
          BY <1>9, <4>1
        <5> QED
          BY <1>4, <1>5, <2>2, <3>2, <5>1, <5>2
      <4>2. CASE i \notin DOMAIN notifications[t]
        BY <1>8, <4>2
      <4> QED
        BY <4>1, <4>2
    <3>3. (\E i \in DOMAIN notifications'[t] : notifications'[t][i].broadcast = c) <=>
          (\E i \in DOMAIN log : log[i].stakeholder = t)
      <4>1. (\E i \in DOMAIN notifications'[t] : notifications'[t][i].broadcast = new) <=>
            (\E i \in DOMAIN list : list[i] = t)
        BY <1>8
      <4>2. (\E i \in DOMAIN list : list[i] = t) <=> (\E i \in DOMAIN log : log[i].stakeholder = t)
        BY <1>3
      <4> QED
        BY <2>2, <4>1, <4>2
    <3>4. \A i \in DOMAIN log : log[i].status # "acknowledged"
      BY <1>3
    <3> QED
      BY <3>1, <3>2, <3>3, <3>4 DEF Agree
  <2> QED
    BY <1>4, <1>5, <2>1, <2>2
<1>12. StoresGrow
  <2>1. \A i \in DOMAIN notifications[PANEL] :
          i \in DOMAIN notifications'[PANEL] /\ notifications'[PANEL][i] = notifications[PANEL][i]
    BY <1>8, BroadcastAssumption
  <2>2. \A c \in DOMAIN broadcasts : c \in DOMAIN broadcasts' /\ Behind(broadcasts[c], broadcasts'[c])
    BY <1>4 DEF Behind
  <2> QED
    BY <2>1, <2>2 DEF StoresGrow, Earlier
<1> QED
  BY <1>2, <1>3, <1>4, <1>10, <1>11, <1>12

\* A card that was true of earlier stores is true of later ones.
LEMMA CardStays ==
  ASSUME StoresTyped, StoresTyped', StoresGrow, NEW card \in CardRecord, CardTrue(card)
  PROVE  CardTrue(card)'
<1>1. PICK b \in DOMAIN broadcasts : b = card.broadcast
  BY DEF CardTrue
<1>2. b \in DOMAIN broadcasts' /\ Behind(broadcasts[b], broadcasts'[b])
  BY DEF StoresGrow
<1>3. PICK old, new, log : old = broadcasts[b] /\ new = broadcasts'[b] /\ log = card.log
  OBVIOUS
<1>4. /\ old \in Seq(EntryRecord) /\ log \in Seq(EntryRecord)
      /\ Behind(old, new) /\ Behind(log, old)
  BY <1>1, <1>2, <1>3 DEF StoresTyped, CardTrue, CardRecord
<1>5. DOMAIN log = DOMAIN old
  BY <1>4 DEF Behind
<1>6. Behind(log, new)
  BY <1>4, <1>5 DEF Behind
<1> QED
  BY <1>1, <1>2, <1>3, <1>6 DEF CardTrue

\* What was true of earlier stores is true of later ones.
LEMMA TrueStays ==
  ASSUME StoresTyped, StoresTyped', StoresGrow, NEW m, AnswerTrue(m)
  PROVE  AnswerTrue(m)'
<1>2. m.kind = "initiate" => m.arg \in Lists
  BY DEF AnswerTrue
<1>3. ASSUME m.answered, m.ok, m.kind = "broadcasts"
      PROVE  m.data \in Seq(CardRecord) /\ \A i \in DOMAIN m.data : CardTrue(m.data[i])'
  <2>1. PICK cards : cards = m.data
    OBVIOUS
  <2>2. cards \in Seq(CardRecord) /\ \A i \in DOMAIN cards : CardTrue(cards[i])
    BY <1>3, <2>1 DEF AnswerTrue
  <2>3. \A i \in DOMAIN cards : CardTrue(cards[i])'
    BY <2>2, CardStays
  <2> QED
    BY <2>1, <2>2, <2>3
<1>4. ASSUME m.answered, m.ok, m.kind = "notifications"
      PROVE  m.data \in Seq(NoticeRecord) /\ Earlier(m.data, notifications'[PANEL])
  <2>1. m.data \in Seq(NoticeRecord) /\ Earlier(m.data, notifications[PANEL])
    BY <1>4 DEF AnswerTrue
  <2>2. Earlier(m.data, notifications'[PANEL])
    BY <2>1 DEF StoresGrow, Earlier
  <2> QED
    BY <2>1, <2>2
<1>5. ASSUME m.answered, m.ok, m.kind = "initiate"
      PROVE  m.data \in CardRecord /\ CardTrue(m.data)'
  <2>1. m.data \in CardRecord /\ CardTrue(m.data)
    BY <1>5 DEF AnswerTrue
  <2> QED
    BY <2>1, CardStays
<1> QED
  BY <1>2, <1>3, <1>4, <1>5 DEF AnswerTrue

LEMMA ShownStays ==
  ASSUME StoresTyped, StoresTyped', StoresGrow, PanelTyped, ShownInv, UNCHANGED panel
  PROVE  ShownInv'
<1>1. PICK cards : cards = panel.shown
  OBVIOUS
<1>2. cards \in Seq(CardRecord) /\ \A i \in DOMAIN cards : CardTrue(cards[i])
  BY <1>1 DEF ShownInv, PanelTyped, PanelRecord
<1>3. \A i \in DOMAIN cards : CardTrue(cards[i])'
  BY <1>2, CardStays
<1>4. Earlier(panel.notices, notifications'[PANEL])
  BY DEF ShownInv, StoresGrow, Earlier
<1>5. panel'.shown = cards
  BY <1>1
<1> QED
  BY <1>3, <1>4, <1>5 DEF ShownInv

\* The stores are left alone.
LEMMA StoresSame ==
  ASSUME StoresTyped, LogsInv, UNCHANGED <<broadcasts, notifications>>
  PROVE  StoresTyped' /\ LogsInv' /\ StoresGrow
<1>1. StoresTyped' /\ LogsInv'
  BY DEF StoresTyped, LogsInv
<1>2. \A b \in DOMAIN broadcasts : Behind(broadcasts[b], broadcasts[b])
  BY DEF StoresTyped, Behind
<1> QED
  BY <1>1, <1>2 DEF StoresGrow, Earlier

LEMMA ApiKeeps == ASSUME BroadcastInv, ApiStep PROVE BroadcastInv'
<1>0. StoresTyped /\ PanelTyped /\ LogsInv /\ AnswersInv /\ ShownInv
  BY DEF BroadcastInv
<1>1. StoresTyped' /\ LogsInv' /\ StoresGrow
  BY <1>0, InitiateKeeps, AcknowledgeKeeps DEF ApiStep
<1>2. UNCHANGED <<panel, flying>>
  BY DEF ApiStep
<1>3. PanelTyped'
  BY <1>0, <1>2 DEF PanelTyped
<1>4. AnswersInv'
  <2>1. \A m \in flying : AnswerTrue(m)'
    BY <1>0, <1>1, TrueStays DEF AnswersInv
  <2> QED
    BY <1>2, <2>1 DEF AnswersInv
<1>5. ShownInv'
  BY <1>0, <1>1, <1>2, ShownStays
<1> QED
  BY <1>1, <1>3, <1>4, <1>5 DEF BroadcastInv

\* A request of the panel, not answered yet.
LEMMA AskIs ==
  ASSUME NEW k \in {"broadcasts", "notifications", "initiate", "acknowledge"},
         NEW x \in Nat \cup Seq(Stakeholder)
  PROVE  /\ Ask(k, x) \in MessageRecord
         /\ Ask(k, x).kind = k /\ Ask(k, x).arg = x /\ Ask(k, x).answered = FALSE
<1>1. <<>> \in Payload
  <2>1. <<>> \in Seq(NoticeRecord)
    OBVIOUS
  <2> QED
    BY <2>1 DEF Payload
<1>2. PICK d \in Payload : d = <<>>
  BY <1>1
<1>3. Ask(k, x) = [kind |-> k, arg |-> x, answered |-> FALSE, ok |-> FALSE, data |-> d]
  BY <1>2 DEF Ask
<1> QED
  BY <1>3 DEF MessageRecord

LEMMA PressKeeps ==
  ASSUME BroadcastInv,
         (\E list \in Lists : PressInitiate(list)) \/ (\E b \in DOMAIN broadcasts : PressAcknowledge(b))
  PROVE  BroadcastInv'
<1>0. StoresTyped /\ PanelTyped /\ LogsInv /\ AnswersInv /\ ShownInv
  BY DEF BroadcastInv
<1>1. UNCHANGED <<broadcasts, notifications>>
  BY DEF PressInitiate, PressAcknowledge
<1>2. StoresTyped' /\ LogsInv' /\ StoresGrow
  BY <1>0, <1>1, StoresSame
<1>3. PICK k \in {"broadcasts", "notifications", "initiate", "acknowledge"}, x \in Nat \cup Seq(Stakeholder) :
        (k = "initiate" => x \in Lists) /\ Send(Ask(k, x))
  <2>1. ASSUME NEW list \in Lists, PressInitiate(list)
        PROVE  list \in Seq(Stakeholder) /\ Send(Ask("initiate", list))
    BY <2>1, BroadcastAssumption DEF PressInitiate
  <2>2. ASSUME NEW b \in DOMAIN broadcasts, PressAcknowledge(b)
        PROVE  b \in Nat /\ Send(Ask("acknowledge", b))
    BY <1>0, <2>2 DEF PressAcknowledge, StoresTyped
  <2> QED
    BY <2>1, <2>2
<1>4. PICK m : m = Ask(k, x) /\ m \in MessageRecord /\ AnswerTrue(m)'
  <2>1. PICK m : m = Ask(k, x)
    OBVIOUS
  <2>2. m \in MessageRecord
    BY <1>3, <2>1, AskIs
  <2>3. m.kind = k /\ m.arg = x /\ m.answered = FALSE
    <3>1. Ask(k, x).kind = k /\ Ask(k, x).arg = x /\ Ask(k, x).answered = FALSE
      BY DEF Ask
    <3> QED
      BY <2>1, <3>1
  <2>4. AnswerTrue(m)'
    BY <1>3, <2>3 DEF AnswerTrue
  <2> QED
    BY <2>1, <2>2, <2>4
<1>5. flying' = flying \cup {m}
  BY <1>3, <1>4 DEF Send
<1>6. /\ panel' \in PanelRecord
      /\ panel'.shown = panel.shown /\ panel'.notices = panel.notices
  <2>1. panel' = panel \/ panel' = [panel EXCEPT !.loading = TRUE]
    BY DEF PressInitiate, PressAcknowledge
  <2>2. panel \in PanelRecord
    BY <1>0 DEF PanelTyped
  <2> QED
    BY <2>1, <2>2 DEF PanelRecord
<1>7. PanelTyped'
  BY <1>0, <1>4, <1>5, <1>6 DEF PanelTyped
<1>8. AnswersInv'
  <2>1. \A r \in flying : AnswerTrue(r)'
    BY <1>0, <1>2, TrueStays DEF AnswersInv
  <2> QED
    BY <1>4, <1>5, <2>1 DEF AnswersInv
<1>9. ShownInv'
  BY <1>0, <1>1, <1>6 DEF ShownInv, CardTrue
<1> QED
  BY <1>2, <1>7, <1>8, <1>9 DEF BroadcastInv

\* A request is answered with what is true of the stores after it.
LEMMA ReplyKeeps ==
  ASSUME StoresTyped, StoresTyped', StoresGrow, PanelTyped, AnswersInv, ShownInv,
         NEW m \in flying, NEW good \in BOOLEAN, NEW x \in Payload, Reply(m, good, x),
         good => /\ m.kind = "broadcasts" =>
                      x \in Seq(CardRecord) /\ \A i \in DOMAIN x : CardTrue(x[i])'
                 /\ m.kind = "notifications" =>
                      x \in Seq(NoticeRecord) /\ Earlier(x, notifications'[PANEL])
                 /\ m.kind = "initiate" => x \in CardRecord /\ CardTrue(x)'
  PROVE  PanelTyped' /\ AnswersInv' /\ ShownInv'
<1>1. PICK r : r = [m EXCEPT !.answered = TRUE, !.ok = good, !.data = x]
  OBVIOUS
<1>2. m \in MessageRecord
  BY DEF PanelTyped
<1>3. r \in MessageRecord /\ r.kind = m.kind /\ r.arg = m.arg /\ r.ok = good /\ r.data = x
  BY <1>1, <1>2 DEF MessageRecord
<1>4. flying' = (flying \ {m}) \cup {r} /\ UNCHANGED panel
  BY <1>1 DEF Reply, Answered
<1>5. AnswerTrue(r)'
  <2>1. m.kind = "initiate" => m.arg \in Lists
    BY DEF AnswersInv, AnswerTrue
  <2> QED
    BY <1>3, <2>1 DEF AnswerTrue
<1>6. PanelTyped'
  BY <1>3, <1>4 DEF PanelTyped
<1>7. AnswersInv'
  <2>1. \A q \in flying : AnswerTrue(q)'
    BY TrueStays DEF AnswersInv
  <2> QED
    BY <1>4, <1>5, <2>1 DEF AnswersInv
<1>8. ShownInv'
  BY <1>4, ShownStays
<1> QED
  BY <1>6, <1>7, <1>8

LEMMA RouteKeeps ==
  ASSUME BroadcastInv, NEW m \in flying,
         GetBroadcasts(m) \/ GetNotifications(m) \/ PostBroadcast(m) \/ PostAcknowledgement(m) \/ Refuse(m)
  PROVE  BroadcastInv'
<1>0. StoresTyped /\ PanelTyped /\ LogsInv /\ AnswersInv /\ ShownInv
  BY DEF BroadcastInv
<1>a. <<>> \in Payload
  <2>1. <<>> \in Seq(NoticeRecord)
    OBVIOUS
  <2> QED
    BY <2>1 DEF Payload
<1>1. CASE GetBroadcasts(m)
  <2>1. PICK cards : cards = [b \in DOMAIN broadcasts |-> Card(b, broadcasts[b])]
    OBVIOUS
  <2>2. /\ m.kind = "broadcasts" /\ Reply(m, TRUE, cards)
        /\ UNCHANGED <<broadcasts, notifications>>
    BY <1>1, <2>1 DEF GetBroadcasts
  <2>3. StoresTyped' /\ LogsInv' /\ StoresGrow
    BY <1>0, <2>2, StoresSame
  <2>4. /\ DOMAIN broadcasts = 1..Len(broadcasts) /\ Len(broadcasts) \in Nat
        /\ \A b \in DOMAIN broadcasts : broadcasts[b] \in Seq(EntryRecord)
    BY <1>0 DEF StoresTyped
  <2>5. \A b \in DOMAIN broadcasts : /\ Card(b, broadcasts[b]) \in CardRecord
                                    /\ Card(b, broadcasts[b]).broadcast = b
                                    /\ Card(b, broadcasts[b]).log = broadcasts[b]
    BY <2>4 DEF Card, CardRecord
  <2>6. DOMAIN cards = DOMAIN broadcasts /\ \A b \in DOMAIN broadcasts : cards[b] = Card(b, broadcasts[b])
    BY <2>1
  <2>7. cards \in Seq(CardRecord) /\ cards \in Payload
    BY <2>1, <2>4, <2>5 DEF Payload
  <2>8. \A i \in DOMAIN cards : CardTrue(cards[i])'
    <3> SUFFICES ASSUME NEW i \in DOMAIN cards PROVE CardTrue(cards[i])'
      OBVIOUS
    <3>1. cards[i].broadcast = i /\ cards[i].log = broadcasts[i] /\ i \in DOMAIN broadcasts
      BY <2>5, <2>6
    <3>2. Behind(broadcasts[i], broadcasts[i])
      BY <2>4, <3>1 DEF Behind
    <3> QED
      BY <2>2, <3>1, <3>2 DEF CardTrue
  <2>9. PanelTyped' /\ AnswersInv' /\ ShownInv'
    BY <1>0, <2>2, <2>3, <2>7, <2>8, ReplyKeeps
  <2> QED
    BY <2>3, <2>9 DEF BroadcastInv
<1>2. CASE GetNotifications(m)
  <2>1. /\ m.kind = "notifications" /\ Reply(m, TRUE, notifications[PANEL])
        /\ UNCHANGED <<broadcasts, notifications>>
    BY <1>2 DEF GetNotifications
  <2>2. StoresTyped' /\ LogsInv' /\ StoresGrow
    BY <1>0, <2>1, StoresSame
  <2>3. notifications[PANEL] \in Seq(NoticeRecord)
    BY <1>0, BroadcastAssumption DEF StoresTyped
  <2>4. notifications[PANEL] \in Payload
    BY <2>3 DEF Payload
  <2>5. Earlier(notifications[PANEL], notifications'[PANEL])
    BY <2>2 DEF StoresGrow
  <2>6. PanelTyped' /\ AnswersInv' /\ ShownInv'
    BY <1>0, <2>1, <2>2, <2>3, <2>4, <2>5, ReplyKeeps
  <2> QED
    BY <2>2, <2>6 DEF BroadcastInv
<1>3. CASE PostBroadcast(m)
  <2>1. PICK card : card = Card(Len(broadcasts) + 1, FirstLog(m.arg))
    OBVIOUS
  <2>2. m.kind = "initiate" /\ InitiateBroadcast(m.arg) /\ Reply(m, TRUE, card)
    BY <1>3, <2>1 DEF PostBroadcast
  <2>3. m.arg \in Lists
    BY <1>0, <2>2 DEF AnswersInv, AnswerTrue
  <2>4. /\ StoresTyped' /\ LogsInv' /\ StoresGrow
        /\ Len(broadcasts) + 1 \in DOMAIN broadcasts' /\ FirstLog(m.arg) \in Seq(EntryRecord)
        /\ broadcasts'[Len(broadcasts) + 1] = FirstLog(m.arg)
    BY <1>0, <2>2, <2>3, InitiateKeeps
  <2>5. card.broadcast = Len(broadcasts) + 1 /\ card.log = FirstLog(m.arg)
    BY <2>1 DEF Card
  <2>6. card \in CardRecord /\ card \in Payload
    <3>1. Len(broadcasts) + 1 \in Nat
      BY <1>0 DEF StoresTyped
    <3> QED
      BY <2>1, <2>4, <3>1 DEF Card, CardRecord, Payload
  <2>7. CardTrue(card)'
    <3>1. Behind(FirstLog(m.arg), FirstLog(m.arg))
      BY <2>4 DEF Behind
    <3> QED
      BY <2>4, <2>5, <3>1 DEF CardTrue
  <2>8. PanelTyped' /\ AnswersInv' /\ ShownInv'
    BY <1>0, <2>2, <2>4, <2>6, <2>7, ReplyKeeps
  <2> QED
    BY <2>4, <2>8 DEF BroadcastInv
<1>4. CASE PostAcknowledgement(m)
  <2>1. m.kind = "acknowledge" /\ AcknowledgeNotification(PANEL, m.arg) /\ Reply(m, TRUE, <<>>)
    BY <1>4 DEF PostAcknowledgement
  <2>2. StoresTyped' /\ LogsInv' /\ StoresGrow
    BY <1>0, <2>1, AcknowledgeKeeps, BroadcastAssumption
  <2>3. PanelTyped' /\ AnswersInv' /\ ShownInv'
    BY <1>0, <1>a, <2>1, <2>2, ReplyKeeps
  <2> QED
    BY <2>2, <2>3 DEF BroadcastInv
<1>5. CASE Refuse(m)
  <2>1. Reply(m, FALSE, <<>>) /\ UNCHANGED <<broadcasts, notifications>>
    BY <1>5 DEF Refuse
  <2>2. StoresTyped' /\ LogsInv' /\ StoresGrow
    BY <1>0, <2>1, StoresSame
  <2>3. PanelTyped' /\ AnswersInv' /\ ShownInv'
    BY <1>0, <1>a, <2>1, <2>2, ReplyKeeps
  <2> QED
    BY <2>2, <2>3 DEF BroadcastInv
<1> QED
  BY <1>1, <1>2, <1>3, <1>4, <1>5

\* A new broadcast goes in front of those that are shown.
LEMMA InFront ==
  ASSUME NEW T, NEW n \in T, NEW s \in Seq(T)
  PROVE  /\ <<n>> \o s \in Seq(T)
         /\ \A i \in DOMAIN (<<n>> \o s) : (<<n>> \o s)[i] = n \/ \E j \in DOMAIN s : (<<n>> \o s)[i] = s[j]
<1>1. <<n>> \in Seq(T) /\ Len(<<n>>) = 1 /\ <<n>>[1] = n /\ Len(s) \in Nat /\ DOMAIN s = 1..Len(s)
  OBVIOUS
<1>2. /\ <<n>> \o s \in Seq(T) /\ Len(<<n>> \o s) = 1 + Len(s)
      /\ \A i \in 1..(1 + Len(s)) : (<<n>> \o s)[i] = IF i <= 1 THEN <<n>>[i] ELSE s[i - 1]
  BY <1>1, ConcatProperties
<1>3. PICK t : t = <<n>> \o s
  OBVIOUS
<1>4. t \in Seq(T) /\ DOMAIN t = 1..(1 + Len(s))
  BY <1>1, <1>2, <1>3
<1>5. ASSUME NEW i \in DOMAIN t PROVE t[i] = n \/ \E j \in DOMAIN s : t[i] = s[j]
  <2>1. CASE i = 1
    BY <1>1, <1>2, <1>3, <1>4, <2>1
  <2>2. CASE i # 1
    BY <1>1, <1>2, <1>3, <1>4, <2>2
  <2> QED
    BY <2>1, <2>2
<1> QED
  BY <1>3, <1>4, <1>5

LEMMA TakeAnswerKeeps ==
  ASSUME BroadcastInv, NEW m \in flying, TakeAnswer(m)
  PROVE  BroadcastInv'
<1>0. StoresTyped /\ PanelTyped /\ LogsInv /\ AnswersInv /\ ShownInv
  BY DEF BroadcastInv
<1>1. m.answered /\ UNCHANGED <<broadcasts, notifications>> /\ panel' = Shows(m)
  BY DEF TakeAnswer
<1>2. StoresTyped' /\ LogsInv' /\ StoresGrow
  BY <1>0, <1>1, StoresSame
<1>3. flying' \subseteq flying \cup {LoadNotifications}
  BY DEF TakeAnswer
<1>4. /\ LoadNotifications \in MessageRecord
      /\ LoadNotifications.kind = "notifications" /\ LoadNotifications.answered = FALSE
  BY AskIs DEF LoadNotifications
<1>5. flying' \subseteq MessageRecord
  BY <1>0, <1>3, <1>4 DEF PanelTyped
<1>6. AnswersInv'
  <2>1. \A q \in flying : AnswerTrue(q)'
    BY <1>0, <1>2, TrueStays DEF AnswersInv
  <2>2. ASSUME NEW q, q = LoadNotifications PROVE AnswerTrue(q)'
    BY <1>4, <2>2 DEF AnswerTrue
  <2> QED
    BY <1>3, <2>1, <2>2 DEF AnswersInv
<1>7. /\ panel \in PanelRecord
      /\ \A i \in DOMAIN panel.shown : CardTrue(panel.shown[i])
      /\ Earlier(panel.notices, notifications[PANEL])
  BY <1>0 DEF PanelTyped, ShownInv, StoresTyped
<1>8. /\ Shows(m) \in PanelRecord
      /\ \A i \in DOMAIN Shows(m).shown : CardTrue(Shows(m).shown[i])
      /\ Earlier(Shows(m).notices, notifications[PANEL])
  <2>1. CASE m.kind = "broadcasts" /\ m.ok
    <3>1. PICK cards \in Seq(CardRecord) : cards = m.data /\ \A i \in DOMAIN cards : CardTrue(cards[i])
      BY <1>0, <1>1, <2>1 DEF AnswersInv, AnswerTrue
    <3>2. Shows(m) = [panel EXCEPT !.shown = cards]
      BY <2>1, <3>1 DEF Shows
    <3> QED
      BY <1>7, <3>1, <3>2 DEF PanelRecord
  <2>2. CASE m.kind = "notifications" /\ m.ok
    <3>1. PICK ns \in Seq(NoticeRecord) : ns = m.data /\ Earlier(ns, notifications[PANEL])
      BY <1>0, <1>1, <2>2 DEF AnswersInv, AnswerTrue
    <3>2. Shows(m) = [panel EXCEPT !.notices = ns]
      BY <2>2, <3>1 DEF Shows
    <3> QED
      BY <1>7, <3>1, <3>2 DEF PanelRecord
  <2>3. CASE m.kind = "initiate" /\ m.ok
    <3>1. PICK n \in CardRecord : n = m.data /\ CardTrue(n)
      BY <1>0, <1>1, <2>3 DEF AnswersInv, AnswerTrue
    <3>2. PICK old : old = panel.shown
      OBVIOUS
    <3>3. PICK s : s = <<n>> \o old
      OBVIOUS
    <3>4. old \in Seq(CardRecord) /\ \A i \in DOMAIN old : CardTrue(old[i])
      BY <1>7, <3>2 DEF PanelRecord
    <3>5. s \in Seq(CardRecord) /\ \A i \in DOMAIN s : s[i] = n \/ \E j \in DOMAIN old : s[i] = old[j]
      BY <3>3, <3>4, InFront
    <3>6. \A i \in DOMAIN s : CardTrue(s[i])
      BY <3>1, <3>4, <3>5
    <3>7. Shows(m) = [panel EXCEPT !.shown = s, !.loading = FALSE]
      BY <2>3, <3>1, <3>2, <3>3 DEF Shows
    <3> QED
      BY <1>7, <3>5, <3>6, <3>7 DEF PanelRecord
  <2>4. CASE m.kind = "initiate" /\ ~m.ok
    <3>1. Shows(m) = [panel EXCEPT !.loading = FALSE]
      BY <2>4 DEF Shows
    <3> QED
      BY <1>7, <3>1 DEF PanelRecord
  <2>5. CASE ~(m.kind \in {"broadcasts", "notifications"} /\ m.ok) /\ m.kind # "initiate"
    <3>1. Shows(m) = panel
      BY <2>5 DEF Shows
    <3> QED
      BY <1>7, <3>1
  <2> QED
    BY <2>1, <2>2, <2>3, <2>4, <2>5
<1>9. PanelTyped' /\ ShownInv'
  BY <1>1, <1>5, <1>8 DEF PanelTyped, ShownInv, CardTrue
<1> QED
  BY <1>2, <1>6, <1>9 DEF BroadcastInv

LEMMA BroadcastStart == ASSUME BroadcastInit PROVE BroadcastInv
<1>1. /\ broadcasts = <<>> /\ notifications = [s \in Stakeholder |-> <<>>]
      /\ panel = [shown |-> <<>>, notices |-> <<>>, loading |-> FALSE]
      /\ flying = {LoadBroadcasts, LoadNotifications}
  BY DEF BroadcastInit
<1>2. StoresTyped
  BY <1>1 DEF StoresTyped
<1>3. LogsInv
  BY <1>1 DEF LogsInv
<1>4. /\ LoadNotifications \in MessageRecord /\ LoadBroadcasts \in MessageRecord
      /\ LoadNotifications.kind = "notifications" /\ LoadNotifications.answered = FALSE
      /\ LoadBroadcasts.kind = "broadcasts" /\ LoadBroadcasts.answered = FALSE
  BY AskIs DEF LoadNotifications, LoadBroadcasts
<1>5. PanelTyped
  BY <1>1, <1>4 DEF PanelTyped, PanelRecord
<1>6. AnswersInv
  BY <1>1, <1>4 DEF AnswersInv, AnswerTrue
<1>7. ShownInv
  BY <1>1 DEF ShownInv, Earlier
<1> QED
  BY <1>2, <1>3, <1>5, <1>6, <1>7 DEF BroadcastInv

LEMMA BroadcastStep == ASSUME BroadcastInv, BroadcastNext PROVE BroadcastInv'
  BY ApiKeeps, PressKeeps, TakeAnswerKeeps, RouteKeeps DEF BroadcastNext

LEMMA BroadcastIdle == ASSUME BroadcastInv, UNCHANGED broadcastVars PROVE BroadcastInv'
<1>1. UNCHANGED <<broadcasts, notifications, panel, flying>>
  BY DEF broadcastVars
<1> QED
  BY <1>1 DEF BroadcastInv, StoresTyped, PanelTyped, LogsInv, AnswersInv, AnswerTrue, ShownInv, CardTrue

LEMMA BroadcastsHold == Spec => []BroadcastInv
<1>1. Init => BroadcastInv
  BY BroadcastStart DEF Init
<1>2. BroadcastInv /\ [Next]_servicesVars => BroadcastInv'
  BY BroadcastStep, BroadcastIdle DEF Next, Only, servicesVars
<1> QED
  BY <1>1, <1>2, PTL DEF Spec

\* Whatever the order answers arrive in, what the panel shows as acknowledged is
\* acknowledged, and what it shows was sent, if perhaps a while ago
\* (RecallBroadcastChannel.tsx:49-131, 305-315).
THEOREM PanelsTellTruth == Spec => []PanelShowsTruth
<1>1. BroadcastInv => PanelShowsTruth
  BY DEF BroadcastInv, ShownInv, CardTrue, Behind, Earlier, PanelShowsTruth
<1> QED
  BY <1>1, BroadcastsHold, PTL

\* A sequence has one place at most where its first of some kind is.
LEMMA OneOrNone ==
  ASSUME NEW S, \A i, j \in S : i = j
  PROVE  Cardinality(S) = IF S = {} THEN 0 ELSE 1
<1>1. CASE S = {}
  BY <1>1, FS_EmptySet
<1>2. CASE S # {}
  <2>1. PICK x : S = {x}
    BY <1>2
  <2> QED
    BY <1>2, <2>1, FS_Singleton, Zenon
<1> QED
  BY <1>1, <1>2

\* The log of a broadcast counts the acknowledgements that its stakeholders made, for any
\* lists with any repetitions (recallBroadcastService.ts:116-141, 159-176).
THEOREM LogsCount == Spec => []BroadcastLogAgrees
<1>1. BroadcastInv => BroadcastLogAgrees
  <2> SUFFICES ASSUME BroadcastInv, NEW b \in DOMAIN broadcasts, NEW s \in Stakeholder
               PROVE  Cardinality({i \in DOMAIN notifications[s] :
                          notifications[s][i] = [broadcast |-> b, acknowledged |-> TRUE]}) =
                      Cardinality({i \in DOMAIN broadcasts[b] :
                          broadcasts[b][i] = [stakeholder |-> s, status |-> "acknowledged"]})
    BY DEF BroadcastLogAgrees
  <2>1. PICK ns, log : ns = notifications[s] /\ log = broadcasts[b]
    OBVIOUS
  <2>2. Agree(ns, log, b, s) /\ ns \in Seq(NoticeRecord) /\ log \in Seq(EntryRecord)
    BY <2>1 DEF BroadcastInv, LogsInv, StoresTyped
  <2>3. /\ \A i \in DOMAIN ns : i \in Nat /\ ns[i] \in NoticeRecord
        /\ \A i \in DOMAIN log : i \in Nat /\ log[i] \in EntryRecord
    BY <2>2
  <2>4. \A i \in DOMAIN ns : ns[i] = [broadcast |-> b, acknowledged |-> TRUE] <=>
                              ns[i].broadcast = b /\ ns[i].acknowledged
    BY <2>3 DEF NoticeRecord
  <2>5. \A i \in DOMAIN log : log[i] = [stakeholder |-> s, status |-> "acknowledged"] <=>
                               log[i].stakeholder = s /\ log[i].status = "acknowledged"
    BY <2>3 DEF EntryRecord
  <2>6. PICK N : N = {i \in DOMAIN ns : ns[i] = [broadcast |-> b, acknowledged |-> TRUE]}
    OBVIOUS
  <2>7. PICK L : L = {i \in DOMAIN log : log[i] = [stakeholder |-> s, status |-> "acknowledged"]}
    OBVIOUS
  <2>8. \A i, j \in N : i = j
    BY <2>2, <2>3, <2>4, <2>6 DEF Agree
  <2>9. \A i, j \in L : i = j
    BY <2>2, <2>3, <2>5, <2>7 DEF Agree
  <2>10. N = {} <=> L = {}
    BY <2>2, <2>4, <2>5, <2>6, <2>7 DEF Agree
  <2>11. Cardinality(N) = Cardinality(L)
    BY <2>8, <2>9, <2>10, OneOrNone
  <2> QED
    BY <2>1, <2>6, <2>7, <2>11
<1> QED
  BY <1>1, BroadcastsHold, PTL
=============================================================================
