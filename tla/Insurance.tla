------------------------------- MODULE Insurance -------------------------------
(***************************************************************************)
(* src/frontend/lib/services/insuranceCoverage.ts, its routes, and the     *)
(* panel components/products/InsuranceCoveragePanel.tsx.  The service runs *)
(* in each process that imports it: the routes work on the collection of   *)
(* the server, the panel on one in the browser, and neither sees the       *)
(* other's policies.  Nothing calls voidCoverage, and nothing sets the     *)
(* status 'expired'.  Amounts: a claim is worth a tenth of the policy, and *)
(* only whether that is within the provider's threshold matters.  Below,   *)
(* assessRisk and calculatePremium of the same file, behind POST           *)
(* /api/v1/insurance/premium: scores are exact hundredths here, the code   *)
(* adds binary fractions and compares before it rounds.                    *)
(***************************************************************************)
EXTENDS Naturals, Sequences, FiniteSets

CONSTANTS
  Insured,                       \* products
  MaxPolicies, MaxClaims, MaxInsuranceTime    \* bounds
ASSUME InsuranceAssumption == {MaxPolicies, MaxClaims, MaxInsuranceTime} \subseteq Nat

VARIABLES
  coverage,       \* at each site, the policies by number
  certificates,   \* policies of the server a certificate was issued for, and when
  panelShows,     \* policies listed when the panel last loaded
  insuranceNow

insuranceVars == <<coverage, certificates, panelShows, insuranceNow>>

Site == {"server", "browser"}
NEVER == 0        \* validUntil of a policy without expiry

\* addCoverage
AddCoverage(site, p, from, until, small) ==
  /\ Len(coverage[site]) < MaxPolicies
  /\ coverage' = [coverage EXCEPT ![site] = Append(@,
       [product |-> p, validFrom |-> from, validUntil |-> until, status |-> "active",
        small |-> small, claims |-> <<>>])]

ListCoverageForProduct(site, p) == {i \in DOMAIN coverage[site] : coverage[site][i].product = p}

\* getActiveCoverage; a product is covered when this is not empty (verifyCoverage).
GetActiveCoverage(site, p) ==
  {i \in ListCoverageForProduct(site, p) :
    LET c == coverage[site][i] IN
    /\ c.status = "active" /\ c.validFrom <= insuranceNow
    /\ c.validUntil = NEVER \/ c.validUntil >= insuranceNow}
VerifyCoverage(site, p) == GetActiveCoverage(site, p) # {}

\* addClaimProof: the policy counts as claimed, whatever becomes of the claim.
StatusWhileUndecided(c) == c.status                             \* faulty variant
StatusOnClaim(c) == "claimed"
AddClaimProof(site, i, hash) ==
  LET c == coverage[site][i] IN
  /\ Len(c.claims) < MaxClaims
  /\ coverage' = [coverage EXCEPT ![site][i] =
       [c EXCEPT !.claims = Append(@, [hash |-> hash, status |-> "pending"]),
                 !.status = StatusOnClaim(c)]]

\* updateClaimProofStatus: any status follows any other.
UpdateClaimProofStatus(site, i, k, s) ==
  coverage' = [coverage EXCEPT ![site][i].claims[k].status = s]

\* processClaimAutomatically; it does not look at what was decided before.
Expired(c) == c.validUntil # NEVER /\ insuranceNow > c.validUntil
Decision(c, claim) ==
  IF c.status = "voided" \/ Expired(c) THEN "rejected"
  ELSE IF claim.hash /\ c.small THEN "verified" ELSE claim.status
ProcessClaim(i, k) ==
  UpdateClaimProofStatus("server", i, k,
    Decision(coverage["server"][i], coverage["server"][i].claims[k]))

\* generateInsuranceCertificate
GenerateCertificate(i) ==
  /\ coverage["server"][i].status # "voided"
  /\ certificates' = certificates \cup {[coverage |-> i, issuedAt |-> insuranceNow]}

ListCertificatesForCoverage(i) == {c \in certificates : c.coverage = i}

-----------------------------------------------------------------------------
\* InsuranceCoveragePanel: loads on mount, and after a policy or a claim
PanelLoads(p) == panelShows' = [panelShows EXCEPT ![p] = ListCoverageForProduct("browser", p)']

RegisterByRoute(p, from, until, small) ==
  /\ AddCoverage("server", p, from, until, small)
  /\ UNCHANGED <<certificates, panelShows, insuranceNow>>
ClaimByRoute(i, hash) ==
  /\ AddClaimProof("server", i, hash)
  /\ UNCHANGED <<certificates, panelShows, insuranceNow>>
ProcessByRoute(i, k) ==
  /\ ProcessClaim(i, k)
  /\ UNCHANGED <<certificates, panelShows, insuranceNow>>
DecideByRoute(i, k) ==
  /\ \E s \in {"pending", "verified", "rejected"} : UpdateClaimProofStatus("server", i, k, s)
  /\ UNCHANGED <<certificates, panelShows, insuranceNow>>
CertifyByRoute(i) ==
  /\ GenerateCertificate(i)
  /\ UNCHANGED <<coverage, panelShows, insuranceNow>>

\* handleSubmit of AddCoverageForm: a start left empty is now, an end left empty never.
SubmitCoverage(p, from, until) ==
  /\ AddCoverage("browser", p, from, until, TRUE) /\ PanelLoads(p)
  /\ UNCHANGED <<certificates, insuranceNow>>
\* handleAddClaim of a card the panel shows; the form gives no hash.
SubmitClaim(p, i) ==
  /\ i \in panelShows[p]
  /\ AddClaimProof("browser", i, FALSE) /\ PanelLoads(p)
  /\ UNCHANGED <<certificates, insuranceNow>>

InsuranceTick ==
  /\ insuranceNow < MaxInsuranceTime /\ insuranceNow' = insuranceNow + 1
  /\ UNCHANGED <<coverage, certificates, panelShows>>

InsuranceInit ==
  /\ coverage = [s \in Site |-> <<>>] /\ certificates = {}
  /\ panelShows = [p \in Insured |-> {}]
  /\ insuranceNow = 1

Moments == 1..MaxInsuranceTime
InsuranceNext ==
  \/ \E p \in Insured, from \in Moments, until \in Moments \cup {NEVER} :
       \/ \E small \in BOOLEAN : RegisterByRoute(p, from, until, small)
       \/ SubmitCoverage(p, from, until)
  \/ \E i \in DOMAIN coverage["server"] :
       \/ \E hash \in BOOLEAN : ClaimByRoute(i, hash)
       \/ \E k \in DOMAIN coverage["server"][i].claims : DecideByRoute(i, k) \/ ProcessByRoute(i, k)
       \/ CertifyByRoute(i)
  \/ \E p \in Insured, i \in DOMAIN coverage["browser"] : SubmitClaim(p, i)
  \/ InsuranceTick

-----------------------------------------------------------------------------
\* A product is reported covered only by a policy that the certificate and claim
\* checks too take as not expired and that nobody ever claimed on, even where
\* every claim was rejected or decided late (insuranceCoverage.ts:461-557).
CoveredMeansUnclaimed ==
  \A s \in Site, p \in Insured : \A i \in GetActiveCoverage(s, p) :
    coverage[s][i].claims = <<>> /\ ~Expired(coverage[s][i])

-----------------------------------------------------------------------------
CONSTANT RiskGrade     \* values of a risk score
ASSUME RiskAssumption == RiskGrade \subseteq Nat

VARIABLE asked         \* risk of the last quote that was asked for

\* assessRisk, in hundredths; valueGrade is the product's value in 100,000s.
RiskProfile == [value : RiskGrade, recalled : BOOLEAN, transit : RiskGrade \cap 0..10,
                certified : RiskGrade, storage : RiskGrade \cap 0..10]
CertificationGap(n) == IF n >= 5 THEN 0 ELSE 5 - n
AtMostTen(n) == IF n > 10 THEN 10 ELSE n
AssessRisk(r) ==
  30 * AtMostTen(r.value) + 25 * (IF r.recalled THEN 8 ELSE 1) + 20 * AtMostTen(r.transit)
  + 15 * CertificationGap(r.certified) + 10 * AtMostTen(r.storage)

\* recommendedCoverageMultiplier, in hundredths
MultiplierSwapped(s) == IF s < 250 THEN 100 ELSE IF s < 500 THEN 160  \* faulty variant
                        ELSE IF s < 750 THEN 125 ELSE 200
Multiplier(s) == IF s < 250 THEN 100 ELSE IF s < 500 THEN 125
                 ELSE IF s < 750 THEN 160 ELSE 200

\* calculatePremium: proportional to the multiplier, then rounded; the rate of
\* the provider and the factor of the coverage type are those of one quote.
Premium(r, amount) == (amount * Multiplier(AssessRisk(r)) + 50) \div 100

QuoteInit == asked \in RiskProfile
Quote == asked' \in RiskProfile

-----------------------------------------------------------------------------
\* A riskier product never gets a lower premium for the same amount: the bands of
\* the score, its caps and its rounding keep the order (insuranceCoverage.ts:36-152).
Riskier(r, q) ==
  /\ r.value >= q.value /\ (q.recalled => r.recalled) /\ r.transit >= q.transit
  /\ r.certified <= q.certified /\ r.storage >= q.storage
PremiumFollowsRisk ==
  [][Riskier(asked', asked) => Premium(asked', 1000) >= Premium(asked, 1000)]_asked
=============================================================================
