SPECIFICATION Spec
CONSTANTS
  Dependent = {d1, d2, d3}
  FailureThreshold = 2
  ResetTimeout = 2
  MaxAttempts = 2
  MaxBreakerTime = 6
  Prober = {q1, q2, q3}
  ProbeFailureThreshold = 2
  SuccessThreshold = 2
  ProbeTimeout = 1
  MaxProbeTime = 3
  RecalledProduct = {e1}
  EscalationActor = {u1}
  Notified = {n1, n2}
  MaxEscalations = 1
  Stakeholder <- TwoStakeholders
  PANEL = "default"
  MaxBroadcasts = 2
  Lists <- SomeLists
  MaxFlying = 2
  Severity <- Levels
  Recipient = {w1, w2}
  Channel = {c1}
  CRITICAL = "critical"
  MaxAlerts = 2
  Insured = {i1}
  MaxPolicies = 1
  MaxClaims = 2
  MaxInsuranceTime = 2
  ProductId <- ThreeProducts
  Fixtures <- TwoProducts
  BatchMembers <- Batch
  Auditor = {a1}
  Handler = {r1, r2, r3}
  RiskGrade <- Grades
  Service <- EveryService
INVARIANTS RestsAfterFailures BroadcastLogAgrees PanelShowsTruth CoveredMeansUnclaimed BatchRecallComplete
PROPERTIES ClosesAfterProofs AlertsMoveForward RecordsOnlyGrow PremiumFollowsRisk
CHECK_DEADLOCK FALSE
