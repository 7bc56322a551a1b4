---------------------------- MODULE CircuitBreaker ----------------------------
(***************************************************************************)
(* src/frontend/lib/resilience.ts: the breaker that withContractRetry and  *)
(* withContractWriteRetry share around retried contract calls.  Calls run  *)
(* concurrently: the outcome of one may arrive in a state of the breaker   *)
(* that another has brought about.  An attempt that times out is retried    *)
(* while the breaker counts the whole call once.  Below it, the breaker of *)
(* src/frontend/lib/api/rateLimit.ts, which shares nothing with it: it     *)
(* closes only after SuccessThreshold successes of its half-open state.    *)
(***************************************************************************)
EXTENDS Integers, FiniteSets

CONSTANTS
  Dependent,           \* calls through the breaker
  FailureThreshold, ResetTimeout, MaxAttempts,
  MaxBreakerTime       \* bound

ASSUME BreakerAssumption ==
  /\ FailureThreshold \in Nat \ {0}
  /\ ResetTimeout \in Nat
  /\ MaxAttempts \in Nat \ {0}
  /\ MaxBreakerTime \in Nat

VARIABLES
  state, failures, openedAt,   \* of the breaker
  breakerNow,
  running,     \* attempt each call is at; 0 where it is not running
  streak,      \* history: calls failed since the last success
  lastFailure, \* history: when the last of them failed
  tooEarly     \* history: a call began during the rest after a full streak

breakerVars == <<state, failures, openedAt, breakerNow, running,
                 streak, lastFailure, tooEarly>>

OpensAtOnce == breakerNow - openedAt >= 0                      \* faulty variant
Opens == breakerNow - openedAt >= ResetTimeout

\* CircuitBreaker.call up to the first await: an open circuit refuses (no step).
BeginCall(c) ==
  /\ running[c] = 0
  /\ \/ state = "open" /\ Opens /\ state' = "half-open"
     \/ state # "open" /\ UNCHANGED state
  /\ running' = [running EXCEPT ![c] = 1]
  /\ tooEarly' = (tooEarly \/ (streak >= FailureThreshold /\ breakerNow - lastFailure < ResetTimeout))
  /\ UNCHANGED <<failures, openedAt, breakerNow, streak, lastFailure>>

OnSuccess ==
  /\ failures' = 0 /\ state' = "closed"
  /\ streak' = 0
  /\ UNCHANGED <<openedAt, lastFailure>>

Trips(n) == n >= FailureThreshold
OnFailure ==
  /\ failures' = failures + 1
  /\ IF Trips(failures + 1)
     THEN state' = "open" /\ openedAt' = breakerNow
     ELSE UNCHANGED <<state, openedAt>>
  /\ streak' = streak + 1 /\ lastFailure' = breakerNow

Settle(c) == running' = [running EXCEPT ![c] = 0] /\ UNCHANGED <<breakerNow, tooEarly>>

Succeed(c) == running[c] > 0 /\ OnSuccess /\ Settle(c)

\* A permanent error, or the last attempt, rejects the call.
Fail(c) == running[c] > 0 /\ OnFailure /\ Settle(c)

\* A transient error or a timeout before the last attempt: withRetry backs off
\* and calls again, inside the same call of the breaker.
RetryCall(c) ==
  /\ running[c] > 0 /\ running[c] < MaxAttempts
  /\ running' = [running EXCEPT ![c] = @ + 1]
  /\ UNCHANGED <<state, failures, openedAt, breakerNow, streak, lastFailure, tooEarly>>

BreakerTick ==
  /\ breakerNow < MaxBreakerTime
  /\ breakerNow' = breakerNow + 1
  /\ UNCHANGED <<state, failures, openedAt, running, streak, lastFailure, tooEarly>>

BreakerInit ==
  /\ state = "closed" /\ failures = 0 /\ openedAt = 0
  /\ breakerNow = ResetTimeout
  /\ running = [c \in Dependent |-> 0]
  /\ streak = 0 /\ lastFailure = 0 /\ tooEarly = FALSE

BreakerNext ==
  \/ \E c \in Dependent : BeginCall(c) \/ Succeed(c) \/ Fail(c) \/ RetryCall(c)
  \/ BreakerTick

BreakerSpec == BreakerInit /\ [][BreakerNext]_breakerVars

BreakerTypeOK ==
  /\ state \in {"closed", "open", "half-open"}
  /\ failures \in Nat /\ openedAt \in Int /\ breakerNow \in Nat
  /\ running \in [Dependent -> 0..MaxAttempts]
  /\ streak \in Nat /\ lastFailure \in Int /\ tooEarly \in BOOLEAN

-----------------------------------------------------------------------------
\* When calls have failed the threshold's number of times with no success in
\* between, none begins until the reset timeout has passed since the last of
\* them, however late outcomes of calls in flight arrive (resilience.ts:137-167).
RestsAfterFailures == ~tooEarly

\* The breaker is closed exactly while fewer calls than the threshold failed in
\* a row, and an open one dates from the last failure (resilience.ts:156-167).
ClosedBelowThreshold ==
  /\ state = "closed" <=> failures < FailureThreshold
  /\ failures >= FailureThreshold => openedAt = lastFailure
  /\ failures = streak

-----------------------------------------------------------------------------
\* rateLimit.ts, CircuitBreaker: calls in flight settle in whatever state the
\* others led to.
CONSTANTS
  Prober, ProbeFailureThreshold, SuccessThreshold, ProbeTimeout,
  MaxProbeTime      \* bound

ASSUME ProbeAssumption == {SuccessThreshold, ProbeFailureThreshold, ProbeTimeout} \subseteq Nat

VARIABLES
  probeState, probeFailures, successes, nextAttemptAt,
  probeNow,
  probing,          \* calls in flight
  proofs            \* history: calls that succeeded since the last failure or OPEN

probeVars == <<probeState, probeFailures, successes, nextAttemptAt, probeNow, probing, proofs>>

BeginProbe(c) ==
  /\ c \notin probing
  /\ \/ probeState = "OPEN" /\ probeNow >= nextAttemptAt /\ probeState' = "HALF_OPEN"
     \/ probeState # "OPEN" /\ UNCHANGED probeState
  /\ probing' = probing \cup {c}
  /\ proofs' = IF probeState = "OPEN" THEN 0 ELSE proofs
  /\ UNCHANGED <<probeFailures, successes, nextAttemptAt, probeNow>>

ProbeSucceeds(c) ==
  /\ c \in probing /\ probing' = probing \ {c}
  /\ probeFailures' = 0
  /\ \/ probeState = "HALF_OPEN" /\ successes + 1 >= SuccessThreshold
        /\ probeState' = "CLOSED" /\ successes' = 0
     \/ probeState = "HALF_OPEN" /\ successes + 1 < SuccessThreshold
        /\ successes' = successes + 1 /\ UNCHANGED probeState
     \/ probeState # "HALF_OPEN" /\ UNCHANGED <<probeState, successes>>
  /\ proofs' = proofs + (IF probeState = "HALF_OPEN" THEN 1 ELSE 0)
  /\ UNCHANGED <<nextAttemptAt, probeNow>>

KeepSuccesses == successes                      \* faulty variant
ResetSuccesses == 0
ProbeFails(c) ==
  /\ c \in probing /\ probing' = probing \ {c}
  /\ successes' = ResetSuccesses
  /\ proofs' = 0
  /\ \/ /\ probeState = "HALF_OPEN"
        /\ probeFailures' = 0 /\ probeState' = "OPEN"
        /\ nextAttemptAt' = probeNow + ProbeTimeout
     \/ /\ probeState # "HALF_OPEN"
        /\ probeFailures' = probeFailures + 1
        /\ IF probeFailures + 1 >= ProbeFailureThreshold
           THEN probeState' = "OPEN" /\ nextAttemptAt' = probeNow + ProbeTimeout
           ELSE UNCHANGED <<probeState, nextAttemptAt>>
  /\ UNCHANGED probeNow

ProbeTick ==
  /\ probeNow < MaxProbeTime /\ probeNow' = probeNow + 1
  /\ UNCHANGED <<probeState, probeFailures, successes, nextAttemptAt, probing, proofs>>

ProbeInit ==
  /\ probeState = "CLOSED" /\ probeFailures = 0 /\ successes = 0 /\ nextAttemptAt = 0
  /\ probeNow = 0 /\ probing = {} /\ proofs = 0

ProbeNext ==
  \/ \E c \in Prober : BeginProbe(c) \/ ProbeSucceeds(c) \/ ProbeFails(c)
  \/ ProbeTick

ProbeSpec == ProbeInit /\ [][ProbeNext]_probeVars

-----------------------------------------------------------------------------
\* An opened circuit closes only after the required number of successes in a
\* row since it began to probe, counting no success that arrived while it was
\* still open (rateLimit.ts:257-302).
ClosesAfterProofs ==
  [][probeState # "CLOSED" /\ probeState' = "CLOSED" => proofs' >= SuccessThreshold]_probeVars
=============================================================================
