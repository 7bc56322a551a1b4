---------------------------- MODULE ContractWrites ----------------------------
(***************************************************************************)
(* src/frontend/lib/stellar/live-contract-client.ts and guardianHandover.ts:*)
(* a write asks the node for the account, simulates, has the wallet sign,  *)
(* sends, and answers with the hash the node returned, whatever its status *)
(* and before the ledger closes.  withContractWriteRetry starts it over    *)
(* after a failure or a timeout, and an attempt that timed out runs on.    *)
(* Approvals and rejections read the contract's nonce once, before the     *)
(* retries.  The node, the wallet and the ledger are external; all writes  *)
(* are signed by one account.  The breaker around a call is CircuitBreaker.*)
(***************************************************************************)
EXTENDS Naturals, Sequences

CONSTANTS
  Write,          \* calls of the write methods
  Nonced,         \* those that carry a nonce
  WriteAttempts,  \* attempts of one call (2)
  MaxSequence     \* bound: transactions of the account

ASSUME WriteAssumption == Nonced \subseteq Write /\ {WriteAttempts, MaxSequence} \subseteq Nat \ {0}

VARIABLES
  account,   \* sequence number of the account on the ledger
  nonce,     \* nonce of the account in the contract
  applied,   \* calls that took effect, in order
  mempool,   \* transactions the node accepted
  attempt,   \* attempts of each call, the last one being awaited
  call       \* what the caller of each write sees

writeVars == <<account, nonce, applied, mempool, attempt, call>>

Transaction(w, k) == [write |-> w, number |-> attempt[w][k].number, nonce |-> attempt[w][k].nonce]

\* The write methods of the client: approveEvent and rejectEvent first read the
\* nonce, every other method goes to executeWrite at once.
FreshAttempt == [at |-> "account", number |-> 0, nonce |-> 0]
Begin(w, n) ==
  /\ attempt' = [attempt EXCEPT ![w] = Append(@, [FreshAttempt EXCEPT !.nonce = n])]
  /\ call' = [call EXCEPT ![w] = "trying"]

ExecuteWrite(w) ==
  /\ call[w] = "idle" /\ w \notin Nonced
  /\ Begin(w, 0)
  /\ UNCHANGED <<account, nonce, applied, mempool>>

AskNonce(w) ==
  /\ call[w] = "idle" /\ w \in Nonced
  /\ call' = [call EXCEPT ![w] = "asking"]
  /\ UNCHANGED <<account, nonce, applied, mempool, attempt>>

\* executeRead("get_nonce"): an answer, or an error once its retries are used up.
GetNonce(w) ==
  /\ call[w] = "asking"
  /\ \/ Begin(w, nonce)
     \/ call' = [call EXCEPT ![w] = "failed"] /\ UNCHANGED attempt
  /\ UNCHANGED <<account, nonce, applied, mempool>>

IsAwaited(w, k) == call[w] = "trying" /\ k = Len(attempt[w])
AfterFailure(w) ==
  [call EXCEPT ![w] = IF Len(attempt[w]) < WriteAttempts THEN "backoff" ELSE "failed"]
Move(w, k, step) == attempt' = [attempt EXCEPT ![w][k].at = step]

\* buildSignAndSubmit, one step per call to the node or the wallet.
GetAccount(w, k) ==
  /\ attempt[w][k].at = "account"
  /\ attempt' = [attempt EXCEPT ![w][k] = [@ EXCEPT !.at = "simulate", !.number = account]]
  /\ UNCHANGED <<account, nonce, applied, mempool, call>>

Simulate(w, k) ==
  /\ attempt[w][k].at = "simulate"
  /\ IF w \in Nonced => attempt[w][k].nonce = nonce
     THEN Move(w, k, "sign") /\ UNCHANGED call
     ELSE /\ Move(w, k, "over")          \* the contract refuses: not retried
          /\ call' = IF IsAwaited(w, k) THEN [call EXCEPT ![w] = "failed"] ELSE call
  /\ UNCHANGED <<account, nonce, applied, mempool>>

SignTransaction(w, k) ==
  /\ attempt[w][k].at = "sign"
  /\ Move(w, k, "send")
  /\ UNCHANGED <<account, nonce, applied, mempool, call>>

\* sendTransaction: the node takes the transaction or refuses it; the status
\* is not looked at.
Accepts(t) == t.number = account /\ \A u \in mempool : u.number # t.number
SendTransaction(w, k) ==
  /\ attempt[w][k].at = "send"
  /\ Move(w, k, "answer")
  /\ mempool' = IF Accepts(Transaction(w, k)) THEN mempool \cup {Transaction(w, k)} ELSE mempool
  /\ UNCHANGED <<account, nonce, applied, call>>

ReturnHash(w, k) ==
  /\ attempt[w][k].at = "answer"
  /\ Move(w, k, "over")
  /\ call' = IF IsAwaited(w, k) THEN [call EXCEPT ![w] = "hash"] ELSE call
  /\ UNCHANGED <<account, nonce, applied, mempool>>

\* The node cannot be reached, or the wallet declines.
StepFails(w, k) ==
  /\ attempt[w][k].at # "over"
  /\ Move(w, k, "over")
  /\ call' = IF IsAwaited(w, k) THEN AfterFailure(w) ELSE call
  /\ UNCHANGED <<account, nonce, applied, mempool>>

\* withTimeout: the attempt is no longer awaited, but goes on.
TimesOut(w) ==
  /\ call[w] = "trying"
  /\ call' = AfterFailure(w)
  /\ UNCHANGED <<account, nonce, applied, mempool, attempt>>

NonceAgain(w) == IF w \in Nonced THEN nonce ELSE 0            \* faulty variant
NonceOfCall(w) == attempt[w][1].nonce
RetryWrite(w) ==
  /\ call[w] = "backoff"
  /\ Begin(w, NonceOfCall(w))
  /\ UNCHANGED <<account, nonce, applied, mempool>>

\* The ledger applies a transaction of the next sequence number, or its time
\* bounds pass.  A call the contract refuses uses the number up.
Apply(t) ==
  /\ t \in mempool /\ t.number = account /\ account < MaxSequence
  /\ mempool' = mempool \ {t} /\ account' = account + 1
  /\ IF t.write \in Nonced
     THEN IF t.nonce = nonce
          THEN nonce' = nonce + 1 /\ applied' = Append(applied, t.write)
          ELSE UNCHANGED <<nonce, applied>>
     ELSE applied' = Append(applied, t.write) /\ UNCHANGED nonce
  /\ UNCHANGED <<attempt, call>>
Expire(t) ==
  /\ t \in mempool
  /\ mempool' = mempool \ {t}
  /\ UNCHANGED <<account, nonce, applied, attempt, call>>

WritesInit ==
  /\ account = 0 /\ nonce = 0 /\ applied = <<>> /\ mempool = {}
  /\ attempt = [w \in Write |-> <<>>]
  /\ call = [w \in Write |-> "idle"]

CallStep(w) ==
  \/ GetNonce(w) \/ TimesOut(w) \/ RetryWrite(w)
  \/ \E k \in DOMAIN attempt[w] :
       \/ GetAccount(w, k) \/ Simulate(w, k) \/ SignTransaction(w, k)
       \/ SendTransaction(w, k) \/ ReturnHash(w, k) \/ StepFails(w, k)
WritesNext ==
  \/ \E w \in Write : ExecuteWrite(w) \/ AskNonce(w) \/ CallStep(w)
  \/ \E t \in mempool : Apply(t) \/ Expire(t)

WritesSpec == WritesInit /\ [][WritesNext]_writeVars

-----------------------------------------------------------------------------
\* One approval or rejection takes effect at most once, however its attempts
\* overlap in the wallet and on the way to the ledger, because they share the
\* nonce read before the first (live-contract-client.ts:361-389; nonce.ts:10-14).
NoncedAppliesOnce ==
  \A i, j \in DOMAIN applied : applied[i] \in Nonced /\ applied[i] = applied[j] => i = j

=============================================================================
