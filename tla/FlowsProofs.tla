----------------------------- MODULE FlowsProofs -----------------------------
(***************************************************************************)
(* What the client's flows promise, for any number of calls, attempts,     *)
(* addresses, edits, issuers, records and requests.                        *)
(***************************************************************************)
EXTENDS Flows, SequenceTheorems, FiniteSetTheorems, WellFoundedInduction, TLAPS

-----------------------------------------------------------------------------
(* ContractWrites: an approval or a rejection takes effect once *)

\* What an attempt and a transaction are made of.
Stage == {"account", "simulate", "sign", "send", "answer", "over"}
Seen == {"idle", "asking", "trying", "backoff", "hash", "failed"}
AttemptRecord == [at : Stage, number : Nat, nonce : Nat]
TransactionRecord == [write : Write, number : Nat, nonce : Nat]

WritesType ==
  /\ account \in Nat /\ nonce \in Nat
  /\ applied \in Seq(Write)
  /\ mempool \subseteq TransactionRecord
  /\ attempt \in [Write -> Seq(AttemptRecord)]
  /\ call \in [Write -> Seen]

\* Begin: one more attempt at its first step.
LEMMA BeginType ==
  ASSUME WritesType, NEW w \in Write, NEW n \in Nat, Begin(w, n)
  PROVE  /\ attempt' \in [Write -> Seq(AttemptRecord)] /\ call' \in [Write -> Seen]
         /\ attempt'[w] = Append(attempt[w], [FreshAttempt EXCEPT !.nonce = n])
         /\ \A v \in Write \ {w} : attempt'[v] = attempt[v]
<1>0. [FreshAttempt EXCEPT !.nonce = n] = [at |-> "account", number |-> 0, nonce |-> n]
  BY DEF FreshAttempt
<1>1. [FreshAttempt EXCEPT !.nonce = n] \in AttemptRecord
  BY <1>0 DEF AttemptRecord, Stage
<1>2. Append(attempt[w], [FreshAttempt EXCEPT !.nonce = n]) \in Seq(AttemptRecord)
  BY <1>1 DEF WritesType
<1>3. attempt' = [attempt EXCEPT ![w] = Append(attempt[w], [FreshAttempt EXCEPT !.nonce = n])]
  BY DEF Begin
<1>4. call' = [call EXCEPT ![w] = "trying"] /\ "trying" \in Seen
  BY DEF Begin, Seen
<1> QED
  BY <1>2, <1>3, <1>4 DEF WritesType

\* The steps of an attempt change where it is and, at the first, its number.
Same(w, k, r) == /\ r \in AttemptRecord /\ r.nonce = attempt[w][k].nonce
                 /\ attempt' = [attempt EXCEPT ![w] = [@ EXCEPT ![k] = r]]

\* Such a step keeps the types, the number of attempts of each call and their
\* nonces (live-contract-client.ts, withRetry around each attempt).
LEMMA MoveType ==
  ASSUME WritesType, NEW w \in Write, NEW k \in DOMAIN attempt[w], NEW r, Same(w, k, r)
  PROVE  /\ attempt' \in [Write -> Seq(AttemptRecord)]
         /\ \A v \in Write : /\ Len(attempt'[v]) = Len(attempt[v])
                             /\ DOMAIN attempt'[v] = DOMAIN attempt[v]
                             /\ \A j \in DOMAIN attempt[v] : attempt'[v][j].nonce = attempt[v][j].nonce
<1>1. attempt[w] \in Seq(AttemptRecord)
  BY DEF WritesType
<1>2. [attempt[w] EXCEPT ![k] = r] \in Seq(AttemptRecord)
  BY <1>1 DEF Same
<1>3. attempt'[w] = [attempt[w] EXCEPT ![k] = r] /\ \A v \in Write \ {w} : attempt'[v] = attempt[v]
  BY DEF Same, WritesType
<1>4. attempt' \in [Write -> Seq(AttemptRecord)]
  BY <1>2 DEF Same, WritesType
<1>5. /\ Len(attempt'[w]) = Len(attempt[w])
      /\ DOMAIN attempt'[w] = DOMAIN attempt[w]
      /\ \A j \in DOMAIN attempt[w] : attempt'[w][j].nonce = attempt[w][j].nonce
  BY <1>1, <1>2, <1>3 DEF Same
<1> QED
  BY <1>3, <1>4, <1>5

\* Which record each step of an attempt leaves.
LEMMA GetAccountSame ==
  ASSUME WritesType, NEW w \in Write, NEW k \in DOMAIN attempt[w], GetAccount(w, k)
  PROVE  \E r : Same(w, k, r)
<1> DEFINE r == [attempt[w][k] EXCEPT !.at = "simulate", !.number = account]
<1>1. attempt[w][k] \in AttemptRecord
  BY DEF WritesType
<1>2. r \in AttemptRecord /\ r.nonce = attempt[w][k].nonce
  BY <1>1 DEF WritesType, AttemptRecord, Stage
<1>3. attempt' = [attempt EXCEPT ![w] = [@ EXCEPT ![k] = r]]
  BY DEF GetAccount
<1> QED
  BY <1>2, <1>3 DEF Same

\* An attempt that moves on keeps the nonce it was built with.
LEMMA MoveSame ==
  ASSUME WritesType, NEW w \in Write, NEW k \in DOMAIN attempt[w],
         NEW nextStage \in Stage, Move(w, k, nextStage)
  PROVE  \E r : Same(w, k, r)
<1> DEFINE r == [attempt[w][k] EXCEPT !.at = nextStage]
<1>1. attempt[w][k] \in AttemptRecord
  BY DEF WritesType
<1>2. r \in AttemptRecord /\ r.nonce = attempt[w][k].nonce
  BY <1>1 DEF AttemptRecord
<1>3. attempt' = [attempt EXCEPT ![w] = [@ EXCEPT ![k] = r]]
  BY DEF Move
<1> QED
  BY <1>2, <1>3 DEF Same

\* Send: what the node may keep.
LEMMA TransactionType ==
  ASSUME WritesType, NEW w \in Write, NEW k \in DOMAIN attempt[w]
  PROVE  Transaction(w, k) \in TransactionRecord
<1>1. attempt[w][k] \in AttemptRecord
  BY DEF WritesType
<1> QED
  BY <1>1 DEF Transaction, AttemptRecord, TransactionRecord

-----------------------------------------------------------------------------
\* All attempts of a nonced call carry the nonce of the first, and so do its
\* transactions; a call that took effect has used its nonce up.
Started(w) == attempt[w] # <<>>
OneNonce(w) == \A k \in DOMAIN attempt[w] : attempt[w][k].nonce = attempt[w][1].nonce

NonceInv ==
  /\ \A w \in Write : call[w] \in {"trying", "backoff"} => Started(w)
  /\ \A w \in Nonced : OneNonce(w)
  /\ \A w \in Nonced : call[w] \in {"idle", "asking"} => ~Started(w)
  /\ \A t \in mempool : t.write \in Nonced => Started(t.write) /\ t.nonce = attempt[t.write][1].nonce
  /\ \A i \in DOMAIN applied :
       applied[i] \in Nonced => Started(applied[i]) /\ attempt[applied[i]][1].nonce < nonce
  /\ NoncedAppliesOnce

WritesInv == WritesType /\ NonceInv

\* What a step of the client leaves of the invariant: the nonce of a call that
\* has started stays, and each attempt has it.
KeepsNonces ==
  /\ \A w \in Write : Started(w) => Started(w)' /\ attempt'[w][1].nonce = attempt[w][1].nonce
  /\ \A w \in Nonced : OneNonce(w)'

\* A step that keeps the nonces keeps every call on the nonce of its first attempt.
LEMMA SameKeeps ==
  ASSUME WritesInv, NEW w \in Write, NEW k \in DOMAIN attempt[w], NEW r, Same(w, k, r)
  PROVE  KeepsNonces /\ attempt' \in [Write -> Seq(AttemptRecord)]
         /\ \A v \in Write : Started(v)' = Started(v)
<1>1. /\ attempt' \in [Write -> Seq(AttemptRecord)]
      /\ \A v \in Write : /\ Len(attempt'[v]) = Len(attempt[v])
                          /\ DOMAIN attempt'[v] = DOMAIN attempt[v]
                          /\ \A j \in DOMAIN attempt[v] : attempt'[v][j].nonce = attempt[v][j].nonce
  BY MoveType DEF WritesInv
<1>2. \A v \in Write : attempt[v] \in Seq(AttemptRecord) /\ attempt'[v] \in Seq(AttemptRecord)
  BY <1>1 DEF WritesInv, WritesType
<1>3. \A v \in Write : Started(v)' = Started(v) /\ (Started(v) => 1 \in DOMAIN attempt[v])
  BY <1>1, <1>2 DEF Started
<1>4. \A v \in Nonced : OneNonce(v)'
  <2> TAKE v \in Nonced
  <2>1. v \in Write
    BY WriteAssumption
  <2>2. OneNonce(v)
    BY DEF WritesInv, NonceInv
  <2>3. ASSUME NEW j \in DOMAIN attempt'[v] PROVE attempt'[v][j].nonce = attempt'[v][1].nonce
    <3>1. j \in DOMAIN attempt[v] /\ 1 \in DOMAIN attempt[v]
      BY <1>1, <1>2, <2>1
    <3> QED
      BY <1>1, <2>1, <2>2, <3>1 DEF OneNonce
  <2> QED
    BY <2>3 DEF OneNonce
<1> QED
  BY <1>1, <1>3, <1>4 DEF KeepsNonces

\* A new attempt of a nonced call takes the nonce of the first one (nonce.ts with
\* the retry of live-contract-client.ts), so all of them still agree.
LEMMA BeginKeeps ==
  ASSUME WritesInv, NEW w \in Write, NEW n \in Nat, Begin(w, n),
         w \in Nonced /\ Started(w) => n = attempt[w][1].nonce
  PROVE  KeepsNonces /\ attempt' \in [Write -> Seq(AttemptRecord)] /\ call' \in [Write -> Seen]
         /\ Started(w)' /\ \A v \in Write \ {w} : attempt'[v] = attempt[v]
<1> DEFINE a == [FreshAttempt EXCEPT !.nonce = n]
<1>1. /\ attempt' \in [Write -> Seq(AttemptRecord)] /\ call' \in [Write -> Seen]
      /\ attempt'[w] = Append(attempt[w], a)
      /\ \A v \in Write \ {w} : attempt'[v] = attempt[v]
  BY BeginType DEF WritesInv
<1>2. a.nonce = n
  BY DEF FreshAttempt
<1>3. attempt[w] \in Seq(AttemptRecord) /\ attempt'[w] \in Seq(AttemptRecord)
  BY <1>1 DEF WritesInv, WritesType
<1>4. /\ Started(w)'
      /\ \A j \in DOMAIN attempt'[w] :
           \/ j \in DOMAIN attempt[w] /\ attempt'[w][j] = attempt[w][j]
           \/ j = Len(attempt[w]) + 1 /\ attempt'[w][j] = a
  <2>1. a \in AttemptRecord
    BY DEF a, FreshAttempt, AttemptRecord, Stage
  <2> HIDE DEF a
  <2>2. /\ Len(attempt'[w]) = Len(attempt[w]) + 1
        /\ \A j \in 1..Len(attempt[w]) : attempt'[w][j] = attempt[w][j]
        /\ attempt'[w][Len(attempt[w]) + 1] = a
    BY <1>1, <1>3, <2>1, AppendProperties
  <2> QED
    BY <1>3, <2>2 DEF Started
<1>5. Started(w) => 1 \in DOMAIN attempt[w] /\ attempt'[w][1] = attempt[w][1]
  BY <1>1, <1>3 DEF Started
<1>6. ~Started(w) => attempt'[w][1] = a /\ DOMAIN attempt'[w] = {1}
  BY <1>1, <1>3 DEF Started
<1>7. ASSUME w \in Nonced PROVE OneNonce(w)'
  <2>1. OneNonce(w)
    BY <1>7 DEF WritesInv, NonceInv
  <2>2. CASE Started(w)
    <3>1. attempt'[w][1] = attempt[w][1] /\ n = attempt[w][1].nonce
      BY <1>5, <1>7, <2>2
    <3>2. ASSUME NEW j \in DOMAIN attempt'[w] PROVE attempt'[w][j].nonce = n
      BY <1>2, <1>4, <2>1, <3>1, <3>2 DEF OneNonce
    <3> QED
      BY <3>1, <3>2 DEF OneNonce
  <2>3. CASE ~Started(w)
    BY <1>6, <2>3 DEF OneNonce
  <2> QED
    BY <2>2, <2>3
<1>8. ASSUME NEW v \in Nonced, v # w PROVE OneNonce(v)'
  <2>1. OneNonce(v) /\ attempt'[v] = attempt[v]
    BY <1>1, <1>8, WriteAssumption DEF WritesInv, NonceInv
  <2> QED
    BY <2>1 DEF OneNonce
<1>9. \A v \in Write : Started(v) => Started(v)' /\ attempt'[v][1].nonce = attempt[v][1].nonce
  BY <1>1, <1>4, <1>5 DEF Started
<1> QED
  BY <1>1, <1>4, <1>7, <1>8, <1>9 DEF KeepsNonces

\* A step of the client that keeps nonces keeps the invariant.
LEMMA ClientStep ==
  ASSUME WritesInv, KeepsNonces,
         attempt' \in [Write -> Seq(AttemptRecord)], call' \in [Write -> Seen],
         \A w \in Write : call'[w] \in {"trying", "backoff"} => Started(w)',
         \A w \in Nonced : call'[w] \in {"idle", "asking"} => ~Started(w)',
         account' = account, nonce' = nonce, applied' = applied,
         \A t \in mempool' \ mempool :
            /\ t \in TransactionRecord
            /\ t.write \in Nonced => Started(t.write) /\ t.nonce = attempt[t.write][1].nonce
  PROVE  WritesInv'
<1>1. WritesType'
  BY DEF WritesInv, WritesType
<1>2. \A t \in mempool' : t.write \in Nonced => Started(t.write)' /\ t.nonce = attempt'[t.write][1].nonce
  <2> SUFFICES ASSUME NEW t \in mempool', t.write \in Nonced
               PROVE  Started(t.write)' /\ t.nonce = attempt'[t.write][1].nonce
    OBVIOUS
  <2>1. Started(t.write) /\ t.nonce = attempt[t.write][1].nonce
    BY DEF WritesInv, NonceInv
  <2> QED
    BY <2>1, WriteAssumption DEF KeepsNonces
<1>3. \A i \in DOMAIN applied' :
        applied'[i] \in Nonced => attempt'[applied'[i]] # <<>> /\ attempt'[applied'[i]][1].nonce < nonce'
  <2> SUFFICES ASSUME NEW i \in DOMAIN applied, applied[i] \in Nonced
               PROVE  attempt'[applied[i]] # <<>> /\ attempt'[applied[i]][1].nonce < nonce
    OBVIOUS
  <2>1. Started(applied[i]) /\ attempt[applied[i]][1].nonce < nonce
    BY DEF WritesInv, NonceInv
  <2>2. attempt'[applied[i]] # <<>> /\ attempt'[applied[i]][1].nonce = attempt[applied[i]][1].nonce
    BY <2>1, WriteAssumption DEF KeepsNonces, Started
  <2> QED
    BY <2>1, <2>2
<1>4. NoncedAppliesOnce'
  BY DEF WritesInv, NonceInv, NoncedAppliesOnce
<1>5. \A w \in Nonced : OneNonce(w)'
  BY DEF KeepsNonces
<1>6. /\ \A w \in Write : call'[w] \in {"trying", "backoff"} => Started(w)'
      /\ \A w \in Nonced : call'[w] \in {"idle", "asking"} => ~Started(w)'
  OBVIOUS
<1>7. NonceInv'
  BY <1>2, <1>3, <1>4, <1>5, <1>6 DEF NonceInv, Started
<1> QED
  BY <1>1, <1>7 DEF WritesInv

\* Where attempts only move, no call starts.
LEMMA AttemptStep ==
  ASSUME WritesInv, NEW w \in Write, NEW k \in DOMAIN attempt[w],
         GetAccount(w, k) \/ Simulate(w, k) \/ SignTransaction(w, k)
           \/ SendTransaction(w, k) \/ ReturnHash(w, k) \/ StepFails(w, k)
  PROVE  WritesInv'
<1> USE DEF Stage
<1>1. \E r : Same(w, k, r)
  BY GetAccountSame, MoveSame
     DEF WritesInv, Simulate, SignTransaction, SendTransaction, ReturnHash, StepFails
<1>2. KeepsNonces /\ attempt' \in [Write -> Seq(AttemptRecord)] /\ \A v \in Write : Started(v)' = Started(v)
  BY <1>1, SameKeeps
<1>3. Started(w)
  BY DEF Started, WritesInv, WritesType
<1>4. \/ call' = call
      \/ \E c \in {"failed", "hash", "backoff"} : call' = [call EXCEPT ![w] = c]
  BY DEF GetAccount, Simulate, SignTransaction, SendTransaction, ReturnHash, StepFails, AfterFailure
<1>5. /\ call' \in [Write -> Seen]
      /\ \A v \in Write : call'[v] = call[v] \/ (v = w /\ call'[v] \in {"failed", "hash", "backoff"})
  <2>1. call \in [Write -> Seen]
    BY DEF WritesInv, WritesType
  <2>2. ASSUME NEW c \in {"failed", "hash", "backoff"}, call' = [call EXCEPT ![w] = c]
        PROVE  /\ call' \in [Write -> Seen]
               /\ \A v \in Write : call'[v] = call[v] \/ (v = w /\ call'[v] \in {"failed", "hash", "backoff"})
    BY <2>1, <2>2 DEF Seen
  <2>3. CASE call' = call
    BY <2>1, <2>3
  <2> QED
    BY <1>4, <2>2, <2>3
<1>6. /\ \A v \in Write : call'[v] \in {"trying", "backoff"} => Started(v)'
      /\ \A v \in Nonced : call'[v] \in {"idle", "asking"} => ~Started(v)'
  BY <1>2, <1>3, <1>5, WriteAssumption DEF WritesInv, NonceInv
<1>7. account' = account /\ nonce' = nonce /\ applied' = applied
  BY DEF GetAccount, Simulate, SignTransaction, SendTransaction, ReturnHash, StepFails
<1>8. mempool' \subseteq mempool \cup {Transaction(w, k)}
  BY DEF GetAccount, Simulate, SignTransaction, SendTransaction, ReturnHash, StepFails
<1>9. /\ Transaction(w, k) \in TransactionRecord
      /\ Transaction(w, k).write = w /\ Transaction(w, k).nonce = attempt[w][k].nonce
  BY TransactionType DEF WritesInv, Transaction
<1>10. w \in Nonced => attempt[w][k].nonce = attempt[w][1].nonce
  BY DEF WritesInv, NonceInv, OneNonce
<1> QED
  BY <1>2, <1>3, <1>5, <1>6, <1>7, <1>8, <1>9, <1>10, ClientStep

\* A call begins, its nonce is asked for, it is started over.
LEMMA CallerStep ==
  ASSUME WritesInv, NEW w \in Write,
         ExecuteWrite(w) \/ AskNonce(w) \/ GetNonce(w) \/ TimesOut(w) \/ RetryWrite(w)
  PROVE  WritesInv'
<1> USE DEF Seen
<1>1. /\ \A v \in Write : call[v] \in {"trying", "backoff"} => Started(v)
      /\ \A v \in Nonced : OneNonce(v) /\ (call[v] \in {"idle", "asking"} => ~Started(v))
      /\ attempt \in [Write -> Seq(AttemptRecord)] /\ call \in [Write -> Seen] /\ nonce \in Nat
  BY DEF WritesInv, NonceInv, WritesType
<1>2. account' = account /\ nonce' = nonce /\ applied' = applied /\ mempool' = mempool
  BY DEF ExecuteWrite, AskNonce, GetNonce, TimesOut, RetryWrite
<1>3. ASSUME NEW n \in Nat, Begin(w, n), w \in Nonced /\ Started(w) => n = attempt[w][1].nonce
      PROVE  WritesInv'
  <2>1. /\ KeepsNonces /\ attempt' \in [Write -> Seq(AttemptRecord)] /\ call' \in [Write -> Seen]
        /\ Started(w)' /\ \A v \in Write \ {w} : attempt'[v] = attempt[v]
    BY <1>3, BeginKeeps
  <2>2. call'[w] = "trying" /\ \A v \in Write \ {w} : call'[v] = call[v]
    BY <1>1, <1>3 DEF Begin
  <2>3. \A v \in Write \ {w} : Started(v)' = Started(v)
    BY <2>1 DEF Started
  <2>4. /\ \A v \in Write : call'[v] \in {"trying", "backoff"} => Started(v)'
        /\ \A v \in Nonced : call'[v] \in {"idle", "asking"} => ~Started(v)'
    BY <1>1, <2>1, <2>2, <2>3, WriteAssumption
  <2> QED
    BY <1>2, <2>1, <2>4, ClientStep
<1>4. ASSUME attempt' = attempt, NEW c \in {"asking", "failed", "backoff"}, call' = [call EXCEPT ![w] = c],
             c = "asking" => call[w] = "idle", c = "backoff" => call[w] = "trying"
      PROVE  WritesInv'
  <2>1. call' \in [Write -> Seen] /\ call'[w] = c /\ \A v \in Write \ {w} : call'[v] = call[v]
    BY <1>1, <1>4
  <2>2. \A v \in Write : Started(v)' = Started(v)
    BY <1>4 DEF Started
  <2>3. KeepsNonces
    BY <1>1, <1>4, <2>2 DEF KeepsNonces, OneNonce
  <2>4. /\ \A v \in Write : call'[v] \in {"trying", "backoff"} => Started(v)'
        /\ \A v \in Nonced : call'[v] \in {"idle", "asking"} => ~Started(v)'
    BY <1>1, <1>4, <2>1, <2>2, WriteAssumption
  <2> QED
    BY <1>1, <1>2, <1>4, <2>1, <2>3, <2>4, ClientStep
<1>5. CASE ExecuteWrite(w)
  BY <1>3, <1>5 DEF ExecuteWrite
<1>6. CASE AskNonce(w)
  BY <1>4, <1>6 DEF AskNonce
<1>7. CASE GetNonce(w)
  <2>1. CASE Begin(w, nonce)
    <3>1. w \in Nonced => ~Started(w)
      BY <1>1, <1>7 DEF GetNonce
    <3> QED
      BY <1>1, <1>3, <2>1, <3>1
  <2>2. CASE call' = [call EXCEPT ![w] = "failed"] /\ attempt' = attempt
    BY <1>4, <2>2
  <2> QED
    BY <1>7, <2>1, <2>2 DEF GetNonce
<1>8. CASE TimesOut(w)
  <2>1. PICK c \in {"failed", "backoff"} : call' = [call EXCEPT ![w] = c]
    BY <1>8 DEF TimesOut, AfterFailure
  <2> QED
    BY <1>4, <1>8, <2>1 DEF TimesOut
<1>9. CASE RetryWrite(w)
  <2>1. Started(w)
    BY <1>1, <1>9 DEF RetryWrite
  <2>2. attempt[w][1] \in AttemptRecord
    BY <1>1, <2>1 DEF Started
  <2>3. NonceOfCall(w) \in Nat
    BY <2>2 DEF NonceOfCall, AttemptRecord
  <2> QED
    BY <1>3, <1>9, <2>3 DEF RetryWrite, NonceOfCall
<1> QED
  BY <1>5, <1>6, <1>7, <1>8, <1>9

\* The ledger applies a nonced call only with the contract's nonce, which no
\* call that took effect still has.
LEMMA LedgerApplies ==
  ASSUME WritesInv, NEW t \in mempool, Apply(t)
  PROVE  WritesInv'
<1>1. /\ t.write \in Write /\ applied \in Seq(Write) /\ nonce \in Nat
      /\ mempool' \subseteq mempool /\ attempt' = attempt /\ call' = call /\ account' \in Nat
  BY DEF WritesInv, WritesType, TransactionRecord, Apply
<1>2. \A v \in Write : Started(v)' = Started(v)
  BY <1>1 DEF Started
<1>3. CASE nonce' = nonce /\ applied' = applied
  BY <1>1, <1>2, <1>3, WriteAssumption
     DEF WritesInv, WritesType, NonceInv, OneNonce, NoncedAppliesOnce, Started
<1>4. CASE t.write \notin Nonced /\ nonce' = nonce /\ applied' = Append(applied, t.write)
  <2>1. applied' \in Seq(Write) /\ DOMAIN applied' = DOMAIN applied \cup {Len(applied) + 1}
    BY <1>1, <1>4
  <2>2. \A i \in DOMAIN applied' : applied'[i] \in Nonced => i \in DOMAIN applied /\ applied'[i] = applied[i]
    BY <1>1, <1>4
  <2> QED
    BY <1>1, <1>2, <1>4, <2>1, <2>2, WriteAssumption
       DEF WritesInv, WritesType, NonceInv, OneNonce, NoncedAppliesOnce, Started
<1>5. CASE t.write \in Nonced /\ t.nonce = nonce /\ nonce' = nonce + 1 /\ applied' = Append(applied, t.write)
  <2>1. applied' \in Seq(Write) /\ DOMAIN applied' = DOMAIN applied \cup {Len(applied) + 1}
    BY <1>1, <1>5
  <2>2. \A i \in DOMAIN applied' : \/ (i \in DOMAIN applied /\ applied'[i] = applied[i])
                                  \/ (i = Len(applied) + 1 /\ applied'[i] = t.write)
    BY <1>1, <1>5, <2>1, AppendProperties
  <2>3. Started(t.write) /\ attempt[t.write][1].nonce = nonce
    BY <1>5 DEF WritesInv, NonceInv
  <2>4. \A i \in DOMAIN applied : applied[i] # t.write
    BY <1>1, <1>5, <2>3 DEF WritesInv, NonceInv
  <2>5. ASSUME NEW w \in Write, Started(w) PROVE attempt[w][1].nonce \in Nat
    <3>1. attempt[w] \in Seq(AttemptRecord) /\ attempt[w] # <<>>
      BY <2>5 DEF WritesInv, WritesType, Started
    <3>2. attempt[w][1] \in AttemptRecord
      BY <3>1
    <3> QED
      BY <3>2 DEF AttemptRecord
  <2>6. \A i \in DOMAIN applied' :
          applied'[i] \in Nonced => Started(applied'[i]) /\ attempt[applied'[i]][1].nonce < nonce + 1
    <3> SUFFICES ASSUME NEW i \in DOMAIN applied', applied'[i] \in Nonced
                 PROVE  Started(applied'[i]) /\ attempt[applied'[i]][1].nonce < nonce + 1
      OBVIOUS
    <3>1. CASE i \in DOMAIN applied /\ applied'[i] = applied[i]
      <4>1. Started(applied[i]) /\ attempt[applied[i]][1].nonce < nonce
        BY <3>1 DEF WritesInv, NonceInv
      <4>2. attempt[applied[i]][1].nonce \in Nat
        BY <2>5, <3>1, <4>1, WriteAssumption
      <4> QED
        BY <1>1, <3>1, <4>1, <4>2
    <3>2. CASE applied'[i] = t.write
      BY <1>1, <2>3, <3>2
    <3> QED
      BY <2>2, <3>1, <3>2
  <2>7. NoncedAppliesOnce'
    BY <2>1, <2>2, <2>4 DEF WritesInv, NonceInv, NoncedAppliesOnce
  <2> QED
    BY <1>1, <1>2, <1>5, <2>1, <2>6, <2>7, WriteAssumption
       DEF WritesInv, WritesType, NonceInv, OneNonce, Started
<1> QED
  BY <1>3, <1>4, <1>5 DEF Apply

\* The invariant holds at the start and every step of a write keeps it.
LEMMA WritesStart == WritesInit => WritesInv
  BY WriteAssumption
     DEF WritesInit, WritesInv, WritesType, NonceInv, NoncedAppliesOnce, Started, OneNonce, Seen

\* Every step of the client's writes keeps the invariant.
LEMMA WritesStep == ASSUME WritesInv, WritesNext PROVE WritesInv'
<1>1. ASSUME NEW w \in Write, ExecuteWrite(w) \/ AskNonce(w) \/ CallStep(w) PROVE WritesInv'
  BY <1>1, CallerStep, AttemptStep DEF CallStep
<1>2. ASSUME NEW t \in mempool, Apply(t) PROVE WritesInv'
  BY <1>2, LedgerApplies
<1>3. ASSUME NEW t \in mempool, Expire(t) PROVE WritesInv'
  BY <1>3 DEF Expire, WritesInv, WritesType, NonceInv, NoncedAppliesOnce, Started, OneNonce
<1> QED
  BY <1>1, <1>2, <1>3 DEF WritesNext

\* So does a step that leaves the writes alone.
LEMMA WritesIdle == ASSUME WritesInv, UNCHANGED writeVars PROVE WritesInv'
  BY DEF writeVars, WritesInv, WritesType, NonceInv, NoncedAppliesOnce, Started, OneNonce

\* One approval or rejection takes effect at most once, however its attempts
\* overlap (executeWrite and approveEvent, live-contract-client.ts:361-399).
THEOREM NoncedOnce == Spec => []NoncedAppliesOnce
<1>1. Init => WritesInv
  BY WritesStart DEF Init
<1>2. WritesInv /\ [Next]_flowsVars => WritesInv'
  BY WritesStep, WritesIdle DEF Next, Only, flowsVars
<1>3. WritesInv => NoncedAppliesOnce
  BY DEF WritesInv, NonceInv
<1> QED
  BY <1>1, <1>2, <1>3, PTL DEF Spec

-----------------------------------------------------------------------------
(* TransferForm *)

\* While no checks have crossed: a check that runs with no pause is for what is
\* typed, and a dialog that was opened with a verdict has nothing running behind it.
ShieldInv ==
  /\ timers \subseteq {typed}
  /\ shield \in [checked : BOOLEAN, allowed : BOOLEAN, blockers : BOOLEAN, address : Address \cup {"none"}]
  /\ \A c \in checks : c \in [address : Address, edit : Nat, answer : {"none", "allowed", "blocked"}]
  /\ edits \in Nat
  /\ step = "confirm" /\ ~early => timers = {} /\ checks = {}
  /\ ~crossing =>
       /\ \A c, d \in checks : c = d
       /\ timers = {} /\ typed \in Address => \A c \in checks : c.address = typed
       /\ timers = {} /\ typed \in Address /\ checks = {} => shield.checked /\ shield.address = typed
       /\ step = "confirm" /\ ~early => pendingOwner = shield.address /\ shield.allowed

\* Each step of the form and of the server keeps it.
LEMMA ShieldStep == ASSUME ShieldInv, TransferNext PROVE ShieldInv'
<1>1. ASSUME NEW a \in Address \cup {"bad"}, Type(a) PROVE ShieldInv'
  BY <1>1 DEF Type, ResetTimer, ShieldInv
<1>2. ASSUME NEW a \in Address \cup {"bad"}, RunPreflight(a) PROVE ShieldInv'
  <2>1. timers = {typed} /\ a = typed /\ timers' = {} /\ (step = "confirm" => early)
    BY <1>2 DEF RunPreflight, ShieldInv
  <2>2. CASE a \in Address
    <3>1. PICK c : c = [address |-> a, edit |-> edits, answer |-> "none"]
      OBVIOUS
    <3>2. checks' = checks \cup {c} /\ crossing' = (crossing \/ checks # {})
          /\ UNCHANGED <<typed, shield, step, pendingOwner, edits, early>>
      BY <1>2, <2>2, <3>1 DEF RunPreflight
    <3>3. c \in [address : Address, edit : Nat, answer : {"none", "allowed", "blocked"}] /\ c.address = typed
      BY <2>1, <2>2, <3>1 DEF ShieldInv
    <3>4. ~crossing' => checks' = {c}
      BY <3>2
    <3>5. \A x \in checks' : x \in [address : Address, edit : Nat, answer : {"none", "allowed", "blocked"}]
      BY <3>2, <3>3 DEF ShieldInv
    <3> QED
      BY <2>1, <3>2, <3>3, <3>4, <3>5 DEF ShieldInv
  <2>3. CASE a \notin Address
    BY <1>2, <2>1, <2>3 DEF RunPreflight, ShieldInv
  <2> QED
    BY <2>2, <2>3
<1>3. ASSUME NEW c \in checks, ServerChecks(c) PROVE ShieldInv'
  <2>1. PICK v \in {"allowed", "blocked"} : checks' = (checks \ {c}) \cup {[c EXCEPT !.answer = v]}
    BY <1>3 DEF ServerChecks
  <2>2. PICK n : n = [c EXCEPT !.answer = v]
    OBVIOUS
  <2>3. c \in [address : Address, edit : Nat, answer : {"none", "allowed", "blocked"}]
    BY DEF ShieldInv
  <2>4. n \in [address : Address, edit : Nat, answer : {"none", "allowed", "blocked"}] /\ n.address = c.address
    BY <2>2, <2>3
  <2>5. checks' = (checks \ {c}) \cup {n} /\ UNCHANGED <<typed, timers, shield, step, pendingOwner, edits, crossing, early>>
    BY <1>3, <2>1, <2>2 DEF ServerChecks
  <2> QED
    BY <2>4, <2>5 DEF ShieldInv
<1>4. ASSUME NEW c \in checks, NEW ok \in BOOLEAN, Show(c, ok) PROVE ShieldInv'
  BY <1>4 DEF Show, ShieldInv
<1>5. CASE Submit
  BY <1>5 DEF Submit, ShieldInv
<1>6. CASE Cancel \/ OnConfirm \/ TransferApplies \/ TransferAnswered \/ ProductChanges
  BY <1>6 DEF Cancel, OnConfirm, TransferApplies, TransferAnswered, ProductChanges, ShieldInv
<1> QED
  BY <1>1, <1>2, <1>3, <1>4, <1>5, <1>6 DEF TransferNext, VerdictArrives, CheckFails

\* The shield shown is the verdict for what is typed, and the dialog asks about an
\* address that was let through (TransferOwnershipForm.tsx:111-163, 302).
THEOREM ShieldIsForAddress == Spec => []ShieldMatchesAddress
<1>1. Init => ShieldInv
  BY DEF Init, TransferInit, ShieldInv
<1>2. ShieldInv /\ [Next]_flowsVars => ShieldInv'
  <2>1. ASSUME ShieldInv, UNCHANGED transferVars PROVE ShieldInv'
    BY <2>1 DEF ShieldInv, transferVars
  <2> QED
    BY <2>1, ShieldStep DEF Next, Only, flowsVars
<1>3. ShieldInv => ShieldMatchesAddress
  BY DEF ShieldInv, ShieldMatchesAddress
<1> QED
  BY <1>1, <1>2, <1>3, PTL DEF Spec

-----------------------------------------------------------------------------
(* CertificationRegistry *)

\* What the store and a request are made of.
Entry == [id : CertRecord, issuer : Issuer, revoked : BOOLEAN]
IssuerSteps == {"register", "readIndex", "writeIndex", "deactivate"}
RecordSteps == {"issue", "push", "revoke"}
RequestRecord ==
  [at : {"idle"} \cup IssuerSteps \cup RecordSteps, issuer : Issuer \cup {"none"},
   record : CertRecord \cup {"none"}, copy : Seq(Entry), listed : SUBSET Issuer]
Proper(r) ==
  /\ r \in RequestRecord
  /\ r.at \in IssuerSteps \cup {"issue", "push"} => r.issuer \in Issuer
  /\ r.at \in RecordSteps => r.record \in CertRecord
RegistryTyped ==
  /\ issuers \in [Issuer -> {"none", "active", "inactive"}] /\ issuerIndex \subseteq Issuer
  /\ certRecords \in Seq(Entry) /\ DOMAIN answered = Key
  /\ request \in [Request -> RequestRecord] /\ \A q \in Request : Proper(request[q])

\* What a request writes, by its record.
KeysOf(r) ==
  CASE r.at = "idle" -> {}
    [] r.at \in {"register", "readIndex", "writeIndex"} -> {r.issuer, "index"}
    [] r.at = "deactivate" -> {r.issuer}
    [] OTHER -> CertRecord

\* A key that is not disturbed is written by one request at a time.
OneWriter == \A k \in Key \ disturbed : \A p, q \in Request :
               k \in KeysOf(request[p]) /\ k \in KeysOf(request[q]) => p = q

Indexing(r, i) == r.at \in {"readIndex", "writeIndex"} /\ r.issuer = i
Knowing(r, i) == r.at \in {"readIndex", "writeIndex", "deactivate"} /\ r.issuer = i
IssuersInv ==
  /\ \A i \in Issuer : answered[i] # "none" \/ (\E q \in Request : Knowing(request[q], i)) => issuers[i] # "none"
  /\ \A i \in Issuer \ disturbed :
       /\ \A q \in Request : Indexing(request[q], i) => issuers[i] = "active"
       /\ (\A q \in Request : i \notin KeysOf(request[q])) /\ answered[i] # "none" => issuers[i] = answered[i]
  /\ "index" \notin disturbed =>
       /\ \A q \in Request : request[q].at = "writeIndex" => request[q].listed = issuerIndex
       /\ \A i \in Issuer : issuers[i] # "none" =>
            i \in issuerIndex \/ \E q \in Request : Indexing(request[q], i)

\* While the records of the product are not disturbed, their ids differ, the list
\* a request is about to write back is the one there is, and answers are true of it.
RecordsAre(rs) ==
  /\ \A m, n \in DOMAIN rs : rs[m].id = rs[n].id => m = n
  /\ \A c \in CertRecord : answered[c] # "none" =>
       \E n \in DOMAIN rs : rs[n].id = c /\ rs[n].revoked = (answered[c] = "revoked")
CertRecordsInv ==
  /\ CertRecord \subseteq disturbed \/ CertRecord \cap disturbed = {}
  /\ CertRecord \cap disturbed = {} =>
       /\ RecordsAre(certRecords)
       /\ \A q \in Request : request[q].at \in {"push", "revoke"} => request[q].copy = certRecords
       /\ \A q \in Request : request[q].at = "push" => ~HasRecord(certRecords, request[q].record)
       /\ \A q \in Request : request[q].at = "revoke" => HasRecord(certRecords, request[q].record)

RegistryInv == RegistryTyped /\ OneWriter /\ IssuersInv /\ CertRecordsInv

\* The first record with an id is the only one.
LEMMA FirstIsOnly ==
  ASSUME NEW rs \in Seq(Entry), NEW n \in DOMAIN rs, \A m \in DOMAIN rs : rs[m].id = rs[n].id => m = n
  PROVE  FirstOf(rs, rs[n].id) = n
<1>1. DOMAIN rs = 1..Len(rs) /\ Len(rs) \in Nat
  OBVIOUS
<1>2. {i \in 1..Len(rs) : rs[i].id = rs[n].id} = {n}
  BY <1>1
<1> QED
  BY <1>1, <1>2 DEF FirstOf, SelectInSeq, Min

\* The keys a request writes, as the module says it.
LEMMA WritesAre == \A q : Writes(q) = KeysOf(request[q])
  BY DEF Writes, KeysOf

\* One request moves, and writes nothing more than it did or than nobody does.
LEMMA MovesOneWriter ==
  ASSUME RegistryTyped, OneWriter, NEW q \in Request, NEW r \in RequestRecord,
         request' = [request EXCEPT ![q] = r], disturbed \subseteq disturbed',
         \A k \in KeysOf(r) \ disturbed' :
           k \in KeysOf(request[q]) \/ \A p \in Request : k \notin KeysOf(request[p])
  PROVE  OneWriter'
<1>1. request'[q] = r /\ \A p \in Request : p # q => request'[p] = request[p]
  BY DEF RegistryTyped
<1>2. ASSUME NEW k \in Key \ disturbed', NEW p \in Request, NEW u \in Request,
             k \in KeysOf(request'[p]), k \in KeysOf(request'[u])
      PROVE  p = u
  <2>1. CASE p # q /\ u # q
    BY <1>1, <1>2, <2>1 DEF OneWriter
  <2>2. CASE p = q /\ u # q
    BY <1>1, <1>2, <2>2 DEF OneWriter
  <2>3. CASE p # q /\ u = q
    BY <1>1, <1>2, <2>3 DEF OneWriter
  <2> QED
    BY <2>1, <2>2, <2>3
<1>3. \A p \in Request : KeysOf(request[p])' = KeysOf(request'[p])
  BY DEF KeysOf
<1> QED
  BY <1>2, <1>3 DEF OneWriter, Key

\* A request that begins: what it and a running one write is disturbed.
LEMMA BeginsKeep ==
  ASSUME RegistryInv, NEW q \in Request, NEW r \in RequestRecord, Proper(r),
         r.at \in {"register", "deactivate", "issue", "revoke"},
         r.at = "deactivate" => issuers[r.issuer] # "none",
         r.at = "revoke" => r.copy = certRecords /\ HasRecord(certRecords, r.record),
         BeginRequest(q, r, KeysOf(r))
  PROVE  RegistryInv'
<1>0. RegistryTyped /\ OneWriter /\ IssuersInv /\ CertRecordsInv
  BY DEF RegistryInv
<1>1. /\ request[q].at = "idle" /\ request' = [request EXCEPT ![q] = r]
      /\ disturbed' = disturbed \cup (KeysOf(r) \cap UNION {KeysOf(request[p]) : p \in Request})
      /\ UNCHANGED <<issuers, issuerIndex, certRecords, answered>>
  BY WritesAre DEF BeginRequest
<1>2. request'[q] = r /\ \A p \in Request : p # q => request'[p] = request[p]
  BY <1>0, <1>1 DEF RegistryTyped
<1>3. RegistryTyped'
  BY <1>0, <1>1, <1>2 DEF RegistryTyped, Proper
<1>4. OneWriter'
  <2>1. \A k \in KeysOf(r) \ disturbed' : \A p \in Request : k \notin KeysOf(request[p])
    BY <1>1
  <2>2. disturbed \subseteq disturbed' /\ request' = [request EXCEPT ![q] = r]
    BY <1>1
  <2> QED
    BY <1>0, <2>1, <2>2, MovesOneWriter
<1>5. KeysOf(request[q]) = {}
  BY <1>1 DEF KeysOf
<1>6. IssuersInv'
  <2>1. \A p \in Request, i \in Issuer : Indexing(request'[p], i) => p # q /\ Indexing(request[p], i)
    BY <1>2 DEF Indexing
  <2>2. \A p \in Request, i \in Issuer : Indexing(request[p], i) => Indexing(request'[p], i)
    BY <1>1, <1>2 DEF Indexing
  <2>3. \A i : (\A p \in Request : i \notin KeysOf(request'[p])) => \A p \in Request : i \notin KeysOf(request[p])
    BY <1>2, <1>5
  <2>4. \A i \in Issuer \ disturbed' :
          /\ \A p \in Request : Indexing(request'[p], i) => issuers'[i] = "active"
          /\ (\A p \in Request : i \notin KeysOf(request'[p])) /\ answered'[i] # "none" => issuers'[i] = answered'[i]
    BY <1>0, <1>1, <2>1, <2>3 DEF IssuersInv
  <2>5. ASSUME "index" \notin disturbed'
        PROVE  /\ \A p \in Request : request'[p].at = "writeIndex" => request'[p].listed = issuerIndex'
               /\ \A i \in Issuer : issuers'[i] # "none" =>
                    i \in issuerIndex' \/ \E p \in Request : Indexing(request'[p], i)
    BY <1>0, <1>1, <1>2, <2>2, <2>5 DEF IssuersInv
  <2>6. \A i \in Issuer : answered'[i] # "none" \/ (\E p \in Request : Knowing(request'[p], i)) => issuers'[i] # "none"
    <3>1. \A p \in Request, i \in Issuer : Knowing(request'[p], i) => Knowing(request[p], i) \/ issuers[i] # "none"
      BY <1>2 DEF Knowing
    <3>2. \A i \in Issuer : answered[i] # "none" \/ (\E p \in Request : Knowing(request[p], i)) => issuers[i] # "none"
      BY <1>0 DEF IssuersInv
    <3> QED
      BY <1>1, <3>1, <3>2
  <2> QED
    BY <2>4, <2>5, <2>6 DEF IssuersInv, Indexing, Knowing, KeysOf
<1>7. CertRecordsInv'
  <2>1. \A p \in Request : KeysOf(request[p]) \cap CertRecord = {} \/ KeysOf(request[p]) = CertRecord
    BY <1>0, RegistryAssumption DEF RegistryTyped, Proper, KeysOf, IssuerSteps, RecordSteps
  <2>2. KeysOf(r) \cap CertRecord = {} \/ KeysOf(r) = CertRecord
    BY RegistryAssumption DEF Proper, KeysOf, IssuerSteps, RecordSteps
  <2>3. CertRecord \subseteq disturbed' \/ CertRecord \cap disturbed' = {}
    BY <1>0, <1>1, <2>1, <2>2 DEF CertRecordsInv
  <2>4. CertRecord \cap disturbed' = {} => CertRecord \cap disturbed = {}
    BY <1>1
  <2>5. RecordsAre(certRecords) => RecordsAre(certRecords)'
    BY <1>1 DEF RecordsAre
  <2>6. \A c : HasRecord(certRecords, c) <=> HasRecord(certRecords', c)
    BY <1>1
  <2> QED
    BY <1>0, <1>1, <1>2, <2>3, <2>4, <2>5, <2>6 DEF CertRecordsInv, HasRecord
<1> QED
  BY <1>3, <1>4, <1>6, <1>7 DEF RegistryInv

\* A request that dies disturbs what it was to write.
LEMMA DyingKeeps ==
  ASSUME RegistryInv, NEW q \in Request, RequestDies(q)
  PROVE  RegistryInv'
<1>0. RegistryTyped /\ OneWriter /\ IssuersInv /\ CertRecordsInv
  BY DEF RegistryInv
<1>1. /\ request' = [request EXCEPT ![q] = Idle]
      /\ disturbed' = disturbed \cup KeysOf(request[q])
      /\ UNCHANGED <<issuers, issuerIndex, certRecords, answered>>
  BY WritesAre DEF RequestDies
<1>2. Idle \in RequestRecord /\ Proper(Idle) /\ Idle.at = "idle" /\ KeysOf(Idle) = {}
  BY DEF Idle, RequestRecord, Proper, KeysOf, IssuerSteps, RecordSteps
<1>3. request'[q] = Idle /\ \A p \in Request : p # q => request'[p] = request[p]
  BY <1>0, <1>1 DEF RegistryTyped
<1>4. RegistryTyped'
  BY <1>0, <1>1, <1>2, <1>3 DEF RegistryTyped, Proper
<1>5. OneWriter'
  BY <1>0, <1>1, <1>2, MovesOneWriter
<1>6. IssuersInv'
  <2>1. \A p \in Request, i \in Issuer : Indexing(request'[p], i) => Indexing(request[p], i)
    BY <1>2, <1>3 DEF Indexing
  <2>2. \A i \in Issuer \ disturbed' : (\A p \in Request : i \notin KeysOf(request'[p]))
          => \A p \in Request : i \notin KeysOf(request[p])
    BY <1>1, <1>3
  <2>3. \A i \in Issuer \ disturbed' :
          /\ \A p \in Request : Indexing(request'[p], i) => issuers'[i] = "active"
          /\ (\A p \in Request : i \notin KeysOf(request'[p])) /\ answered'[i] # "none" => issuers'[i] = answered'[i]
    BY <1>0, <1>1, <2>1, <2>2 DEF IssuersInv
  <2>4. ASSUME "index" \notin disturbed'
        PROVE  /\ \A p \in Request : request'[p].at = "writeIndex" => request'[p].listed = issuerIndex'
               /\ \A i \in Issuer : issuers'[i] # "none" =>
                    i \in issuerIndex' \/ \E p \in Request : Indexing(request'[p], i)
    <3>1. request[q].at \notin {"register", "readIndex", "writeIndex"}
      BY <1>1, <2>4 DEF KeysOf
    <3>2. \A p \in Request, i \in Issuer : Indexing(request[p], i) => Indexing(request'[p], i)
      BY <1>3, <3>1 DEF Indexing
    <3> QED
      BY <1>0, <1>1, <1>2, <1>3, <2>4, <3>2 DEF IssuersInv
  <2>5. \A i \in Issuer : answered'[i] # "none" \/ (\E p \in Request : Knowing(request'[p], i)) => issuers'[i] # "none"
    <3>1. \A p \in Request, i \in Issuer : Knowing(request'[p], i) => Knowing(request[p], i)
      BY <1>2, <1>3 DEF Knowing
    <3>2. \A i \in Issuer : answered[i] # "none" \/ (\E p \in Request : Knowing(request[p], i)) => issuers[i] # "none"
      BY <1>0 DEF IssuersInv
    <3> QED
      BY <1>1, <3>1, <3>2
  <2> QED
    BY <2>3, <2>4, <2>5 DEF IssuersInv, Indexing, Knowing, KeysOf
<1>7. CertRecordsInv'
  <2>1. KeysOf(request[q]) \cap CertRecord = {} \/ KeysOf(request[q]) = CertRecord
    BY <1>0, RegistryAssumption DEF RegistryTyped, Proper, KeysOf, IssuerSteps, RecordSteps
  <2>2. CertRecord \subseteq disturbed' \/ CertRecord \cap disturbed' = {}
    BY <1>0, <1>1, <2>1 DEF CertRecordsInv
  <2>3. CertRecord \cap disturbed' = {} => CertRecord \cap disturbed = {}
    BY <1>1
  <2>4. RecordsAre(certRecords) => RecordsAre(certRecords)'
    BY <1>1 DEF RecordsAre
  <2> QED
    BY <1>0, <1>1, <1>2, <1>3, <2>2, <2>3, <2>4 DEF CertRecordsInv, HasRecord
<1> QED
  BY <1>4, <1>5, <1>6, <1>7 DEF RegistryInv

\* The steps that register and deactivate an issuer.
LEMMA IssuerStepsKeep ==
  ASSUME RegistryInv, NEW q \in Request,
         SetIssuer(q) \/ GetIssuerIndex(q) \/ WriteIssuerIndex(q) \/ DeactivateIssuer(q)
  PROVE  RegistryInv'
<1>0. /\ RegistryTyped /\ OneWriter /\ IssuersInv /\ CertRecordsInv
      /\ request[q] \in RequestRecord /\ Proper(request[q])
  BY DEF RegistryInv, RegistryTyped
<1>1. PICK i \in Issuer : /\ i = request[q].issuer /\ i \in Key /\ i \in KeysOf(request[q])
                          /\ request[q].at \in IssuerSteps
                          /\ request[q].at # "deactivate" => KeysOf(request[q]) = {i, "index"}
  BY <1>0 DEF SetIssuer, GetIssuerIndex, WriteIssuerIndex, DeactivateIssuer, Proper, IssuerSteps, KeysOf, Key
<1>2. certRecords' = certRecords /\ disturbed' = disturbed /\ \A c \in CertRecord : answered'[c] = answered[c]
  <2>1. answered' = answered \/ \E said : answered' = [answered EXCEPT ![i] = said]
    BY <1>1 DEF SetIssuer, GetIssuerIndex, WriteIssuerIndex, DeactivateIssuer, Answer
  <2>2. \A c \in CertRecord : c # i /\ c \in DOMAIN answered
    BY <1>0, <1>1, RegistryAssumption DEF RegistryTyped, Key
  <2>3. certRecords' = certRecords /\ disturbed' = disturbed
    BY DEF SetIssuer, GetIssuerIndex, WriteIssuerIndex, DeactivateIssuer
  <2> QED
    BY <2>1, <2>2, <2>3
<1>3. Idle \in RequestRecord /\ Proper(Idle) /\ Idle.at = "idle" /\ KeysOf(Idle) = {}
  BY DEF Idle, RequestRecord, Proper, KeysOf, IssuerSteps, RecordSteps
\* What the store's keys of issuers are afterwards follows for each step; the rest
\* is the same for all of them.
<1>4. ASSUME NEW r \in RequestRecord, Proper(r), request' = [request EXCEPT ![q] = r],
             r.at = "idle" \/ (r.at \in {"readIndex", "writeIndex"} /\ r.issuer = i),
             r.at # "idle" => request[q].at # "deactivate",
             issuers' \in [Issuer -> {"none", "active", "inactive"}], issuerIndex' \subseteq Issuer,
             DOMAIN answered' = Key, IssuersInv'
      PROVE  RegistryInv'
  <2>1. request'[q] = r /\ \A p \in Request : p # q => request'[p] = request[p]
    BY <1>0, <1>4 DEF RegistryTyped
  <2>2. RegistryTyped'
    BY <1>0, <1>2, <1>4, <2>1 DEF RegistryTyped, Proper
  <2>3. KeysOf(r) \subseteq KeysOf(request[q])
    BY <1>1, <1>4 DEF KeysOf
  <2>4. OneWriter'
    BY <1>0, <1>2, <1>4, <2>3, MovesOneWriter
  <2>5. RecordsAre(certRecords) => RecordsAre(certRecords)'
    BY <1>2 DEF RecordsAre
  <2>6. CertRecordsInv'
    BY <1>0, <1>2, <1>4, <2>1, <2>5 DEF CertRecordsInv, HasRecord
  <2> QED
    BY <1>4, <2>2, <2>4, <2>6 DEF RegistryInv
<1>5. \A j \in Issuer, p \in Request : p # q /\ j \notin disturbed /\ j = i => j \notin KeysOf(request[p])
  BY <1>0, <1>1 DEF OneWriter
<1>6. "index" \notin disturbed /\ request[q].at # "deactivate" =>
        \A p \in Request : p # q => "index" \notin KeysOf(request[p])
  BY <1>0, <1>1 DEF OneWriter, Key
<1>7. CASE SetIssuer(q)
  <2>1. PICK r : r = [request[q] EXCEPT !.at = "readIndex"]
    OBVIOUS
  <2>2. /\ request' = [request EXCEPT ![q] = r] /\ issuers' = [issuers EXCEPT ![i] = "active"]
        /\ UNCHANGED <<issuerIndex, answered>> /\ request[q].at = "register"
    BY <1>1, <1>7, <2>1 DEF SetIssuer, Go
  <2>3. r \in RequestRecord /\ r.at = "readIndex" /\ r.issuer = i /\ Proper(r)
    BY <1>0, <1>1, <2>1 DEF RequestRecord, Proper, IssuerSteps, RecordSteps
  <2>4. request'[q] = r /\ \A p \in Request : p # q => request'[p] = request[p]
    BY <1>0, <2>2 DEF RegistryTyped
  <2>5. issuers'[i] = "active" /\ \A j \in Issuer : j # i => issuers'[j] = issuers[j]
    BY <1>0, <2>2 DEF RegistryTyped
  <2>6. i \in KeysOf(request'[q]) /\ Indexing(request'[q], i)
        /\ \A j \in Issuer : j # i => j \notin KeysOf(request'[q]) \/ j = "index"
    BY <2>3, <2>4 DEF KeysOf, Indexing
  <2>7. \A j \in Issuer, p \in Request : Indexing(request'[p], j) => j = i \/ Indexing(request[p], j)
    BY <2>3, <2>4 DEF Indexing
  <2>8. \A j \in Issuer \ disturbed' :
          /\ \A p \in Request : Indexing(request'[p], j) => issuers'[j] = "active"
          /\ (\A p \in Request : j \notin KeysOf(request'[p])) /\ answered'[j] # "none" => issuers'[j] = answered'[j]
    <3> SUFFICES ASSUME NEW j \in Issuer \ disturbed'
                 PROVE  /\ \A p \in Request : Indexing(request'[p], j) => issuers'[j] = "active"
                        /\ (\A p \in Request : j \notin KeysOf(request'[p])) /\ answered'[j] # "none" => issuers'[j] = answered'[j]
      OBVIOUS
    <3>1. CASE j = i
      BY <2>5, <2>6, <3>1
    <3>2. CASE j # i
      <4>1. j \notin KeysOf(request[q])
        BY <1>1, <2>2, <3>2, RegistryAssumption
      <4> QED
        BY <1>0, <1>2, <2>2, <2>4, <2>5, <2>7, <3>2, <4>1 DEF IssuersInv
    <3> QED
      BY <3>1, <3>2
  <2>9. \A j \in Issuer, p \in Request : Indexing(request[p], j) => Indexing(request'[p], j)
    BY <2>2, <2>4 DEF Indexing
  <2>10. ASSUME "index" \notin disturbed'
         PROVE  /\ \A p \in Request : request'[p].at = "writeIndex" => request'[p].listed = issuerIndex'
                /\ \A j \in Issuer : issuers'[j] # "none" =>
                     j \in issuerIndex' \/ \E p \in Request : Indexing(request'[p], j)
    <3>1. \A p \in Request : request'[p].at = "writeIndex" => p # q /\ request[p].at = "writeIndex" /\ request'[p] = request[p]
      BY <2>3, <2>4
    <3>2. \A p \in Request : request'[p].at = "writeIndex" => request'[p].listed = issuerIndex'
      BY <1>0, <1>2, <2>2, <2>10, <3>1 DEF IssuersInv
    <3>3. ASSUME NEW j \in Issuer, issuers'[j] # "none", j # i
          PROVE  j \in issuerIndex' \/ \E p \in Request : Indexing(request'[p], j)
      BY <1>0, <1>2, <2>2, <2>5, <2>9, <2>10, <3>3 DEF IssuersInv
    <3> QED
      BY <2>6, <3>2, <3>3
  <2>11. \A j \in Issuer : answered'[j] # "none" \/ (\E p \in Request : Knowing(request'[p], j)) => issuers'[j] # "none"
    <3>1. \A p \in Request, j \in Issuer : Knowing(request'[p], j) => Knowing(request[p], j) \/ j = i
      BY <2>3, <2>4 DEF Knowing
    <3>2. \A j \in Issuer : answered[j] # "none" \/ (\E p \in Request : Knowing(request[p], j)) => issuers[j] # "none"
      BY <1>0 DEF IssuersInv
    <3> QED
      BY <2>2, <2>5, <3>1, <3>2
  <2>12. IssuersInv'
    BY <2>8, <2>10, <2>11 DEF IssuersInv, Indexing, Knowing, KeysOf
  <2>13. issuers' \in [Issuer -> {"none", "active", "inactive"}] /\ issuerIndex' \subseteq Issuer /\ DOMAIN answered' = Key
    BY <1>0, <2>2 DEF RegistryTyped
  <2> QED
    BY <1>4, <2>2, <2>3, <2>12, <2>13
\* What stays true of an issuer other than i, and of i, when request q is done with it.
<1>8. ASSUME request' = [request EXCEPT ![q] = Idle], NEW said \in {"active", "inactive"},
             answered' = [answered EXCEPT ![i] = said],
             issuers' \in [Issuer -> {"none", "active", "inactive"}], issuers'[i] # "none",
             \A j \in Issuer : j # i => issuers'[j] = issuers[j],
             i \notin disturbed => issuers'[i] = said,
             issuerIndex' \subseteq Issuer,
             "index" \notin disturbed => issuerIndex \subseteq issuerIndex',
             "index" \notin disturbed /\ request[q].at = "deactivate" => issuerIndex' = issuerIndex /\ issuers[i] # "none",
             "index" \notin disturbed /\ request[q].at # "deactivate" => i \in issuerIndex'
      PROVE  RegistryInv'
  <2>1. request'[q] = Idle /\ \A p \in Request : p # q => request'[p] = request[p]
    BY <1>0, <1>8 DEF RegistryTyped
  <2>2. answered'[i] = said /\ \A j \in Issuer : j # i => answered'[j] = answered[j]
    BY <1>0, <1>1, <1>8 DEF RegistryTyped, Key
  <2>3. DOMAIN answered' = Key
    BY <1>0, <1>8 DEF RegistryTyped
  <2>4. \A j \in Issuer, p \in Request : Indexing(request'[p], j) => p # q /\ Indexing(request[p], j)
    BY <1>3, <2>1 DEF Indexing
  <2>5. \A j \in Issuer \ disturbed' :
          /\ \A p \in Request : Indexing(request'[p], j) => issuers'[j] = "active"
          /\ (\A p \in Request : j \notin KeysOf(request'[p])) /\ answered'[j] # "none" => issuers'[j] = answered'[j]
    <3> SUFFICES ASSUME NEW j \in Issuer \ disturbed'
                 PROVE  /\ \A p \in Request : Indexing(request'[p], j) => issuers'[j] = "active"
                        /\ (\A p \in Request : j \notin KeysOf(request'[p])) /\ answered'[j] # "none" => issuers'[j] = answered'[j]
      OBVIOUS
    <3>1. CASE j = i
      <4>1. \A p \in Request : ~Indexing(request'[p], j)
        BY <1>2, <1>5, <2>4, <3>1 DEF Indexing, KeysOf
      <4> QED
        BY <1>2, <1>8, <2>2, <3>1, <4>1
    <3>2. CASE j # i
      <4>1. j \notin KeysOf(request[q])
        BY <1>1, <3>2, RegistryAssumption DEF KeysOf, IssuerSteps
      <4>2. (\A p \in Request : j \notin KeysOf(request'[p])) => \A p \in Request : j \notin KeysOf(request[p])
        BY <2>1, <4>1
      <4> QED
        BY <1>0, <1>2, <1>8, <2>2, <2>4, <3>2, <4>2 DEF IssuersInv
    <3> QED
      BY <3>1, <3>2
  <2>6. \A j \in Issuer : answered'[j] # "none" \/ (\E p \in Request : Knowing(request'[p], j)) => issuers'[j] # "none"
    <3>1. \A p \in Request, j \in Issuer : Knowing(request'[p], j) => Knowing(request[p], j)
      BY <1>3, <2>1 DEF Knowing
    <3>2. \A j \in Issuer : answered[j] # "none" \/ (\E p \in Request : Knowing(request[p], j)) => issuers[j] # "none"
      BY <1>0 DEF IssuersInv
    <3> QED
      BY <1>8, <2>2, <3>1, <3>2
  <2>7. ASSUME "index" \notin disturbed'
        PROVE  /\ \A p \in Request : request'[p].at = "writeIndex" => request'[p].listed = issuerIndex'
               /\ \A j \in Issuer : issuers'[j] # "none" =>
                    j \in issuerIndex' \/ \E p \in Request : Indexing(request'[p], j)
    <3>1. ASSUME NEW p \in Request, request'[p].at = "writeIndex"
          PROVE  request'[p].listed = issuerIndex'
      <4>1. p # q /\ request'[p] = request[p] /\ "index" \in KeysOf(request[p])
        BY <1>3, <2>1, <3>1 DEF KeysOf
      <4>2. request[q].at = "deactivate"
        BY <1>2, <1>6, <2>7, <4>1
      <4> QED
        BY <1>0, <1>2, <1>8, <2>7, <3>1, <4>1, <4>2 DEF IssuersInv
    <3>2. ASSUME NEW j \in Issuer, issuers'[j] # "none"
          PROVE  j \in issuerIndex' \/ \E p \in Request : Indexing(request'[p], j)
      <4>1. CASE j = i /\ request[q].at # "deactivate"
        BY <1>2, <1>8, <2>7, <4>1
      <4>2. CASE j # i \/ request[q].at = "deactivate"
        <5>1. issuers[j] # "none"
          BY <1>2, <1>8, <2>7, <3>2, <4>2
        <5>2. j \in issuerIndex \/ \E p \in Request : Indexing(request[p], j)
          BY <1>0, <1>2, <2>7, <5>1 DEF IssuersInv
        <5>3. \A p \in Request : Indexing(request[p], j) => p # q
          BY <1>1, <4>2 DEF Indexing
        <5> QED
          BY <1>2, <1>8, <2>1, <2>7, <5>2, <5>3
      <4> QED
        BY <4>1, <4>2
    <3> QED
      BY <3>1, <3>2
  <2>8. IssuersInv'
    BY <2>5, <2>6, <2>7 DEF IssuersInv, Indexing, Knowing, KeysOf
  <2> QED
    BY <1>3, <1>4, <1>8, <2>3, <2>8
<1>9. i \notin disturbed /\ request[q].at \in {"readIndex", "writeIndex"} => issuers[i] = "active"
  BY <1>0, <1>1 DEF IssuersInv, Indexing
<1>10. CASE GetIssuerIndex(q)
  <2>1. CASE i \in issuerIndex
    <3>1. request' = [request EXCEPT ![q] = Idle] /\ answered' = [answered EXCEPT ![i] = "active"]
          /\ UNCHANGED <<issuers, issuerIndex>> /\ request[q].at = "readIndex"
      BY <1>1, <1>10, <2>1 DEF GetIssuerIndex, Answer
    <3>2. issuers[i] # "none" /\ issuers' = issuers /\ issuerIndex' = issuerIndex
      BY <1>0, <1>1, <3>1 DEF IssuersInv, Knowing
    <3>3. issuers \in [Issuer -> {"none", "active", "inactive"}] /\ issuerIndex \subseteq Issuer
      BY <1>0 DEF RegistryTyped
    <3> QED
      BY <1>8, <1>9, <2>1, <3>1, <3>2, <3>3
  <2>2. CASE i \notin issuerIndex
    <3>1. PICK r : r = [request[q] EXCEPT !.at = "writeIndex", !.listed = issuerIndex]
      OBVIOUS
    <3>2. /\ request' = [request EXCEPT ![q] = r] /\ request[q].at = "readIndex"
          /\ UNCHANGED <<issuers, issuerIndex, answered>>
      BY <1>1, <1>10, <2>2, <3>1 DEF GetIssuerIndex
    <3>3. r \in RequestRecord /\ r.at = "writeIndex" /\ r.issuer = i /\ r.listed = issuerIndex /\ Proper(r)
      BY <1>0, <1>1, <3>1 DEF RequestRecord, Proper, IssuerSteps, RecordSteps, RegistryTyped
    <3>4. request'[q] = r /\ \A p \in Request : p # q => request'[p] = request[p]
      BY <1>0, <3>2 DEF RegistryTyped
    <3>5. \A j \in Issuer, p \in Request : Indexing(request'[p], j) <=> Indexing(request[p], j)
      BY <1>1, <3>2, <3>3, <3>4 DEF Indexing
    <3>6. \A j, p : p \in Request => (j \in KeysOf(request'[p]) <=> j \in KeysOf(request[p]))
      BY <1>1, <3>2, <3>3, <3>4 DEF KeysOf
    <3>7. \A j \in Issuer \ disturbed' :
            /\ \A p \in Request : Indexing(request'[p], j) => issuers'[j] = "active"
            /\ (\A p \in Request : j \notin KeysOf(request'[p])) /\ answered'[j] # "none" => issuers'[j] = answered'[j]
      BY <1>0, <1>2, <3>2, <3>5, <3>6 DEF IssuersInv
    <3>8. "index" \notin disturbed' =>
            /\ \A p \in Request : request'[p].at = "writeIndex" => request'[p].listed = issuerIndex'
            /\ \A j \in Issuer : issuers'[j] # "none" =>
                 j \in issuerIndex' \/ \E p \in Request : Indexing(request'[p], j)
      BY <1>0, <1>2, <3>2, <3>3, <3>4, <3>5 DEF IssuersInv
    <3>9. \A j \in Issuer : answered'[j] # "none" \/ (\E p \in Request : Knowing(request'[p], j)) => issuers'[j] # "none"
      <4>1. \A p \in Request, j \in Issuer : Knowing(request'[p], j) => Knowing(request[p], j)
        BY <1>1, <3>2, <3>3, <3>4 DEF Knowing
      <4>2. \A j \in Issuer : answered[j] # "none" \/ (\E p \in Request : Knowing(request[p], j)) => issuers[j] # "none"
        BY <1>0 DEF IssuersInv
      <4> QED
        BY <3>2, <4>1, <4>2
    <3>10. IssuersInv'
      BY <3>7, <3>8, <3>9 DEF IssuersInv, Indexing, Knowing, KeysOf
    <3>11. issuers' \in [Issuer -> {"none", "active", "inactive"}] /\ issuerIndex' \subseteq Issuer /\ DOMAIN answered' = Key
      BY <1>0, <3>2 DEF RegistryTyped
    <3> QED
      BY <1>4, <3>2, <3>3, <3>10, <3>11
  <2> QED
    BY <2>1, <2>2
<1>11. CASE WriteIssuerIndex(q)
  <2>1. /\ request' = [request EXCEPT ![q] = Idle] /\ answered' = [answered EXCEPT ![i] = "active"]
        /\ issuers' = issuers /\ issuerIndex' = request[q].listed \cup {i} /\ request[q].at = "writeIndex"
    BY <1>1, <1>11 DEF WriteIssuerIndex, Answer
  <2>2. issuers[i] # "none" /\ ("index" \notin disturbed => request[q].listed = issuerIndex)
    BY <1>0, <1>1, <2>1 DEF IssuersInv, Indexing, Knowing
  <2>3. issuers \in [Issuer -> {"none", "active", "inactive"}] /\ request[q].listed \subseteq Issuer
    BY <1>0 DEF RegistryTyped, RequestRecord
  <2> QED
    BY <1>8, <1>9, <2>1, <2>2, <2>3
<1>12. CASE DeactivateIssuer(q)
  <2>1. /\ request' = [request EXCEPT ![q] = Idle] /\ answered' = [answered EXCEPT ![i] = "inactive"]
        /\ issuers' = [issuers EXCEPT ![i] = "inactive"] /\ issuerIndex' = issuerIndex /\ request[q].at = "deactivate"
    BY <1>1, <1>12 DEF DeactivateIssuer, Answer
  <2>2. issuers' \in [Issuer -> {"none", "active", "inactive"}] /\ issuers'[i] = "inactive"
        /\ \A j \in Issuer : j # i => issuers'[j] = issuers[j]
    BY <1>0, <2>1 DEF RegistryTyped
  <2>3. issuerIndex \subseteq Issuer
    BY <1>0 DEF RegistryTyped
  <2>4. issuers[i] # "none"
    BY <1>0, <1>1, <2>1 DEF IssuersInv, Knowing
  <2> QED
    BY <1>8, <2>1, <2>2, <2>3, <2>4
<1> QED
  BY <1>7, <1>10, <1>11, <1>12

\* An entry replaced at a place of a list, or at none, leaves a list of entries.
LEMMA ExceptKeepsSeq ==
  ASSUME NEW S, NEW s \in Seq(S), NEW n, NEW e, n \in DOMAIN s => e \in S
  PROVE  [s EXCEPT ![n] = e] \in Seq(S)
<1>1. s \in [1..Len(s) -> S] /\ Len(s) \in Nat
  OBVIOUS
<1>2. [s EXCEPT ![n] = e] \in [1..Len(s) -> S]
  <2>1. CASE n \in 1..Len(s)
    BY <1>1, <2>1
  <2>2. CASE n \notin 1..Len(s)
    BY <1>1, <2>2
  <2> QED
    BY <2>1, <2>2
<1> QED
  BY <1>1, <1>2, SeqDef

\* The steps on the list of records: while it is not disturbed nobody else is at it.
LEMMA RecordStepsKeep ==
  ASSUME RegistryInv, NEW q \in Request, GetRecords(q) \/ PushRecord(q) \/ RevokeRecord(q)
  PROVE  RegistryInv'
<1>0. /\ RegistryTyped /\ OneWriter /\ IssuersInv /\ CertRecordsInv
      /\ request[q] \in RequestRecord /\ Proper(request[q])
  BY DEF RegistryInv, RegistryTyped
<1>1. PICK c \in CertRecord : c = request[q].record /\ request[q].at \in RecordSteps /\ KeysOf(request[q]) = CertRecord
  BY <1>0 DEF GetRecords, PushRecord, RevokeRecord, Proper, RecordSteps, KeysOf
<1>2. disturbed' = disturbed /\ issuers' = issuers /\ issuerIndex' = issuerIndex
  BY DEF GetRecords, PushRecord, RevokeRecord
<1>3. Idle \in RequestRecord /\ Proper(Idle) /\ Idle.at = "idle" /\ KeysOf(Idle) = {}
  BY DEF Idle, RequestRecord, Proper, KeysOf, IssuerSteps, RecordSteps
<1>4. CertRecord \cap disturbed = {} => \A p \in Request : p # q => request[p].at \notin RecordSteps
  <2>1. \A p \in Request : request[p].at \in RecordSteps => c \in KeysOf(request[p])
    BY DEF KeysOf, RecordSteps
  <2> QED
    BY <1>0, <1>1, <2>1 DEF OneWriter, Key
\* The issuers are as they were; of the records it remains to show what the list is.
<1>5. ASSUME NEW r \in RequestRecord, Proper(r), request' = [request EXCEPT ![q] = r], r.at \in {"idle", "push"},
             certRecords' \in Seq(Entry), DOMAIN answered' = Key,
             \A i \in Issuer : answered'[i] = answered[i],
             CertRecord \cap disturbed = {} =>
               /\ RecordsAre(certRecords)'
               /\ r.at = "push" => r.copy = certRecords' /\ ~HasRecord(certRecords', r.record)
      PROVE  RegistryInv'
  <2>1. request'[q] = r /\ \A p \in Request : p # q => request'[p] = request[p]
    BY <1>0, <1>5 DEF RegistryTyped
  <2>2. RegistryTyped'
    BY <1>0, <1>2, <1>5, <2>1 DEF RegistryTyped, Proper
  <2>3. OneWriter'
    <3>1. KeysOf(r) \subseteq KeysOf(request[q])
      BY <1>1, <1>5 DEF KeysOf
    <3> QED
      BY <1>0, <1>2, <1>5, <3>1, MovesOneWriter
  <2>4. \A i, p : p \in Request => (Indexing(request'[p], i) <=> Indexing(request[p], i))
    BY <1>1, <1>5, <2>1 DEF Indexing, RecordSteps
  <2>5. \A i, p : p \in Request => (Knowing(request'[p], i) <=> Knowing(request[p], i))
    BY <1>1, <1>5, <2>1 DEF Knowing, RecordSteps
  <2>6. \A i \in Issuer : (\A p \in Request : i \notin KeysOf(request'[p])) => \A p \in Request : i \notin KeysOf(request[p])
    BY <1>1, <2>1, RegistryAssumption
  <2>7. IssuersInv'
    <3>1. \A i \in Issuer : answered'[i] # "none" \/ (\E p \in Request : Knowing(request'[p], i)) => issuers'[i] # "none"
      BY <1>0, <1>2, <1>5, <2>5 DEF IssuersInv
    <3>2. \A i \in Issuer \ disturbed' :
            /\ \A p \in Request : Indexing(request'[p], i) => issuers'[i] = "active"
            /\ (\A p \in Request : i \notin KeysOf(request'[p])) /\ answered'[i] # "none" => issuers'[i] = answered'[i]
      BY <1>0, <1>2, <1>5, <2>4, <2>6 DEF IssuersInv
    <3>3. \A p \in Request : request'[p].at = "writeIndex" => request'[p] = request[p]
      BY <1>5, <2>1
    <3>4. "index" \notin disturbed' =>
            /\ \A p \in Request : request'[p].at = "writeIndex" => request'[p].listed = issuerIndex'
            /\ \A i \in Issuer : issuers'[i] # "none" =>
                 i \in issuerIndex' \/ \E p \in Request : Indexing(request'[p], i)
      BY <1>0, <1>2, <2>4, <3>3 DEF IssuersInv
    <3> QED
      BY <3>1, <3>2, <3>4 DEF IssuersInv, Indexing, Knowing, KeysOf
  <2>8. CertRecordsInv'
    <3>1. CertRecord \subseteq disturbed' \/ CertRecord \cap disturbed' = {}
      BY <1>0, <1>2 DEF CertRecordsInv
    <3>2. CertRecord \cap disturbed = {} => \A p \in Request : p # q => request'[p].at \notin {"push", "revoke"}
      BY <1>4, <2>1 DEF RecordSteps
    <3> QED
      BY <1>2, <1>5, <2>1, <3>1, <3>2 DEF CertRecordsInv, HasRecord
  <2> QED
    BY <2>2, <2>3, <2>7, <2>8 DEF RegistryInv
<1>6. certRecords \in Seq(Entry) /\ DOMAIN answered = Key
  BY <1>0 DEF RegistryTyped
<1>7. \A said : LET a == [answered EXCEPT ![c] = said]
                IN DOMAIN a = Key /\ a[c] = said /\ (\A i \in Issuer : a[i] = answered[i])
                   /\ \A d \in CertRecord : d # c => a[d] = answered[d]
  BY <1>6, RegistryAssumption DEF Key
<1>8. CASE GetRecords(q)
  <2>1. CASE IsDuplicate(c)
    <3>1. request' = [request EXCEPT ![q] = Idle] /\ UNCHANGED <<certRecords, answered>>
      BY <1>1, <1>8, <2>1 DEF GetRecords
    <3>2. RecordsAre(certRecords) => RecordsAre(certRecords)'
      BY <3>1 DEF RecordsAre
    <3>3. CertRecord \cap disturbed = {} => RecordsAre(certRecords)'
      BY <1>0, <3>2 DEF CertRecordsInv
    <3> QED
      BY <1>3, <1>5, <1>6, <3>1, <3>3
  <2>2. CASE ~IsDuplicate(c)
    <3>1. PICK r : r = [request[q] EXCEPT !.at = "push", !.copy = certRecords]
      OBVIOUS
    <3>2. request' = [request EXCEPT ![q] = r] /\ UNCHANGED <<certRecords, answered>> /\ request[q].at = "issue"
      BY <1>1, <1>8, <2>2, <3>1 DEF GetRecords
    <3>3. r \in RequestRecord /\ r.at = "push" /\ r.record = c /\ r.copy = certRecords /\ r.issuer = request[q].issuer
      BY <1>0, <1>1, <1>6, <3>1 DEF RequestRecord, RecordSteps
    <3>4. Proper(r)
      BY <1>0, <1>1, <3>2, <3>3 DEF Proper, RecordSteps, IssuerSteps
    <3>5. RecordsAre(certRecords) => RecordsAre(certRecords)'
      BY <3>2 DEF RecordsAre
    <3>6. CertRecord \cap disturbed = {} => RecordsAre(certRecords)'
      BY <1>0, <3>5 DEF CertRecordsInv
    <3>7. ~HasRecord(certRecords', r.record) /\ r.copy = certRecords'
      BY <2>2, <3>2, <3>3 DEF IsDuplicate, HasRecord
    <3> QED
      BY <1>5, <1>6, <3>2, <3>3, <3>4, <3>6, <3>7
  <2> QED
    BY <2>1, <2>2
<1>9. PICK rs \in Seq(Entry) : rs = request[q].copy
  BY <1>0 DEF RequestRecord
<1>10. CertRecord \cap disturbed = {} /\ request[q].at \in {"push", "revoke"} => rs = certRecords /\ RecordsAre(rs)
  BY <1>0, <1>9 DEF CertRecordsInv
<1>11. CASE PushRecord(q)
  <2>1. PICK e \in Entry : e = [id |-> c, issuer |-> request[q].issuer, revoked |-> FALSE]
    BY <1>0, <1>11 DEF PushRecord, Proper, Entry
  <2>2. /\ request' = [request EXCEPT ![q] = Idle] /\ answered' = [answered EXCEPT ![c] = "valid"]
        /\ certRecords' = Append(rs, e) /\ request[q].at = "push"
    BY <1>1, <1>9, <1>11, <2>1 DEF PushRecord, Answer
  <2>3. /\ answered'[c] = "valid" /\ \A d \in CertRecord : d # c => answered'[d] = answered[d]
        /\ DOMAIN answered' = Key /\ \A i \in Issuer : answered'[i] = answered[i]
    BY <1>7, <2>2
  <2>4. /\ certRecords' \in Seq(Entry) /\ DOMAIN certRecords' = 1..(Len(rs) + 1) /\ DOMAIN rs = 1..Len(rs) /\ Len(rs) \in Nat
        /\ certRecords'[Len(rs) + 1] = e /\ \A n \in DOMAIN rs : certRecords'[n] = rs[n]
    BY <2>1, <2>2
  <2>5. ASSUME CertRecord \cap disturbed = {}
        PROVE  RecordsAre(certRecords)'
    <3>1. \A n \in DOMAIN rs : rs[n].id # c
      BY <1>0, <1>1, <1>10, <2>2, <2>5 DEF CertRecordsInv, HasRecord
    <3>2. \A m, n \in DOMAIN certRecords' : certRecords'[m].id = certRecords'[n].id => m = n
      <4>1. \A m, n \in DOMAIN rs : rs[m].id = rs[n].id => m = n
        BY <1>10, <2>2, <2>5 DEF RecordsAre
      <4>2. \A n \in DOMAIN certRecords' : n \in DOMAIN rs \/ n = Len(rs) + 1
        BY <2>4
      <4> QED
        BY <2>1, <2>4, <3>1, <4>1, <4>2
    <3>3. ASSUME NEW d \in CertRecord, answered'[d] # "none"
          PROVE  \E n \in DOMAIN certRecords' : certRecords'[n].id = d /\ certRecords'[n].revoked = (answered'[d] = "revoked")
      <4>1. CASE d = c
        <5>1. Len(rs) + 1 \in DOMAIN certRecords'
          BY <2>4
        <5>2. certRecords'[Len(rs) + 1].id = c /\ certRecords'[Len(rs) + 1].revoked = FALSE
          BY <2>1, <2>4
        <5>3. (answered'[d] = "revoked") = FALSE
          BY <2>3, <4>1
        <5> QED
          BY <4>1, <5>1, <5>2, <5>3
      <4>2. CASE d # c
        <5>1. PICK n \in DOMAIN rs : rs[n].id = d /\ rs[n].revoked = (answered[d] = "revoked")
          BY <1>10, <2>2, <2>3, <2>5, <3>3, <4>2 DEF RecordsAre
        <5>2. n \in DOMAIN certRecords' /\ certRecords'[n] = rs[n]
          BY <2>4
        <5> QED
          BY <2>3, <4>2, <5>1, <5>2
      <4> QED
        BY <4>1, <4>2
    <3> QED
      BY <3>2, <3>3 DEF RecordsAre
  <2> QED
    BY <1>3, <1>5, <2>2, <2>3, <2>4, <2>5
<1>12. CASE RevokeRecord(q)
  <2>1. PICK n : n = FirstOf(rs, c)
    OBVIOUS
  <2>2. /\ request' = [request EXCEPT ![q] = Idle] /\ answered' = [answered EXCEPT ![c] = "revoked"]
        /\ certRecords' = [rs EXCEPT ![n] = [rs[n] EXCEPT !.revoked = TRUE]] /\ request[q].at = "revoke"
    BY <1>1, <1>9, <1>12, <2>1 DEF RevokeRecord, Answer
  <2>3. /\ answered'[c] = "revoked" /\ \A d \in CertRecord : d # c => answered'[d] = answered[d]
        /\ DOMAIN answered' = Key /\ \A i \in Issuer : answered'[i] = answered[i]
    BY <1>7, <2>2
  <2>4. \A m \in DOMAIN rs : rs[m] \in Entry /\ [rs[m] EXCEPT !.revoked = TRUE] \in Entry
                           /\ [rs[m] EXCEPT !.revoked = TRUE].id = rs[m].id /\ [rs[m] EXCEPT !.revoked = TRUE].revoked = TRUE
    <3>1. \A e \in Entry : /\ [e EXCEPT !.revoked = TRUE] \in Entry /\ [e EXCEPT !.revoked = TRUE].id = e.id
                          /\ [e EXCEPT !.revoked = TRUE].revoked = TRUE
      BY DEF Entry
    <3>2. \A m \in DOMAIN rs : rs[m] \in Entry
      OBVIOUS
    <3> QED
      BY <3>1, <3>2
  <2>5. /\ DOMAIN certRecords' = DOMAIN rs
        /\ \A m \in DOMAIN rs : certRecords'[m] = IF m = n THEN [rs[n] EXCEPT !.revoked = TRUE] ELSE rs[m]
    BY <2>2
  <2>6. certRecords' \in Seq(Entry)
    <3>1. n \in DOMAIN rs => [rs[n] EXCEPT !.revoked = TRUE] \in Entry
      BY <2>4
    <3> QED
      BY <2>2, <3>1, ExceptKeepsSeq
  <2>7. ASSUME CertRecord \cap disturbed = {}
        PROVE  RecordsAre(certRecords)'
    <3>1. rs = certRecords /\ RecordsAre(rs) /\ HasRecord(rs, c)
      BY <1>0, <1>1, <1>10, <2>2, <2>7 DEF CertRecordsInv
    <3>2. n \in DOMAIN rs /\ rs[n].id = c
      <4>1. PICK m \in DOMAIN rs : rs[m].id = c
        BY <3>1 DEF HasRecord
      <4>2. \A u \in DOMAIN rs : rs[u].id = rs[m].id => u = m
        BY <3>1 DEF RecordsAre
      <4>3. FirstOf(rs, rs[m].id) = m
        BY <4>2, FirstIsOnly
      <4> QED
        BY <2>1, <4>1, <4>3
    <3>3. \A m \in DOMAIN rs : certRecords'[m].id = rs[m].id
      BY <2>4, <2>5
    <3>4. \A m, u \in DOMAIN certRecords' : certRecords'[m].id = certRecords'[u].id => m = u
      BY <2>5, <3>1, <3>3 DEF RecordsAre
    <3>5. ASSUME NEW d \in CertRecord, answered'[d] # "none"
          PROVE  \E m \in DOMAIN certRecords' : certRecords'[m].id = d /\ certRecords'[m].revoked = (answered'[d] = "revoked")
      <4>1. CASE d = c
        <5>1. certRecords'[n].id = c /\ certRecords'[n].revoked = TRUE
          BY <2>4, <2>5, <3>2
        <5>2. (answered'[d] = "revoked") = TRUE
          BY <2>3, <4>1
        <5> QED
          BY <2>5, <3>2, <4>1, <5>1, <5>2
      <4>2. CASE d # c
        <5>1. PICK m \in DOMAIN rs : rs[m].id = d /\ rs[m].revoked = (answered[d] = "revoked")
          BY <2>3, <3>1, <3>5, <4>2 DEF RecordsAre
        <5>2. m \in DOMAIN certRecords' /\ certRecords'[m] = rs[m]
          BY <2>5, <3>2, <4>2, <5>1
        <5> QED
          BY <2>3, <4>2, <5>1, <5>2
      <4> QED
        BY <4>1, <4>2
    <3> QED
      BY <3>4, <3>5 DEF RecordsAre
  <2> QED
    BY <1>3, <1>5, <2>2, <2>3, <2>6, <2>7
<1> QED
  BY <1>8, <1>11, <1>12

\* The registry starts empty.
LEMMA RegistryStart == RegistryInit => RegistryInv
<1>1. Idle \in RequestRecord /\ Proper(Idle) /\ Idle.at = "idle" /\ KeysOf(Idle) = {}
  BY DEF Idle, RequestRecord, Proper, KeysOf, IssuerSteps, RecordSteps
<1> SUFFICES ASSUME RegistryInit PROVE RegistryInv
  OBVIOUS
<1>2. \A q \in Request : request[q] = Idle
  BY DEF RegistryInit
<1>3. RegistryTyped
  BY <1>1, <1>2 DEF RegistryInit, RegistryTyped
<1>4. OneWriter
  BY <1>1, <1>2 DEF OneWriter
<1>5. IssuersInv
  BY <1>1, <1>2 DEF RegistryInit, IssuersInv, Indexing, Knowing, Key
<1>6. CertRecordsInv
  BY <1>1, <1>2 DEF RegistryInit, CertRecordsInv, RecordsAre, Key
<1> QED
  BY <1>3, <1>4, <1>5, <1>6 DEF RegistryInv

\* Every step of a request keeps the registry's invariant.
LEMMA RegistryStep == ASSUME RegistryInv, RegistryNext PROVE RegistryInv'
<1>0. RegistryTyped /\ Idle \in RequestRecord
  BY DEF RegistryInv, Idle, RequestRecord
<1>1. PICK q \in Request :
        \/ \E i \in Issuer :
             \/ RegisterIssuer(q, i) \/ ReadIssuer(q, i)
             \/ \E c \in CertRecord : CheckIssuer(q, i, c) \/ FindRecord(q, i, c)
        \/ SetIssuer(q) \/ GetIssuerIndex(q) \/ WriteIssuerIndex(q) \/ DeactivateIssuer(q)
        \/ GetRecords(q) \/ PushRecord(q) \/ RevokeRecord(q) \/ RequestDies(q)
  BY DEF RegistryNext
<1>2. ASSUME NEW i \in Issuer, RegisterIssuer(q, i)
      PROVE  RegistryInv'
  <2>1. PICK r : r = [Idle EXCEPT !.at = "register", !.issuer = i]
    OBVIOUS
  <2>2. r \in RequestRecord /\ r.at = "register" /\ r.issuer = i
    BY <1>0, <2>1 DEF RequestRecord, IssuerSteps
  <2>3. Proper(r) /\ KeysOf(r) = {i, "index"}
    BY <2>2 DEF Proper, KeysOf, IssuerSteps, RecordSteps
  <2> QED
    BY <1>2, <2>1, <2>2, <2>3, BeginsKeep DEF RegisterIssuer
<1>3. ASSUME NEW i \in Issuer, ReadIssuer(q, i)
      PROVE  RegistryInv'
  <2>1. PICK r : r = [Idle EXCEPT !.at = "deactivate", !.issuer = i]
    OBVIOUS
  <2>2. r \in RequestRecord /\ r.at = "deactivate" /\ r.issuer = i
    BY <1>0, <2>1 DEF RequestRecord, IssuerSteps
  <2>3. Proper(r) /\ KeysOf(r) = {i}
    BY <2>2 DEF Proper, KeysOf, IssuerSteps, RecordSteps
  <2> QED
    BY <1>3, <2>1, <2>2, <2>3, BeginsKeep DEF ReadIssuer
<1>4. ASSUME NEW i \in Issuer, NEW c \in CertRecord, CheckIssuer(q, i, c)
      PROVE  RegistryInv'
  <2>1. PICK r : r = [Idle EXCEPT !.at = "issue", !.issuer = i, !.record = c]
    OBVIOUS
  <2>2. r \in RequestRecord /\ r.at = "issue" /\ r.issuer = i /\ r.record = c
    BY <1>0, <2>1 DEF RequestRecord, RecordSteps
  <2>3. Proper(r) /\ KeysOf(r) = CertRecord
    BY <2>2 DEF Proper, KeysOf, IssuerSteps, RecordSteps
  <2> QED
    BY <1>4, <2>1, <2>2, <2>3, BeginsKeep DEF CheckIssuer
<1>5. ASSUME NEW i \in Issuer, NEW c \in CertRecord, FindRecord(q, i, c)
      PROVE  RegistryInv'
  <2>1. PICK r : r = [Idle EXCEPT !.at = "revoke", !.record = c, !.copy = certRecords]
    OBVIOUS
  <2>2. r \in RequestRecord /\ r.at = "revoke" /\ r.record = c /\ r.copy = certRecords
    BY <1>0, <2>1 DEF RegistryTyped, Idle, RequestRecord, RecordSteps
  <2>3. Proper(r) /\ KeysOf(r) = CertRecord
    BY <2>2 DEF Proper, KeysOf, IssuerSteps, RecordSteps
  <2> QED
    BY <1>5, <2>1, <2>2, <2>3, BeginsKeep DEF FindRecord
<1> QED
  BY <1>1, <1>2, <1>3, <1>4, <1>5, IssuerStepsKeep, RecordStepsKeep, DyingKeeps

\* So does a step that leaves the registry alone.
LEMMA RegistryIdle == ASSUME RegistryInv, UNCHANGED registryVars PROVE RegistryInv'
<1>1. RegistryTyped'
  BY DEF RegistryInv, registryVars, RegistryTyped, Proper
<1>2. OneWriter'
  BY DEF RegistryInv, registryVars, OneWriter, KeysOf
<1>3. IssuersInv'
  BY DEF RegistryInv, registryVars, IssuersInv, Indexing, Knowing, KeysOf
<1>4. CertRecordsInv'
  BY DEF RegistryInv, registryVars, CertRecordsInv, RecordsAre, HasRecord
<1> QED
  BY <1>1, <1>2, <1>3, <1>4 DEF RegistryInv

\* What the answers said is what the store holds, for every number of requests, issuers
\* and records, unless requests for the same key overlapped or died.
THEOREM AnswersStand == Spec => []AnsweredRecordStands
<1>1. Init => RegistryInv
  BY RegistryStart DEF Init
<1>2. RegistryInv /\ [Next]_flowsVars => RegistryInv'
  BY RegistryStep, RegistryIdle DEF Next, Only, flowsVars
<1>3. RegistryInv => AnsweredRecordStands
  <2> SUFFICES ASSUME RegistryInv PROVE AnsweredRecordStands
    OBVIOUS
  <2>0. RegistryTyped /\ IssuersInv /\ CertRecordsInv
    BY DEF RegistryInv
  <2>1. ASSUME NEW c \in CertRecord, Quiet(c), answered[c] # "none"
        PROVE  HasRecord(certRecords, c) /\ certRecords[FirstOf(certRecords, c)].revoked = (answered[c] = "revoked")
    <3>1. RecordsAre(certRecords) /\ certRecords \in Seq(Entry)
      BY <2>0, <2>1 DEF CertRecordsInv, Quiet, RegistryTyped
    <3>2. PICK n \in DOMAIN certRecords : certRecords[n].id = c /\ certRecords[n].revoked = (answered[c] = "revoked")
      BY <2>1, <3>1 DEF RecordsAre
    <3>3. \A m \in DOMAIN certRecords : certRecords[m].id = certRecords[n].id => m = n
      BY <3>1 DEF RecordsAre
    <3>4. FirstOf(certRecords, certRecords[n].id) = n
      BY <3>1, <3>3, FirstIsOnly
    <3> QED
      BY <3>2, <3>4 DEF HasRecord
  <2>2. ASSUME NEW i \in Issuer, Quiet(i), answered[i] # "none"
        PROVE  issuers[i] = answered[i]
    BY <2>0, <2>2, WritesAre DEF IssuersInv, Quiet
  <2>3. ASSUME NEW i \in Issuer, Quiet("index"), answered[i] # "none"
        PROVE  i \in issuerIndex
    <3>1. \A q \in Request : ~Indexing(request[q], i)
      BY <2>3, WritesAre DEF Quiet, Indexing, KeysOf
    <3> QED
      BY <2>0, <2>3, <3>1 DEF IssuersInv, Quiet
  <2> QED
    BY <2>1, <2>2, <2>3 DEF AnsweredRecordStands
<1> QED
  BY <1>1, <1>2, <1>3, PTL DEF Spec

-----------------------------------------------------------------------------
(* Ratings: a signed message is used once, a wallet's rating counted once *)

\* What a request is made of.
RatingStage == {"idle", "nonce", "consume", "duplicate", "read", "write", "mark"}
PosterRecord == [at : RatingStage, message : Message \cup {<<"none", "none">>}, copy : Seq(Wallet)]
RatingsTyped ==
  /\ ratingNow \in Nat /\ expiresAt \in Nat
  /\ nonceUntil \in [Message -> Nat] /\ consumed \in [Message -> Nat]
  /\ ratings \in Seq(Wallet)
  /\ poster \in [Poster -> PosterRecord]
  /\ \A q \in Poster : poster[q].at # "idle" => poster[q].message \in Message
  /\ rated = thanked

\* Requests that run at the same time are of crossed wallets.
Alone == \A q, p \in Poster :
  q # p /\ poster[q].at # "idle" /\ poster[p].at # "idle" => WalletOf(q) \in crossed

\* A nonce's key outlives the message, except for a request that is late.
NoncesInv ==
  /\ \A q \in Poster : poster[q].at # "idle" => expiresAt <= ratingNow + ExpiryWindow
  /\ \A m \in Message : consumed[m] > 0 => expiresAt + NonceTtl <= nonceUntil[m] + ExpiryWindow
  /\ \A m \in Message : m[1] \notin crossed =>
       /\ consumed[m] <= 1
       /\ \A q \in Poster : poster[q].at = "consume" /\ poster[q].message = m => consumed[m] = 0

\* How often a wallet is in a list, and the request that has just added it.
Times(s, w) == Cardinality({i \in DOMAIN s : s[i] = w})
Marking(w) == \E q \in Poster : poster[q].at = "mark" /\ WalletOf(q) = w

\* The copy a request will write back holds every rating of the wallets that did not cross.
CountsInv ==
  \A w \in Wallet \ crossed :
    /\ \A p \in Poster : poster[p].at = "write" => Times(poster[p].copy, w) = Times(ratings, w)
    /\ Times(ratings, w) > 0 => w \in thanked \/ w \in unmarked \/ Marking(w)
    /\ w \notin unmarked =>
         /\ Times(ratings, w) <= 1
         /\ \A q \in Poster : poster[q].at \in {"read", "write"} /\ WalletOf(q) = w => Times(ratings, w) = 0
    /\ w \in thanked \/ Marking(w) => Times(ratings, w) > 0

RatingsInv == RatingsTyped /\ Alone /\ NoncesInv /\ CountsInv

\* A list's count is a natural number, and a wallet added at its end counts once more.
LEMMA TimesIsNat ==
  ASSUME NEW S, NEW s \in Seq(S), NEW w
  PROVE  Times(s, w) \in Nat
<1>1. IsFiniteSet(1..Len(s)) /\ DOMAIN s = 1..Len(s)
  BY FS_Interval
<1>2. IsFiniteSet({i \in DOMAIN s : s[i] = w})
  BY <1>1, FS_Subset
<1> QED
  BY <1>2, FS_CardinalityType DEF Times

LEMMA TimesAppended ==
  ASSUME NEW S, NEW s \in Seq(S), NEW v \in S, NEW w
  PROVE  Times(Append(s, v), w) = Times(s, w) + (IF v = w THEN 1 ELSE 0)
<1> DEFINE I == {i \in DOMAIN s : s[i] = w}
           J == {i \in DOMAIN Append(s, v) : Append(s, v)[i] = w}
<1>1. /\ DOMAIN s = 1..Len(s) /\ DOMAIN Append(s, v) = 1..(Len(s) + 1)
      /\ Append(s, v)[Len(s) + 1] = v /\ \A i \in 1..Len(s) : Append(s, v)[i] = s[i]
      /\ Len(s) \in Nat
  OBVIOUS
<1>2. IsFiniteSet(I) /\ Cardinality(I) \in Nat
  <2>1. IsFiniteSet(1..Len(s)) /\ I \subseteq 1..Len(s)
    BY <1>1, FS_Interval
  <2> QED
    BY <2>1, FS_Subset, FS_CardinalityType
<1>3. CASE v = w
  <2>1. J = I \cup {Len(s) + 1} /\ Len(s) + 1 \notin I
    BY <1>1, <1>3
  <2>2. Cardinality(I \cup {Len(s) + 1}) = Cardinality(I) + 1
    BY <1>2, <2>1, FS_AddElement
  <2>3. Cardinality(J) = Cardinality(I) + 1
    BY <2>1, <2>2
  <2> QED
    BY <1>3, <2>3 DEF Times
<1>4. CASE v # w
  <2>1. J = I
    BY <1>1, <1>4
  <2>2. Cardinality(J) = Cardinality(I)
    BY <2>1, Zenon
  <2>3. Times(Append(s, v), w) = Times(s, w) /\ Times(s, w) \in Nat
    BY <1>2, <2>2, Zenon DEF Times
  <2> QED
    BY <1>4, <2>3
<1> QED
  BY <1>3, <1>4

LEMMA EmptyCounts == \A w : Times(<<>>, w) = 0
  BY FS_EmptySet DEF Times

\* What a step of a running request changes of the requests alone.
Moves(q, r) ==
  /\ poster[q].at # "idle"
  /\ poster' = [poster EXCEPT ![q] = r] /\ r \in PosterRecord
  /\ r.at # "idle" => r.message = poster[q].message

LEMMA MovesKeep ==
  ASSUME RatingsTyped, NEW q \in Poster, NEW r, Moves(q, r)
  PROVE  /\ poster' \in [Poster -> PosterRecord] /\ poster'[q] = r
         /\ \A p \in Poster \ {q} : poster'[p] = poster[p]
         /\ \A p \in Poster : poster'[p].at # "idle" =>
              poster[p].at # "idle" /\ poster'[p].message = poster[p].message /\ poster'[p].message \in Message
<1>1. poster' \in [Poster -> PosterRecord] /\ poster'[q] = r /\ \A p \in Poster \ {q} : poster'[p] = poster[p]
  BY DEF Moves, RatingsTyped
<1> QED
  BY <1>1 DEF Moves, RatingsTyped

LEMMA MovesAlone ==
  ASSUME RatingsTyped, Alone, NEW q \in Poster, NEW r, Moves(q, r), crossed \subseteq crossed'
  PROVE  Alone'
  BY MovesKeep DEF Alone, WalletOf

\* A running request of a wallet that did not cross runs alone.
LEMMA OthersIdle ==
  ASSUME Alone, NEW q \in Poster, poster[q].at # "idle", WalletOf(q) \notin crossed
  PROVE  \A p \in Poster \ {q} : poster[p].at = "idle"
  BY DEF Alone

\* Steps that leave the nonces and the list alone.
LEMMA MovesNonces ==
  ASSUME RatingsTyped, NoncesInv, NEW q \in Poster, NEW r, Moves(q, r), r.at # "consume",
         crossed \subseteq crossed', UNCHANGED <<ratingNow, expiresAt, nonceUntil, consumed>>
  PROVE  NoncesInv'
<1>1. \A p \in Poster : poster'[p].at # "idle" => poster[p].at # "idle" /\ poster'[p].message = poster[p].message
  BY MovesKeep
<1>2. \A p \in Poster : poster'[p].at = "consume" => poster[p] = poster'[p]
  BY MovesKeep
<1>3. (\A p \in Poster : poster[p].at # "idle" => expiresAt <= ratingNow + ExpiryWindow)'
  BY <1>1 DEF NoncesInv
<1>4. (\A m \in Message : consumed[m] > 0 => expiresAt + NonceTtl <= nonceUntil[m] + ExpiryWindow)'
  BY DEF NoncesInv
<1>5. (\A m \in Message : m[1] \notin crossed =>
       /\ consumed[m] <= 1
       /\ \A p \in Poster : poster[p].at = "consume" /\ poster[p].message = m => consumed[m] = 0)'
  BY <1>2 DEF NoncesInv
<1> QED
  BY <1>3, <1>4, <1>5 DEF NoncesInv

LEMMA CountsStay ==
  ASSUME CountsInv, crossed \subseteq crossed', UNCHANGED <<ratings, thanked, unmarked>>,
         \A p \in Poster : poster'[p].at \in {"read", "write", "mark"} => poster'[p] = poster[p],
         \A p \in Poster : poster[p].at = "mark" => poster'[p] = poster[p]
  PROVE  CountsInv'
<1>1. \A w : Marking(w)' <=> Marking(w)
  BY DEF Marking, WalletOf
<1>2. \A w \in Wallet \ crossed' : \A p \in Poster : poster'[p].at = "write" => Times(poster'[p].copy, w) = Times(ratings, w)
  BY DEF CountsInv
<1>3. \A w \in Wallet \ crossed' : w \notin unmarked =>
         /\ Times(ratings, w) <= 1
         /\ \A p \in Poster : poster'[p].at \in {"read", "write"} /\ poster'[p].message[1] = w => Times(ratings, w) = 0
  BY DEF CountsInv, WalletOf
<1>4. \A w \in Wallet \ crossed' : /\ Times(ratings, w) > 0 => w \in thanked \/ w \in unmarked \/ Marking(w)
                                   /\ w \in thanked \/ Marking(w) => Times(ratings, w) > 0
  BY DEF CountsInv
<1> QED
  BY <1>1, <1>2, <1>3, <1>4 DEF CountsInv, WalletOf

LEMMA RestIsRecord == AtRest \in PosterRecord /\ AtRest.at = "idle"
  BY DEF AtRest, PosterRecord, RatingStage

\* A request begins: it crosses those that run.
LEMMA PostKeeps ==
  ASSUME RatingsInv, NEW q \in Poster, NEW m \in Message, PostRating(q, m)
  PROVE  RatingsInv'
<1>0. RatingsTyped /\ Alone /\ NoncesInv /\ CountsInv
  BY DEF RatingsInv
<1>1. PICK r : r = [AtRest EXCEPT !.at = "nonce", !.message = m]
  OBVIOUS
<1>2. r.at = "nonce" /\ r.message = m /\ r \in PosterRecord
  BY <1>1, RestIsRecord DEF PosterRecord, RatingStage
<1>3. poster' = [poster EXCEPT ![q] = r] /\ poster[q].at = "idle"
  BY <1>1 DEF PostRating
<1>4. poster' \in [Poster -> PosterRecord] /\ poster'[q] = r /\ \A p \in Poster \ {q} : poster'[p] = poster[p]
  BY <1>0, <1>2, <1>3 DEF RatingsTyped
<1>5. UNCHANGED <<ratingNow, expiresAt, nonceUntil, rated, ratings, consumed, thanked, unmarked>>
  BY DEF PostRating
<1>6. /\ crossed \subseteq crossed'
      /\ \A p \in Poster : poster[p].at # "idle" => WalletOf(p) \in crossed' /\ m[1] \in crossed'
  BY DEF PostRating, Running
<1>7. RatingsTyped'
  <2>1. \A p \in Poster : poster'[p].at # "idle" => poster'[p].message \in Message
    BY <1>0, <1>2, <1>4 DEF RatingsTyped
  <2> QED
    BY <1>0, <1>4, <1>5, <2>1 DEF RatingsTyped
<1>8. Alone'
  <2> SUFFICES ASSUME NEW x \in Poster, NEW y \in Poster, x # y, poster'[x].at # "idle", poster'[y].at # "idle"
               PROVE  poster'[x].message[1] \in crossed'
    BY DEF Alone, WalletOf
  <2>1. CASE x = q
    BY <1>2, <1>4, <1>6, <2>1
  <2>2. CASE x # q
    BY <1>4, <1>6, <2>2 DEF WalletOf
  <2> QED
    BY <2>1, <2>2
<1>9. NoncesInv'
  <2>1. expiresAt <= ratingNow + ExpiryWindow
    BY DEF PostRating, ValidMessage
  <2>2. (\A p \in Poster : poster[p].at # "idle" => expiresAt <= ratingNow + ExpiryWindow)'
    BY <1>5, <2>1
  <2>3. (\A n \in Message : consumed[n] > 0 => expiresAt + NonceTtl <= nonceUntil[n] + ExpiryWindow)'
    BY <1>0, <1>5 DEF NoncesInv
  <2>4. \A p \in Poster : poster'[p].at = "consume" => poster'[p] = poster[p]
    BY <1>2, <1>4
  <2>5. (\A n \in Message : n[1] \notin crossed =>
       /\ consumed[n] <= 1
       /\ \A p \in Poster : poster[p].at = "consume" /\ poster[p].message = n => consumed[n] = 0)'
    BY <1>0, <1>5, <1>6, <2>4 DEF NoncesInv
  <2> QED
    BY <2>2, <2>3, <2>5 DEF NoncesInv
<1>10. CountsInv'
  <2>1. \A p \in Poster : poster'[p].at \in {"read", "write", "mark"} => poster'[p] = poster[p]
    BY <1>2, <1>4
  <2>2. \A p \in Poster : poster[p].at = "mark" => poster'[p] = poster[p]
    BY <1>3, <1>4
  <2> QED
    BY <1>0, <1>5, <1>6, <2>1, <2>2, CountsStay
<1> QED
  BY <1>7, <1>8, <1>9, <1>10 DEF RatingsInv

\* The steps before the list is read: they leave it, and what is said of it, alone.
LEMMA EarlyCounts ==
  ASSUME RatingsTyped, CountsInv, NEW q \in Poster, NEW r, Moves(q, r),
         r.at \notin {"read", "write", "mark"}, poster[q].at # "mark",
         crossed \subseteq crossed', UNCHANGED <<ratings, thanked, unmarked>>
  PROVE  CountsInv'
  BY MovesKeep, CountsStay

\* What a step leaves of the types.
LEMMA TypesStay ==
  ASSUME RatingsTyped, NEW q \in Poster, NEW r, Moves(q, r),
         UNCHANGED <<ratingNow, expiresAt>>, rated' = thanked', ratings' \in Seq(Wallet),
         nonceUntil' \in [Message -> Nat], consumed' \in [Message -> Nat]
  PROVE  RatingsTyped'
<1>1. /\ poster' \in [Poster -> PosterRecord]
      /\ \A p \in Poster : poster'[p].at # "idle" => poster'[p].message \in Message
  BY MovesKeep
<1> QED
  BY <1>1 DEF RatingsTyped

LEMMA NextStage ==
  ASSUME NEW x \in PosterRecord, NEW a \in RatingStage
  PROVE  /\ [x EXCEPT !.at = a] \in PosterRecord
         /\ [x EXCEPT !.at = a].at = a /\ [x EXCEPT !.at = a].message = x.message
         /\ [x EXCEPT !.at = a].copy = x.copy
  BY DEF PosterRecord

\* A message whose key is gone was never used: the clock has not come so far that the
\* key of a used one could have expired.
LEMMA ReadNonceKeeps ==
  ASSUME RatingsInv, NEW q \in Poster, ReadNonce(q)
  PROVE  RatingsInv'
<1>0. RatingsTyped /\ Alone /\ NoncesInv /\ CountsInv
  BY DEF RatingsInv
<1>1. PICK r : r = IF nonceUntil[poster[q].message] > ratingNow THEN AtRest ELSE [poster[q] EXCEPT !.at = "consume"]
  OBVIOUS
<1>2. poster' = [poster EXCEPT ![q] = r] /\ poster[q].at = "nonce"
  BY <1>1 DEF ReadNonce
<1>3. poster[q] \in PosterRecord /\ "consume" \in RatingStage
  BY <1>0 DEF RatingsTyped, RatingStage
<1>4. /\ r \in PosterRecord /\ r.at \in {"idle", "consume"}
      /\ r.at = "consume" => r.message = poster[q].message /\ ~(nonceUntil[poster[q].message] > ratingNow)
  BY <1>1, <1>3, RestIsRecord, NextStage
<1>5. Moves(q, r)
  BY <1>2, <1>4 DEF Moves
<1>6. UNCHANGED <<ratingNow, expiresAt, nonceUntil, rated, ratings, consumed, thanked, unmarked>>
  BY DEF ReadNonce
<1>7. crossed \subseteq crossed' /\ (Late => WalletOf(q) \in crossed')
  BY DEF ReadNonce
<1>8. RatingsTyped'
  BY <1>0, <1>5, <1>6, TypesStay DEF RatingsTyped
<1>9. Alone'
  BY <1>0, <1>5, <1>7, MovesAlone
<1>10. NoncesInv'
  <2>1. CASE r.at # "consume"
    BY <1>0, <1>5, <1>6, <1>7, <2>1, MovesNonces
  <2>2. CASE r.at = "consume"
    <3>1. (\A p \in Poster : poster[p].at # "idle" => expiresAt <= ratingNow + ExpiryWindow)'
      BY <1>0, <1>5, <1>6, MovesKeep DEF NoncesInv
    <3>2. (\A m \in Message : consumed[m] > 0 => expiresAt + NonceTtl <= nonceUntil[m] + ExpiryWindow)'
      BY <1>0, <1>6 DEF NoncesInv
    <3>3. ASSUME NEW m \in Message, m[1] \notin crossed', NEW p \in Poster, poster'[p].at = "consume", poster'[p].message = m
          PROVE  consumed[m] = 0
      <4>1. CASE p = q
        <5>1. m = poster[q].message /\ ~Late
          BY <1>0, <1>4, <1>5, <1>7, <2>2, <3>3, <4>1, MovesKeep DEF WalletOf
        <5>2. nonceUntil[m] <= ratingNow /\ nonceUntil[m] \in Nat /\ consumed[m] \in Nat /\ ratingNow \in Nat /\ expiresAt \in Nat
          BY <1>0, <1>4, <2>2, <5>1 DEF RatingsTyped
        <5>3. ratingNow < expiresAt + NonceTtl - ExpiryWindow
          BY <5>1, <5>2, ExpiryAssumption DEF Late
        <5>4. consumed[m] > 0 => expiresAt + NonceTtl <= nonceUntil[m] + ExpiryWindow
          BY <1>0 DEF NoncesInv
        <5> QED
          BY <5>2, <5>3, <5>4, ExpiryAssumption
      <4>2. CASE p # q
        BY <1>0, <1>5, <1>7, <3>3, <4>2, MovesKeep DEF NoncesInv
      <4> QED
        BY <4>1, <4>2
    <3>4. (\A m \in Message : m[1] \notin crossed =>
       /\ consumed[m] <= 1
       /\ \A p \in Poster : poster[p].at = "consume" /\ poster[p].message = m => consumed[m] = 0)'
      BY <1>0, <1>6, <1>7, <3>3 DEF NoncesInv
    <3> QED
      BY <3>1, <3>2, <3>4 DEF NoncesInv
  <2> QED
    BY <2>1, <2>2
<1>11. CountsInv'
  BY <1>0, <1>2, <1>4, <1>5, <1>6, <1>7, EarlyCounts
<1> QED
  BY <1>8, <1>9, <1>10, <1>11 DEF RatingsInv

\* The nonce is kept until its message has expired.
LEMMA ConsumeNonceKeeps ==
  ASSUME RatingsInv, NEW q \in Poster, ConsumeNonce(q)
  PROVE  RatingsInv'
<1>0. RatingsTyped /\ Alone /\ NoncesInv /\ CountsInv
  BY DEF RatingsInv
<1>1. PICK r : r = [poster[q] EXCEPT !.at = "duplicate"]
  OBVIOUS
<1>2. poster' = [poster EXCEPT ![q] = r] /\ poster[q].at = "consume"
  BY <1>1 DEF ConsumeNonce
<1>3. poster[q] \in PosterRecord /\ "duplicate" \in RatingStage
  BY <1>0 DEF RatingsTyped, RatingStage
<1>4. r \in PosterRecord /\ r.at = "duplicate" /\ r.message = poster[q].message
  BY <1>1, <1>3, NextStage
<1>5. Moves(q, r)
  BY <1>2, <1>4 DEF Moves
<1>6. UNCHANGED <<ratingNow, expiresAt, rated, ratings, thanked, crossed, unmarked>>
  BY DEF ConsumeNonce
<1>7. PICK m \in Message : m = poster[q].message
  BY <1>0, <1>2 DEF RatingsTyped
<1>8. /\ nonceUntil' = [nonceUntil EXCEPT ![m] = ratingNow + NonceTtl]
      /\ consumed' = [consumed EXCEPT ![m] = @ + 1]
  BY <1>7 DEF ConsumeNonce, NonceKeptUntil
<1>9. /\ nonceUntil' \in [Message -> Nat] /\ consumed' \in [Message -> Nat]
      /\ nonceUntil'[m] = ratingNow + NonceTtl /\ consumed'[m] = consumed[m] + 1
      /\ \A n \in Message \ {m} : nonceUntil'[n] = nonceUntil[n] /\ consumed'[n] = consumed[n]
  BY <1>0, <1>8, ExpiryAssumption DEF RatingsTyped
<1>10. RatingsTyped'
  BY <1>0, <1>5, <1>6, <1>9, TypesStay DEF RatingsTyped
<1>11. Alone'
  BY <1>0, <1>5, <1>6, MovesAlone
<1>12. NoncesInv'
  <2>1. (\A p \in Poster : poster[p].at # "idle" => expiresAt <= ratingNow + ExpiryWindow)'
    BY <1>0, <1>5, <1>6, MovesKeep DEF NoncesInv
  <2>2. ASSUME NEW n \in Message, consumed'[n] > 0
        PROVE  expiresAt + NonceTtl <= nonceUntil'[n] + ExpiryWindow
    <3>1. expiresAt <= ratingNow + ExpiryWindow /\ expiresAt \in Nat /\ ratingNow \in Nat
      BY <1>0, <1>2 DEF NoncesInv, RatingsTyped
    <3>2. CASE n = m
      BY <1>9, <3>1, <3>2, ExpiryAssumption
    <3>3. CASE n # m
      BY <1>0, <1>9, <2>2, <3>3 DEF NoncesInv
    <3> QED
      BY <3>2, <3>3
  <2>3. ASSUME NEW n \in Message, n[1] \notin crossed
        PROVE  /\ consumed'[n] <= 1
               /\ \A p \in Poster : poster'[p].at = "consume" /\ poster'[p].message = n => consumed'[n] = 0
    <3>1. CASE n = m
      <4>1. consumed[m] = 0
        BY <1>0, <1>2, <1>7, <2>3, <3>1 DEF NoncesInv
      <4>2. \A p \in Poster : poster'[p].at = "consume" => p # q /\ poster[p].at # "idle"
        BY <1>0, <1>4, <1>5, MovesKeep
      <4>3. \A p \in Poster : poster'[p].at = "consume" => poster'[p].message # n
        BY <1>0, <1>2, <1>7, <2>3, <3>1, <4>2, OthersIdle DEF WalletOf
      <4> QED
        BY <1>9, <3>1, <4>1, <4>3
    <3>2. CASE n # m
      <4>1. \A p \in Poster : poster'[p].at = "consume" => poster'[p] = poster[p]
        BY <1>0, <1>4, <1>5, MovesKeep
      <4> QED
        BY <1>0, <1>9, <2>3, <3>2, <4>1 DEF NoncesInv
    <3> QED
      BY <3>1, <3>2
  <2> QED
    BY <1>6, <2>1, <2>2, <2>3 DEF NoncesInv
<1>13. CountsInv'
  BY <1>0, <1>2, <1>4, <1>5, <1>6, EarlyCounts
<1> QED
  BY <1>10, <1>11, <1>12, <1>13 DEF RatingsInv

\* A wallet that is not marked has no rating, unless its request failed to mark it.
LEMMA CheckDuplicateKeeps ==
  ASSUME RatingsInv, NEW q \in Poster, CheckDuplicate(q)
  PROVE  RatingsInv'
<1>0. RatingsTyped /\ Alone /\ NoncesInv /\ CountsInv
  BY DEF RatingsInv
<1>1. PICK r : r = IF WalletOf(q) \in rated THEN AtRest ELSE [poster[q] EXCEPT !.at = "read"]
  OBVIOUS
<1>2. poster' = [poster EXCEPT ![q] = r] /\ poster[q].at = "duplicate"
  BY <1>1 DEF CheckDuplicate
<1>3. poster[q] \in PosterRecord /\ "read" \in RatingStage
  BY <1>0 DEF RatingsTyped, RatingStage
<1>4. /\ r \in PosterRecord /\ r.at \in {"idle", "read"}
      /\ r.at = "read" => r.message = poster[q].message /\ WalletOf(q) \notin thanked
  BY <1>0, <1>1, <1>3, RestIsRecord, NextStage DEF RatingsTyped
<1>5. Moves(q, r)
  BY <1>2, <1>4 DEF Moves
<1>6. UNCHANGED <<ratingNow, expiresAt, nonceUntil, rated, ratings, consumed, thanked, crossed, unmarked>>
  BY DEF CheckDuplicate
<1>7. RatingsTyped'
  BY <1>0, <1>5, <1>6, TypesStay DEF RatingsTyped
<1>8. Alone'
  BY <1>0, <1>5, <1>6, MovesAlone
<1>9. NoncesInv'
  BY <1>0, <1>4, <1>5, <1>6, MovesNonces
<1>10. CountsInv'
  <2>1. /\ \A p \in Poster : poster'[p].at \in {"write", "mark"} => poster'[p] = poster[p]
        /\ \A p \in Poster : poster[p].at \in {"write", "mark"} => poster'[p] = poster[p]
        /\ \A p \in Poster \ {q} : poster'[p] = poster[p]
    BY <1>0, <1>2, <1>4, <1>5, MovesKeep
  <2>2. \A w : Marking(w)' <=> Marking(w)
    BY <2>1 DEF Marking, WalletOf
  <2>3. ASSUME NEW w \in Wallet, w \notin crossed, w \notin unmarked, NEW p \in Poster,
               poster'[p].at \in {"read", "write"}, poster'[p].message[1] = w
        PROVE  Times(ratings, w) = 0
    <3>1. CASE p = q
      <4>1. w = WalletOf(q) /\ w \notin thanked
        BY <1>0, <1>4, <1>5, <2>3, <3>1, MovesKeep DEF WalletOf
      <4>2. ~Marking(w)
        BY <1>0, <1>2, <2>3, <4>1, OthersIdle DEF Marking
      <4>3. ~(Times(ratings, w) > 0)
        BY <1>0, <2>3, <4>1, <4>2 DEF CountsInv
      <4>4. Times(ratings, w) \in Nat
        BY <1>0, TimesIsNat DEF RatingsTyped
      <4> QED
        BY <4>3, <4>4
    <3>2. CASE p # q
      BY <1>0, <2>1, <2>3, <3>2 DEF CountsInv, WalletOf
    <3> QED
      BY <3>1, <3>2
  <2>4. \A w \in Wallet \ crossed : \A p \in Poster : poster'[p].at = "write" => Times(poster'[p].copy, w) = Times(ratings, w)
    BY <1>0, <2>1 DEF CountsInv
  <2>5. \A w \in Wallet \ crossed : /\ Times(ratings, w) > 0 => w \in thanked \/ w \in unmarked \/ Marking(w)
                                    /\ w \notin unmarked => Times(ratings, w) <= 1
                                    /\ w \in thanked \/ Marking(w) => Times(ratings, w) > 0
    BY <1>0 DEF CountsInv
  <2> QED
    BY <1>6, <2>2, <2>3, <2>4, <2>5 DEF CountsInv, WalletOf
<1> QED
  BY <1>7, <1>8, <1>9, <1>10 DEF RatingsInv

\* The copy is the list.
LEMMA ReadRatingsKeeps ==
  ASSUME RatingsInv, NEW q \in Poster, ReadRatings(q)
  PROVE  RatingsInv'
<1>0. RatingsTyped /\ Alone /\ NoncesInv /\ CountsInv
  BY DEF RatingsInv
<1>1. PICK r : r = [[poster[q] EXCEPT !.at = "write"] EXCEPT !.copy = ratings]
  OBVIOUS
<1>2. poster' = [poster EXCEPT ![q] = r] /\ poster[q].at = "read"
  BY <1>1 DEF ReadRatings
<1>3. poster[q] \in PosterRecord /\ "write" \in RatingStage /\ ratings \in Seq(Wallet)
  BY <1>0 DEF RatingsTyped, RatingStage
<1>4. r \in PosterRecord /\ r.at = "write" /\ r.message = poster[q].message /\ r.copy = ratings
  BY <1>1, <1>3 DEF PosterRecord
<1>5. Moves(q, r)
  BY <1>2, <1>4 DEF Moves
<1>6. UNCHANGED <<ratingNow, expiresAt, nonceUntil, rated, ratings, consumed, thanked, crossed, unmarked>>
  BY DEF ReadRatings
<1>7. RatingsTyped'
  BY <1>0, <1>5, <1>6, TypesStay DEF RatingsTyped
<1>8. Alone'
  BY <1>0, <1>5, <1>6, MovesAlone
<1>9. NoncesInv'
  BY <1>0, <1>4, <1>5, <1>6, MovesNonces
<1>10. CountsInv'
  <2>1. /\ \A p \in Poster : poster'[p].at = "mark" => poster'[p] = poster[p]
        /\ \A p \in Poster : poster[p].at = "mark" => poster'[p] = poster[p]
        /\ \A p \in Poster \ {q} : poster'[p] = poster[p]
        /\ poster'[q] = r
    BY <1>0, <1>2, <1>4, <1>5, MovesKeep
  <2>2. \A w : Marking(w)' <=> Marking(w)
    BY <2>1 DEF Marking, WalletOf
  <2>3. \A p \in Poster : poster'[p].at \in {"read", "write"} =>
          poster[p].at \in {"read", "write"} /\ poster'[p].message[1] = WalletOf(p)
    BY <1>2, <1>4, <2>1 DEF WalletOf
  <2>4. \A w \in Wallet \ crossed : \A p \in Poster : poster'[p].at = "write" => Times(poster'[p].copy, w) = Times(ratings, w)
    BY <1>0, <1>4, <2>1 DEF CountsInv
  <2>5. \A w \in Wallet \ crossed :
          /\ Times(ratings, w) > 0 => w \in thanked \/ w \in unmarked \/ Marking(w)
          /\ w \notin unmarked =>
               /\ Times(ratings, w) <= 1
               /\ \A p \in Poster : poster'[p].at \in {"read", "write"} /\ poster'[p].message[1] = w => Times(ratings, w) = 0
          /\ w \in thanked \/ Marking(w) => Times(ratings, w) > 0
    BY <1>0, <2>3 DEF CountsInv
  <2> QED
    BY <1>6, <2>2, <2>4, <2>5 DEF CountsInv, WalletOf
<1> QED
  BY <1>7, <1>8, <1>9, <1>10 DEF RatingsInv

\* The list that is written back lost no rating of a wallet that did not cross.
LEMMA WriteRatingsKeeps ==
  ASSUME RatingsInv, NEW q \in Poster, WriteRatings(q)
  PROVE  RatingsInv'
<1>0. RatingsTyped /\ Alone /\ NoncesInv /\ CountsInv
  BY DEF RatingsInv
<1>1. PICK r : r = [poster[q] EXCEPT !.at = "mark"]
  OBVIOUS
<1>2. poster' = [poster EXCEPT ![q] = r] /\ poster[q].at = "write"
  BY <1>1 DEF WriteRatings
<1>3. poster[q] \in PosterRecord /\ "mark" \in RatingStage
  BY <1>0 DEF RatingsTyped, RatingStage
<1>4. r \in PosterRecord /\ r.at = "mark" /\ r.message = poster[q].message
  BY <1>1, <1>3, NextStage
<1>5. Moves(q, r)
  BY <1>2, <1>4 DEF Moves
<1>6. UNCHANGED <<ratingNow, expiresAt, nonceUntil, rated, consumed, thanked, crossed, unmarked>>
  BY DEF WriteRatings
<1>7. PICK v \in Wallet : v = WalletOf(q)
  BY <1>0, <1>2 DEF RatingsTyped, WalletOf, Wallet
<1>8. PICK copy \in Seq(Wallet) : copy = poster[q].copy
  BY <1>3 DEF PosterRecord
<1>9. ratings' = Append(copy, v) /\ ratings' \in Seq(Wallet)
  BY <1>7, <1>8 DEF WriteRatings
<1>10. RatingsTyped'
  BY <1>0, <1>5, <1>6, <1>9, TypesStay DEF RatingsTyped
<1>11. Alone'
  BY <1>0, <1>5, <1>6, MovesAlone
<1>12. NoncesInv'
  BY <1>0, <1>4, <1>5, <1>6, MovesNonces
<1>13. CountsInv'
  <2>1. (\A p \in Poster \ {q} : poster'[p] = poster[p]) /\ poster'[q] = r
    BY <1>0, <1>5, MovesKeep
  <2> SUFFICES ASSUME NEW w \in Wallet, w \notin crossed
               PROVE  (/\ \A p \in Poster : poster[p].at = "write" => Times(poster[p].copy, w) = Times(ratings, w)
                       /\ Times(ratings, w) > 0 => w \in thanked \/ w \in unmarked \/ Marking(w)
                       /\ w \notin unmarked =>
                            /\ Times(ratings, w) <= 1
                            /\ \A p \in Poster : poster[p].at \in {"read", "write"} /\ WalletOf(p) = w => Times(ratings, w) = 0
                       /\ w \in thanked \/ Marking(w) => Times(ratings, w) > 0)'
    BY <1>6 DEF CountsInv
  <2>2. PICK n \in Nat : n = Times(ratings, w)
    BY <1>0, TimesIsNat DEF RatingsTyped
  <2>3. Times(copy, w) = n
    BY <1>0, <1>2, <1>8, <2>2 DEF CountsInv
  <2>4. Times(ratings, w)' = n + (IF v = w THEN 1 ELSE 0)
    BY <1>9, <2>3, TimesAppended
  <2>5. /\ n > 0 => w \in thanked \/ w \in unmarked \/ Marking(w)
        /\ w \in thanked \/ Marking(w) => n > 0
        /\ w \notin unmarked => n <= 1
        /\ \A p \in Poster : /\ poster[p].at = "write" => Times(poster[p].copy, w) = n
                             /\ w \notin unmarked /\ poster[p].at \in {"read", "write"} /\ WalletOf(p) = w => n = 0
    BY <1>0, <2>2 DEF CountsInv
  <2>6. CASE v = w
    <3>1. \A p \in Poster \ {q} : poster'[p].at = "idle"
      BY <1>0, <1>2, <1>7, <2>1, <2>6, OthersIdle
    <3>2. \A p \in Poster : poster'[p].at \notin {"read", "write"}
      BY <1>4, <2>1, <3>1
    <3>3. w \notin unmarked => n = 0
      BY <1>2, <1>7, <2>5, <2>6
    <3>4. Marking(w)'
      BY <1>4, <1>7, <2>1, <2>6 DEF Marking, WalletOf
    <3>5. Times(ratings, w)' = n + 1
      BY <2>4, <2>6
    <3> QED
      BY <1>6, <3>2, <3>3, <3>4, <3>5
  <2>7. CASE v # w
    <3>1. Times(ratings, w)' = n
      BY <2>4, <2>7
    <3>2. Marking(w)' <=> Marking(w)
      BY <1>2, <1>4, <1>7, <2>1, <2>7 DEF Marking, WalletOf
    <3>3. \A p \in Poster : poster'[p].at \in {"read", "write"} => poster'[p] = poster[p]
      BY <1>4, <2>1
    <3>4. (\A p \in Poster : poster[p].at = "write" => Times(poster[p].copy, w) = Times(ratings, w))'
      BY <2>5, <3>1, <3>3
    <3>5. (w \notin unmarked => /\ Times(ratings, w) <= 1
             /\ \A p \in Poster : poster[p].at \in {"read", "write"} /\ WalletOf(p) = w => Times(ratings, w) = 0)'
      BY <1>6, <2>5, <3>1, <3>3 DEF WalletOf
    <3> QED
      BY <1>6, <2>5, <3>1, <3>2, <3>4, <3>5
  <2> QED
    BY <2>6, <2>7
<1> QED
  BY <1>10, <1>11, <1>12, <1>13 DEF RatingsInv

\* The wallet's rating is in the list when it is marked and thanked.
LEMMA RecordRatingKeeps ==
  ASSUME RatingsInv, NEW q \in Poster, RecordRating(q)
  PROVE  RatingsInv'
<1>0. RatingsTyped /\ Alone /\ NoncesInv /\ CountsInv
  BY DEF RatingsInv
<1>1. PICK r : r = AtRest
  OBVIOUS
<1>2. poster' = [poster EXCEPT ![q] = r] /\ poster[q].at = "mark"
  BY <1>1 DEF RecordRating
<1>3. r \in PosterRecord /\ r.at = "idle"
  BY <1>1, RestIsRecord
<1>4. Moves(q, r)
  BY <1>2, <1>3 DEF Moves
<1>5. UNCHANGED <<ratingNow, expiresAt, nonceUntil, ratings, consumed, crossed, unmarked>>
  BY DEF RecordRating
<1>6. rated' = rated \cup {WalletOf(q)} /\ thanked' = thanked \cup {WalletOf(q)}
  BY DEF RecordRating
<1>7. RatingsTyped'
  BY <1>0, <1>4, <1>5, <1>6, TypesStay DEF RatingsTyped
<1>8. Alone'
  BY <1>0, <1>4, <1>5, MovesAlone
<1>9. NoncesInv'
  BY <1>0, <1>3, <1>4, <1>5, MovesNonces
<1>10. CountsInv'
  <2>1. (\A p \in Poster \ {q} : poster'[p] = poster[p]) /\ poster'[q] = r
    BY <1>0, <1>4, MovesKeep
  <2>2. \A p \in Poster : poster'[p].at # "idle" => poster'[p] = poster[p]
    BY <1>3, <2>1
  <2>3. \A w : /\ Marking(w)' => Marking(w)
               /\ Marking(w) => Marking(w)' \/ w = WalletOf(q)
    BY <2>1, <2>2 DEF Marking, WalletOf
  <2>4. Marking(WalletOf(q))
    BY <1>2 DEF Marking
  <2>5. \A w \in Wallet \ crossed :
          /\ \A p \in Poster : poster'[p].at = "write" => Times(poster'[p].copy, w) = Times(ratings, w)
          /\ w \notin unmarked =>
               /\ Times(ratings, w) <= 1
               /\ \A p \in Poster : poster'[p].at \in {"read", "write"} /\ poster'[p].message[1] = w => Times(ratings, w) = 0
    BY <1>0, <2>2 DEF CountsInv, WalletOf
  <2>6. \A w \in Wallet \ crossed :
          /\ Times(ratings, w) > 0 => w \in thanked' \/ w \in unmarked \/ Marking(w)'
          /\ w \in thanked' \/ Marking(w)' => Times(ratings, w) > 0
    BY <1>0, <1>6, <2>3, <2>4 DEF CountsInv
  <2> QED
    BY <1>5, <2>5, <2>6 DEF CountsInv, WalletOf
<1> QED
  BY <1>7, <1>8, <1>9, <1>10 DEF RatingsInv

\* A request that fails after its rating was stored leaves the wallet unmarked.
LEMMA StoreFailsKeeps ==
  ASSUME RatingsInv, NEW q \in Poster, StoreFails(q)
  PROVE  RatingsInv'
<1>0. RatingsTyped /\ Alone /\ NoncesInv /\ CountsInv
  BY DEF RatingsInv
<1>1. PICK r : r = AtRest
  OBVIOUS
<1>2. poster' = [poster EXCEPT ![q] = r] /\ poster[q].at # "idle"
  BY <1>1 DEF StoreFails
<1>3. r \in PosterRecord /\ r.at = "idle"
  BY <1>1, RestIsRecord
<1>4. Moves(q, r)
  BY <1>2, <1>3 DEF Moves
<1>5. UNCHANGED <<ratingNow, expiresAt, nonceUntil, rated, ratings, consumed, crossed, thanked>>
  BY DEF StoreFails
<1>6. /\ unmarked \subseteq unmarked'
      /\ poster[q].at = "mark" => WalletOf(q) \in unmarked'
  BY DEF StoreFails
<1>7. RatingsTyped'
  BY <1>0, <1>4, <1>5, TypesStay DEF RatingsTyped
<1>8. Alone'
  BY <1>0, <1>4, <1>5, MovesAlone
<1>9. NoncesInv'
  BY <1>0, <1>3, <1>4, <1>5, MovesNonces
<1>10. CountsInv'
  <2>1. (\A p \in Poster \ {q} : poster'[p] = poster[p]) /\ poster'[q] = r
    BY <1>0, <1>4, MovesKeep
  <2>2. \A p \in Poster : poster'[p].at # "idle" => poster'[p] = poster[p]
    BY <1>3, <2>1
  <2>3. \A w : /\ Marking(w)' => Marking(w)
               /\ Marking(w) => Marking(w)' \/ w \in unmarked'
    BY <1>6, <2>1, <2>2 DEF Marking, WalletOf
  <2>4. \A w \in Wallet \ crossed :
          /\ \A p \in Poster : poster'[p].at = "write" => Times(poster'[p].copy, w) = Times(ratings, w)
          /\ w \notin unmarked' =>
               /\ Times(ratings, w) <= 1
               /\ \A p \in Poster : poster'[p].at \in {"read", "write"} /\ poster'[p].message[1] = w => Times(ratings, w) = 0
    BY <1>0, <1>6, <2>2 DEF CountsInv, WalletOf
  <2>5. \A w \in Wallet \ crossed :
          /\ Times(ratings, w) > 0 => w \in thanked \/ w \in unmarked' \/ Marking(w)'
          /\ w \in thanked \/ Marking(w)' => Times(ratings, w) > 0
    BY <1>0, <1>6, <2>3 DEF CountsInv
  <2> QED
    BY <1>5, <2>4, <2>5 DEF CountsInv, WalletOf
<1> QED
  BY <1>7, <1>8, <1>9, <1>10 DEF RatingsInv

\* Time passes: what was valid when it began stays in the window.
LEMMA RatingTimeKeeps ==
  ASSUME RatingsInv, RatingTimePasses
  PROVE  RatingsInv'
<1>0. RatingsTyped /\ Alone /\ NoncesInv /\ CountsInv
  BY DEF RatingsInv
<1>1. /\ ratingNow' = ratingNow + 1
      /\ UNCHANGED <<expiresAt, nonceUntil, rated, ratings, poster, consumed, thanked, crossed, unmarked>>
  BY DEF RatingTimePasses
<1>2. RatingsTyped'
  BY <1>0, <1>1 DEF RatingsTyped
<1>3. Alone'
  BY <1>0, <1>1 DEF Alone, WalletOf
<1>4. NoncesInv'
  <2>1. \A q \in Poster : poster[q].at # "idle" => expiresAt <= ratingNow' + ExpiryWindow
    BY <1>0, <1>1, ExpiryAssumption DEF NoncesInv, RatingsTyped
  <2> QED
    BY <1>0, <1>1, <2>1 DEF NoncesInv
<1>5. CountsInv'
  BY <1>0, <1>1, CountsStay
<1> QED
  BY <1>2, <1>3, <1>4, <1>5 DEF RatingsInv

LEMMA RatingsStart == RatingsInit => RatingsInv
<1> SUFFICES ASSUME RatingsInit PROVE RatingsInv
  OBVIOUS
<1>1. \A q \in Poster : poster[q] = AtRest
  BY DEF RatingsInit
<1>2. RatingsTyped
  BY <1>1, RestIsRecord, ExpiryAssumption DEF RatingsInit, RatingsTyped
<1>3. Alone
  BY <1>1, RestIsRecord DEF Alone
<1>4. NoncesInv
  BY <1>1, RestIsRecord DEF RatingsInit, NoncesInv
<1>5. \A w : ~Marking(w) /\ Times(ratings, w) = 0
  BY <1>1, RestIsRecord, EmptyCounts DEF RatingsInit, Marking
<1>6. CountsInv
  BY <1>1, <1>5, RestIsRecord DEF RatingsInit, CountsInv
<1> QED
  BY <1>2, <1>3, <1>4, <1>6 DEF RatingsInv

LEMMA RatingsStep == ASSUME RatingsInv, RatingsNext PROVE RatingsInv'
  BY PostKeeps, ReadNonceKeeps, ConsumeNonceKeeps, CheckDuplicateKeeps, ReadRatingsKeeps,
     WriteRatingsKeeps, RecordRatingKeeps, StoreFailsKeeps, RatingTimeKeeps DEF RatingsNext

LEMMA RatingsIdle == ASSUME RatingsInv, UNCHANGED ratingVars PROVE RatingsInv'
<1>0. RatingsTyped /\ Alone /\ NoncesInv /\ CountsInv
  BY DEF RatingsInv
<1>1. UNCHANGED <<ratingNow, expiresAt, nonceUntil, rated, ratings, poster, consumed, thanked, crossed, unmarked>>
  BY DEF ratingVars
<1>2. RatingsTyped' /\ Alone' /\ NoncesInv'
  BY <1>0, <1>1 DEF RatingsTyped, Alone, WalletOf, NoncesInv
<1>3. CountsInv'
  BY <1>0, <1>1, CountsStay
<1> QED
  BY <1>2, <1>3 DEF RatingsInv

\* A wallet's signed message is used once and its rating counted once, for any number of
\* requests, wallets and nonces and any lifetimes of messages and keys
\* (ratingsProtocol.ts:20-24, 102-108; ratings/route.ts:79-121).
THEOREM RatingsCountOnce == Spec => []EachRatingCountsOnce
<1>1. Init => RatingsInv
  BY RatingsStart DEF Init
<1>2. RatingsInv /\ [Next]_flowsVars => RatingsInv'
  BY RatingsStep, RatingsIdle DEF Next, Only, flowsVars
<1>3. RatingsInv => EachRatingCountsOnce
  <2> SUFFICES ASSUME RatingsInv, NEW w \in Wallet \ crossed
               PROVE  /\ \A m \in Message : m[1] = w => consumed[m] <= 1
                      /\ w \notin unmarked => TimesRated(w) <= 1
                      /\ w \in thanked => TimesRated(w) >= 1
    BY DEF EachRatingCountsOnce
  <2>1. \A m \in Message : m[1] = w => consumed[m] <= 1
    BY DEF RatingsInv, NoncesInv
  <2>2. Times(ratings, w) \in Nat
    BY TimesIsNat DEF RatingsInv, RatingsTyped
  <2>3. TimesRated(w) = Times(ratings, w)
    BY DEF TimesRated, Times
  <2>4. /\ w \notin unmarked => Times(ratings, w) <= 1
        /\ w \in thanked => Times(ratings, w) > 0
    BY DEF RatingsInv, CountsInv
  <2> QED
    BY <2>1, <2>2, <2>3, <2>4
<1> QED
  BY <1>1, <1>2, <1>3, PTL DEF Spec

-----------------------------------------------------------------------------
(* Induction over the naturals, through the smallest counterexample *)

Below == OpToRel(<, Nat)

LEMMA SmallestNat ==
  ASSUME NEW T, T \subseteq Nat, T # {}
  PROVE  \E n \in T : \A m \in T : n <= m
<1>1. \A x, y \in Nat : <<x, y>> \in Below <=> x < y
  BY DEF Below, OpToRel
<1>2. IsWellFoundedOn(Below, Nat)
  BY NatLessThanWellFounded, Zenon DEF Below
<1>3. PICK x \in T : \A y \in T : ~(<<y, x>> \in Below)
  BY <1>2, WFMin, Zenon
<1>4. \A y \in T : ~(y < x)
  BY <1>1, <1>3, Zenon
<1> QED
  BY <1>4

-----------------------------------------------------------------------------
(* OfflineQueue: what is stored waits until it was sent, and is sent once *)

\* What a filter keeps of the first operations of a list.
Keeps(s, o, f, k) ==
  f = [n \in 0..k |-> IF n = 0 THEN <<>>
                      ELSE IF s[n] = o THEN f[n - 1] ELSE Append(f[n - 1], s[n])]

LEMMA KeepsExists ==
  ASSUME NEW S, NEW s \in Seq(S), NEW o
  PROVE  \A k \in Nat : \E f : Keeps(s, o, f, k)
<1> DEFINE T == {k \in Nat : ~\E f : Keeps(s, o, f, k)}
<1> SUFFICES ASSUME T # {} PROVE FALSE
  OBVIOUS
<1>1. PICK k \in T : \A m \in T : k <= m
  BY SmallestNat
<1>2. k # 0
  <2>1. Keeps(s, o, [n \in 0..0 |-> <<>>], 0)
    BY DEF Keeps
  <2> QED
    BY <2>1
<1>3. k - 1 \in Nat /\ k - 1 \notin T
  BY <1>1, <1>2
<1>4. PICK f : Keeps(s, o, f, k - 1)
  BY <1>3
<1>5. PICK g : g = [n \in 0..k |-> IF n = k THEN IF s[k] = o THEN f[k - 1] ELSE Append(f[k - 1], s[k]) ELSE f[n]]
  OBVIOUS
<1>6. PICK h : h = [n \in 0..k |-> IF n = 0 THEN <<>>
                                   ELSE IF s[n] = o THEN g[n - 1] ELSE Append(g[n - 1], s[n])]
  OBVIOUS
<1>7. \A n \in 0..(k - 1) : f[n] = IF n = 0 THEN <<>> ELSE IF s[n] = o THEN f[n - 1] ELSE Append(f[n - 1], s[n])
  BY <1>4 DEF Keeps
<1>8. \A n \in 0..k : g[n] = h[n]
  <2> SUFFICES ASSUME NEW n \in 0..k PROVE g[n] = h[n]
    OBVIOUS
  <2>1. CASE n = k
    <3>1. g[k - 1] = f[k - 1]
      BY <1>2, <1>3, <1>5
    <3> QED
      BY <1>2, <1>5, <1>6, <2>1, <3>1
  <2>2. CASE n # k /\ n # 0
    <3>1. n \in 0..(k - 1) /\ n - 1 \in 0..k /\ n - 1 # k
      BY <2>2
    <3>2. g[n] = f[n] /\ g[n - 1] = f[n - 1]
      BY <1>5, <2>2, <3>1
    <3> QED
      BY <1>6, <1>7, <2>2, <3>1, <3>2
  <2>3. CASE n = 0
    BY <1>2, <1>3, <1>5, <1>6, <1>7, <2>3
  <2> QED
    BY <2>1, <2>2, <2>3
<1>9. g = h
  BY <1>5, <1>6, <1>8
<1>10. Keeps(s, o, g, k)
  BY <1>6, <1>9 DEF Keeps
<1> QED
  BY <1>1, <1>10

LEMMA AppendedSet ==
  ASSUME NEW S, NEW s \in Seq(S), NEW e \in S
  PROVE  Append(s, e) \in Seq(S) /\ ToSet(Append(s, e)) = ToSet(s) \cup {e}
<1>1. /\ Append(s, e) \in Seq(S) /\ Len(s) \in Nat /\ DOMAIN s = 1..Len(s)
      /\ DOMAIN Append(s, e) = 1..(Len(s) + 1)
      /\ Append(s, e)[Len(s) + 1] = e /\ \A i \in 1..Len(s) : Append(s, e)[i] = s[i]
  OBVIOUS
<1>2. 1..(Len(s) + 1) = (1..Len(s)) \cup {Len(s) + 1}
  BY <1>1
<1> QED
  BY <1>1, <1>2 DEF ToSet

\* Filtering an operation out of a list leaves the others.
LEMMA WithoutIs ==
  ASSUME NEW S, NEW s \in Seq(S), NEW o
  PROVE  Without(s, o) \in Seq(S) /\ ToSet(Without(s, o)) = ToSet(s) \ {o}
<1>1. Len(s) \in Nat /\ DOMAIN s = 1..Len(s)
  OBVIOUS
<1>2. \E f : Keeps(s, o, f, Len(s))
  BY <1>1, KeepsExists
<1>3. PICK f : Keeps(s, o, f, Len(s)) /\ Without(s, o) = f[Len(s)]
  BY <1>2, Zenon DEF Without, Keeps
<1> DEFINE P(k) == f[k] \in Seq(S) /\ ToSet(f[k]) = {s[i] : i \in 1..k} \ {o}
           T == {k \in 0..Len(s) : ~P(k)}
<1>4. f[0] = <<>> /\ \A k \in 1..Len(s) : f[k] = IF s[k] = o THEN f[k - 1] ELSE Append(f[k - 1], s[k])
  <2>1. \A n \in 0..Len(s) : f[n] = IF n = 0 THEN <<>> ELSE IF s[n] = o THEN f[n - 1] ELSE Append(f[n - 1], s[n])
    BY <1>3 DEF Keeps
  <2> QED
    BY <1>1, <2>1
<1>5. P(0)
  BY <1>4 DEF ToSet
<1>6. ASSUME NEW k \in 1..Len(s), P(k - 1) PROVE P(k)
  <2>1. {s[i] : i \in 1..k} = {s[i] : i \in 1..(k - 1)} \cup {s[k]}
    BY <1>1
  <2>2. CASE s[k] = o
    BY <1>4, <1>6, <2>1, <2>2
  <2>3. CASE s[k] # o
    <3>1. f[k] = Append(f[k - 1], s[k])
      BY <1>4, <2>3
    <3>2. s[k] \in S /\ f[k - 1] \in Seq(S)
      BY <1>1, <1>6
    <3>3. f[k] \in Seq(S) /\ ToSet(f[k]) = ToSet(f[k - 1]) \cup {s[k]}
      BY <3>1, <3>2, AppendedSet
    <3> QED
      BY <1>6, <2>1, <2>3, <3>3
  <2> QED
    BY <2>2, <2>3
<1> HIDE DEF P
<1>7. T = {}
  <2> SUFFICES ASSUME T # {} PROVE FALSE
    OBVIOUS
  <2>1. PICK k \in T : \A m \in T : k <= m
    <3>1. T \subseteq Nat
      BY <1>1
    <3> QED
      BY <3>1, SmallestNat
  <2>2. k \in 1..Len(s) /\ k - 1 \in 0..Len(s) /\ k - 1 \notin T
    BY <1>1, <1>5, <2>1
  <2> QED
    BY <1>6, <2>1, <2>2
<1>8. P(Len(s))
  BY <1>1, <1>7
<1> QED
  BY <1>1, <1>3, <1>8 DEF P, ToSet
\* What a loop and a tab hold, for the operations that were queued.
LoopRecord(Q) == [left : Seq(Q), at : {"send", "answer"}, conflict : BOOLEAN,
                  tries : 0..DispatchAttempts, handed : BOOLEAN]
TabRecord(Q) == [isOnline : BOOLEAN, formOnline : BOOLEAN, queue : Seq(Q),
                 syncState : {"idle", "syncing", "success", "error"}, timers : Nat,
                 loops : Seq(LoopRecord(Q)), late : [Operation -> Nat]]

\* A loop that waits for an answer waits for that of its first operation, in one of
\* its attempts.
FitsLoop(r) == r.at = "answer" => r.left # <<>> /\ r.tries \in 1..DispatchAttempts
Fits(b) == \A l \in DOMAIN b.loops : FitsLoop(b.loops[l])
Waits(r, x) == r.at = "answer" /\ Head(r.left) = x
AnswersIn(b, x) == \E l \in DOMAIN b.loops : Waits(b.loops[l], x)

\* What was handed over is counted.
Counted(r, s) == r.at = "answer" /\ r.handed => s[Head(r.left)] > 0
CountedIn(b, s) == \A l \in DOMAIN b.loops : Counted(b.loops[l], s)

OfflineTyped ==
  /\ queued \subseteq Operation
  /\ stored \in Seq(queued)
  /\ tab \in [Tab -> TabRecord(queued)] /\ \A t \in Tab : Fits(tab[t])
  /\ sent \in [Operation -> Nat]

\* A tab has nothing to do with an operation; one of its loops dispatches it, and the
\* attempts it has begun account for the transactions there are and may be.
Calm(b, x) == ~AnswersIn(b, x) /\ b.late[x] = 0
Open(r) == IF r.handed THEN 0 ELSE 1
Writing(b, x, n) ==
  \E l \in DOMAIN b.loops :
    /\ Waits(b.loops[l], x)
    /\ n + b.late[x] + Open(b.loops[l]) <= b.loops[l].tries
    /\ \A k \in DOMAIN b.loops \ {l} : ~Waits(b.loops[k], x)

\* An operation was never dispatched in earnest, is being dispatched by one loop, or has
\* left the list after one dispatch, of which attempts may still run on in its tab.
Untouched(x) == sent[x] = 0 /\ \A u \in Tab : Calm(tab[u], x)
Underway(x, t) ==
  /\ x \in ToSet(stored) /\ Writing(tab[t], x, sent[x])
  /\ \A u \in Tab \ {t} : Calm(tab[u], x)
Finished(x, t) ==
  /\ x \notin ToSet(stored) /\ ~AnswersIn(tab[t], x)
  /\ sent[x] + tab[t].late[x] <= DispatchAttempts
  /\ \A u \in Tab \ {t} : Calm(tab[u], x)
Budget(x) == Untouched(x) \/ \E t \in Tab : Underway(x, t) \/ Finished(x, t)

Budgeted(O) == \A x \in O \ excused : Budget(x)

SentInv ==
  /\ \A x \in queued : x \in ToSet(stored) \/ sent[x] > 0
  /\ \A t \in Tab : CountedIn(tab[t], sent)
  /\ \A x \in Operation \ queued : Untouched(x)
  /\ \A x \in Operation \ excused : Budget(x)

OfflineInv == OfflineTyped /\ SentInv

LEMMA SeqGrows == \A P, Q : P \subseteq Q => Seq(P) \subseteq Seq(Q)
  OBVIOUS

LEMMA TabGrows ==
  ASSUME NEW P, NEW Q, P \subseteq Q
  PROVE  TabRecord(P) \subseteq TabRecord(Q)
<1>1. Seq(P) \subseteq Seq(Q)
  BY SeqGrows
<1>2. LoopRecord(P) \subseteq LoopRecord(Q)
  BY <1>1 DEF LoopRecord
<1>3. Seq(LoopRecord(P)) \subseteq Seq(LoopRecord(Q))
  BY <1>2, SeqGrows
<1> QED
  BY <1>1, <1>3 DEF TabRecord

LEMMA BeingSentIs == \A o : BeingSent(o) <=> \E t \in Tab : AnswersIn(tab[t], o)
  BY DEF BeingSent, AnswersIn, Waits, Current

\* What one tab's turn changes of the tabs.
Turn(t, b) == /\ tab' = [tab EXCEPT ![t] = b]
              /\ b \in TabRecord(queued') /\ Fits(b)
              /\ queued \subseteq queued'

LEMMA TurnType ==
  ASSUME OfflineTyped, NEW t \in Tab, NEW b, Turn(t, b)
  PROVE  /\ tab' \in [Tab -> TabRecord(queued')] /\ \A u \in Tab : Fits(tab'[u])
         /\ tab'[t] = b /\ \A u \in Tab \ {t} : tab'[u] = tab[u]
<1>1. TabRecord(queued) \subseteq TabRecord(queued')
  BY TabGrows DEF Turn
<1>2. tab'[t] = b /\ \A u \in Tab \ {t} : tab'[u] = tab[u]
  BY DEF Turn, OfflineTyped
<1>3. \A u \in Tab : tab[u] \in TabRecord(queued')
  BY <1>1 DEF OfflineTyped
<1> QED
  BY <1>2, <1>3 DEF Turn, OfflineTyped

\* A turn that leaves an operation's dispatch alone, or drops attempts of it.
SameWait(c, b, x) ==
  /\ \A n \in Nat : Writing(c, x, n) => Writing(b, x, n)
  /\ ~AnswersIn(c, x) => ~AnswersIn(b, x) /\ b.late[x] <= c.late[x]

LEMMA CalmStays ==
  ASSUME NEW Q, NEW b \in TabRecord(Q), NEW c \in TabRecord(Q), NEW x \in Operation,
         SameWait(c, b, x), Calm(c, x)
  PROVE  Calm(b, x)
<1>1. b.late[x] \in Nat
  BY DEF TabRecord
<1> QED
  BY <1>1 DEF Calm, SameWait

LEMMA BudgetStays ==
  ASSUME OfflineTyped, NEW t \in Tab, NEW b, Turn(t, b), NEW x \in Operation,
         sent'[x] = sent[x], x \in ToSet(stored') <=> x \in ToSet(stored),
         SameWait(tab[t], b, x)
  PROVE  (Untouched(x) => Untouched(x)') /\ (Budget(x) => Budget(x)')
<1>1. tab'[t] = b /\ \A u \in Tab \ {t} : tab'[u] = tab[u]
  BY TurnType
<1>2. /\ tab[t] \in TabRecord(queued') /\ b \in TabRecord(queued')
      /\ tab[t].late[x] \in Nat /\ b.late[x] \in Nat /\ sent[x] \in Nat
  <2>1. tab[t] \in TabRecord(queued') /\ b \in TabRecord(queued')
    BY TabGrows DEF Turn, OfflineTyped
  <2> QED
    BY <2>1 DEF TabRecord, OfflineTyped
<1>3. Calm(tab[t], x) => Calm(b, x)
  BY <1>2, CalmStays
<1>4. \A u \in Tab : Calm(tab[u], x) => Calm(tab'[u], x)
  BY <1>1, <1>3
<1>5. Untouched(x) => Untouched(x)'
  BY <1>4 DEF Untouched
<1>6. ASSUME NEW u \in Tab, Underway(x, u) PROVE Underway(x, u)'
  <2>1. Writing(tab'[u], x, sent[x])
    BY <1>1, <1>2, <1>6 DEF Underway, SameWait
  <2> QED
    BY <1>4, <1>6, <2>1 DEF Underway
<1>7. ASSUME NEW u \in Tab, Finished(x, u) PROVE Finished(x, u)'
  <2>1. ~AnswersIn(tab'[u], x) /\ sent[x] + tab'[u].late[x] <= DispatchAttempts
    <3>1. CASE u = t
      <4>1. ~AnswersIn(tab[t], x) /\ sent[x] + tab[t].late[x] <= DispatchAttempts
        BY <1>7, <3>1 DEF Finished
      <4>2. ~AnswersIn(b, x) /\ b.late[x] <= tab[t].late[x]
        BY <4>1 DEF SameWait
      <4> QED
        BY <1>1, <1>2, <3>1, <4>1, <4>2, OfflineAssumption
    <3>2. CASE u # t
      BY <1>1, <1>7, <3>2 DEF Finished
    <3> QED
      BY <3>1, <3>2
  <2> QED
    BY <1>4, <1>7, <2>1 DEF Finished
<1> QED
  BY <1>5, <1>6, <1>7 DEF Budget

\* What was counted stays counted.
LEMMA CountedGrows ==
  ASSUME NEW Q \in SUBSET Operation, NEW b \in TabRecord(Q), Fits(b), NEW s \in [Operation -> Nat],
         CountedIn(b, s), NEW n \in [Operation -> Nat], \A x \in Operation : n[x] >= s[x]
  PROVE  CountedIn(b, n)
<1> SUFFICES ASSUME NEW l \in DOMAIN b.loops PROVE Counted(b.loops[l], n)
  BY DEF CountedIn
<1>1. PICK r : r = b.loops[l]
  OBVIOUS
<1>2. r \in LoopRecord(Q) /\ FitsLoop(r) /\ Counted(r, s)
  <2>1. b.loops \in Seq(LoopRecord(Q))
    BY DEF TabRecord
  <2> QED
    BY <1>1, <2>1 DEF Fits, CountedIn
<1>3. ASSUME r.at = "answer", r.handed PROVE n[Head(r.left)] > 0
  <2>1. PICK x \in Operation : x = Head(r.left) /\ s[x] > 0
    <3>1. r.left \in Seq(Q) /\ r.left # <<>>
      BY <1>2, <1>3 DEF LoopRecord, FitsLoop
    <3>2. Head(r.left) \in Q
      BY <3>1
    <3> QED
      BY <1>2, <1>3, <3>2 DEF Counted
  <2>2. n[x] >= s[x] /\ n[x] \in Nat /\ s[x] \in Nat
    OBVIOUS
  <2> QED
    BY <2>1, <2>2
<1> QED
  BY <1>1, <1>3 DEF Counted

\* A turn keeps the invariant if it leaves all operations alone but those of a set, and
\* keeps it for these.
LEMMA TurnKeeps ==
  ASSUME OfflineInv, NEW t \in Tab, NEW b, Turn(t, b), NEW O \in SUBSET queued',
         queued' \subseteq queued \cup O, queued' \subseteq Operation, stored' \in Seq(queued'),
         sent' \in [Operation -> Nat],
         \A x \in Operation : sent'[x] >= sent[x], excused \subseteq excused',
         \A x \in Operation \ O : /\ sent'[x] = sent[x] /\ SameWait(tab[t], b, x)
                                  /\ x \in ToSet(stored') <=> x \in ToSet(stored),
         \A x \in O : x \in ToSet(stored') \/ sent'[x] > 0,
         Budgeted(O)',
         CountedIn(b, sent')
  PROVE  OfflineInv'
<1>0. OfflineTyped /\ SentInv
  BY DEF OfflineInv
<1>1. /\ tab' \in [Tab -> TabRecord(queued')] /\ \A u \in Tab : Fits(tab'[u])
      /\ tab'[t] = b /\ \A u \in Tab \ {t} : tab'[u] = tab[u]
  BY <1>0, TurnType
<1>2. OfflineTyped'
  BY <1>1 DEF OfflineTyped
<1>3. ASSUME NEW x \in queued' PROVE x \in ToSet(stored') \/ sent'[x] > 0
  <2>1. CASE x \in O
    BY <2>1
  <2>2. CASE x \notin O
    BY <1>0, <2>2 DEF SentInv
  <2> QED
    BY <2>1, <2>2
<1>4. ASSUME NEW u \in Tab PROVE CountedIn(tab'[u], sent')
  <2>1. CASE u = t
    BY <1>1, <2>1
  <2>2. CASE u # t
    <3>1. tab[u] \in TabRecord(queued) /\ Fits(tab[u]) /\ CountedIn(tab[u], sent)
      BY <1>0 DEF OfflineTyped, SentInv
    <3>2. queued \in SUBSET Operation /\ sent \in [Operation -> Nat]
      BY <1>0 DEF OfflineTyped
    <3>3. CountedIn(tab[u], sent')
      BY <3>1, <3>2, CountedGrows
    <3> QED
      BY <1>1, <2>2, <3>3
  <2> QED
    BY <2>1, <2>2
<1>5. ASSUME NEW x \in Operation \ queued' PROVE Untouched(x)'
  <2>1. x \in Operation \ O /\ Untouched(x)
    BY <1>0, <1>5 DEF SentInv, Turn
  <2> QED
    BY <1>0, <2>1, BudgetStays
<1>6. ASSUME NEW x \in Operation \ excused' PROVE Budget(x)'
  <2>1. CASE x \in O
    BY <2>1 DEF Budgeted
  <2>2. CASE x \notin O
    <3>1. Budget(x)
      BY <1>0 DEF SentInv
    <3> QED
      BY <1>0, <2>2, <3>1, BudgetStays
  <2> QED
    BY <2>1, <2>2
<1>7. SentInv'
  BY <1>3, <1>4, <1>5, <1>6 DEF SentInv
<1> QED
  BY <1>2, <1>7 DEF OfflineInv

\* A turn of the banner that dispatches nothing and changes no list.
LEMMA QuietTurn ==
  ASSUME OfflineInv, NEW t \in Tab, NEW b, Turn(t, b), UNCHANGED <<stored, sent, queued, excused>>,
         \A x \in Operation : SameWait(tab[t], b, x), CountedIn(b, sent)
  PROVE  OfflineInv'
<1>1. /\ queued \subseteq Operation /\ stored \in Seq(queued) /\ sent \in [Operation -> Nat]
      /\ \A x \in Operation : sent[x] >= sent[x]
  BY DEF OfflineInv, OfflineTyped
<1>2. PICK O \in SUBSET queued' : O = {}
  OBVIOUS
<1>3. Budgeted(O)'
  BY <1>2 DEF Budgeted
<1> QED
  BY <1>1, <1>2, <1>3, TurnKeeps

\* A loop that begins dispatches nothing yet.
LEMMA StartsIs ==
  ASSUME NEW Q, NEW b \in TabRecord(Q), Fits(b), NEW s, CountedIn(b, s)
  PROVE  /\ Starts(b) \in TabRecord(Q) /\ Fits(Starts(b)) /\ CountedIn(Starts(b), s)
         /\ \A x \in Operation : SameWait(b, Starts(b), x)
<1>0. \A x \in Operation : b.late[x] \in Nat
  BY DEF TabRecord
<1>1. CASE ~b.isOnline \/ b.queue = <<>>
  <2>1. Starts(b) = b
    BY <1>1 DEF Starts
  <2> QED
    BY <1>0, <2>1 DEF SameWait
<1>2. CASE ~(~b.isOnline \/ b.queue = <<>>)
  <2>1. PICK f : f = [left |-> b.queue, at |-> "send", conflict |-> FALSE, tries |-> 0, handed |-> FALSE]
    OBVIOUS
  <2>2. f \in LoopRecord(Q) /\ f.at = "send"
    BY <2>1, OfflineAssumption DEF TabRecord, LoopRecord
  <2>3. PICK c : c = Starts(b)
    OBVIOUS
  <2>4. PICK ls \in Seq(LoopRecord(Q)) : ls = b.loops
    BY DEF TabRecord
  <2>5. PICK ms : ms = Append(ls, f)
    OBVIOUS
  <2>6. c = [b EXCEPT !.syncState = "syncing", !.loops = ms]
    BY <1>2, <2>1, <2>3, <2>4, <2>5 DEF Starts
  <2>7. /\ ms \in Seq(LoopRecord(Q)) /\ DOMAIN ls \subseteq DOMAIN ms
        /\ \A l \in DOMAIN ls : ms[l] = ls[l]
        /\ \A l \in DOMAIN ms \ DOMAIN ls : ms[l] = f
    BY <2>2, <2>5
  <2>8. c \in TabRecord(Q) /\ c.loops = ms /\ c.late = b.late
    BY <2>6, <2>7 DEF TabRecord
  <2>9. Fits(c)
    BY <2>2, <2>4, <2>7, <2>8 DEF Fits, FitsLoop
  <2>10. CountedIn(c, s)
    BY <2>2, <2>4, <2>7, <2>8 DEF CountedIn, Counted
  <2>11. ASSUME NEW x \in Operation PROVE SameWait(b, c, x)
    <3>1. ASSUME NEW n \in Nat, Writing(b, x, n) PROVE Writing(c, x, n)
      <4>1. PICK l \in DOMAIN ls : /\ Waits(ls[l], x)
                                   /\ n + b.late[x] + Open(ls[l]) <= ls[l].tries
                                   /\ \A k \in DOMAIN ls \ {l} : ~Waits(ls[k], x)
        BY <2>4, <3>1 DEF Writing
      <4>2. \A k \in DOMAIN ms \ {l} : ~Waits(ms[k], x)
        BY <2>2, <2>7, <4>1 DEF Waits
      <4> QED
        BY <2>7, <2>8, <4>1, <4>2 DEF Writing
    <3>2. ~AnswersIn(b, x) => ~AnswersIn(c, x)
      BY <2>2, <2>4, <2>7, <2>8 DEF AnswersIn, Waits
    <3> QED
      BY <1>0, <2>8, <3>1, <3>2 DEF SameWait
  <2> QED
    BY <2>3, <2>8, <2>9, <2>10, <2>11
<1> QED
  BY <1>1, <1>2

\* A tab that only shows or counts something else.
LEMMA SameLoops ==
  ASSUME NEW Q, NEW b \in TabRecord(Q), Fits(b), NEW s, CountedIn(b, s), NEW c \in TabRecord(Q),
         c.loops = b.loops, c.late = b.late
  PROVE  Fits(c) /\ CountedIn(c, s) /\ \A x \in Operation : SameWait(b, c, x)
<1>1. \A x \in Operation : b.late[x] \in Nat
  BY DEF TabRecord
<1>2. Fits(c) /\ CountedIn(c, s)
  BY DEF Fits, CountedIn
<1>3. \A x \in Operation : SameWait(b, c, x)
  BY <1>1 DEF SameWait, Writing, AnswersIn
<1> QED
  BY <1>2, <1>3

\* Setting one loop of a tab, its queue and its attempts that run on.
LoopPut(b, l, r, q, late) ==
  [[[b EXCEPT !.queue = q] EXCEPT !.late = late] EXCEPT !.loops = [b.loops EXCEPT ![l] = r]]

LEMMA LoopPutIs ==
  ASSUME NEW Q, NEW b \in TabRecord(Q), NEW l \in DOMAIN b.loops, NEW r \in LoopRecord(Q),
         NEW q \in Seq(Q), NEW late \in [Operation -> Nat], NEW c, c = LoopPut(b, l, r, q, late)
  PROVE  /\ c \in TabRecord(Q) /\ c.late = late /\ c.loops[l] = r /\ DOMAIN c.loops = DOMAIN b.loops
         /\ \A k \in DOMAIN b.loops \ {l} : c.loops[k] = b.loops[k]
<1>1. PICK ls \in Seq(LoopRecord(Q)) : ls = b.loops
  BY DEF TabRecord
<1>2. PICK ms : ms = [ls EXCEPT ![l] = r]
  OBVIOUS
<1>3. /\ ms \in Seq(LoopRecord(Q)) /\ DOMAIN ms = DOMAIN ls /\ ms[l] = r
      /\ \A k \in DOMAIN ls \ {l} : ms[k] = ls[k]
  BY <1>1, <1>2
<1>4. PICK d : d = [[b EXCEPT !.queue = q] EXCEPT !.late = late]
  OBVIOUS
<1>5. d \in TabRecord(Q) /\ d.late = late
  BY <1>4 DEF TabRecord
<1>6. c = [d EXCEPT !.loops = ms]
  BY <1>1, <1>2, <1>4 DEF LoopPut
<1>7. c \in TabRecord(Q) /\ c.loops = ms /\ c.late = late
  BY <1>3, <1>5, <1>6 DEF TabRecord
<1> QED
  BY <1>1, <1>3, <1>7

\* What stands in front of a loop's list, and the loop's record.
LEMMA CurrentIs ==
  ASSUME OfflineTyped, NEW t \in Tab, NEW l \in DOMAIN tab[t].loops, tab[t].loops[l].left # <<>>
  PROVE  /\ tab[t].loops[l] \in LoopRecord(queued) /\ FitsLoop(tab[t].loops[l])
         /\ Current(t, l) \in queued /\ Current(t, l) = Head(tab[t].loops[l].left)
         /\ Tail(tab[t].loops[l].left) \in Seq(queued)
<1>1. tab[t].loops \in Seq(LoopRecord(queued)) /\ Fits(tab[t])
  BY DEF OfflineTyped, TabRecord
<1>2. tab[t].loops[l] \in LoopRecord(queued) /\ FitsLoop(tab[t].loops[l])
  BY <1>1 DEF Fits
<1>3. tab[t].loops[l].left \in Seq(queued)
  BY <1>2 DEF LoopRecord
<1> QED
  BY <1>2, <1>3 DEF Current

\* What the budget says of an operation that is being dispatched.
LEMMA CurrentBudget ==
  ASSUME OfflineInv, NEW t \in Tab, NEW l \in DOMAIN tab[t].loops, NEW x \in Operation \ excused,
         Waits(tab[t].loops[l], x)
  PROVE  /\ x \in ToSet(stored)
         /\ sent[x] + tab[t].late[x] + Open(tab[t].loops[l]) <= tab[t].loops[l].tries
         /\ \A k \in DOMAIN tab[t].loops \ {l} : ~Waits(tab[t].loops[k], x)
         /\ \A u \in Tab \ {t} : Calm(tab[u], x)
<1>1. AnswersIn(tab[t], x) /\ Budget(x)
  BY DEF AnswersIn, OfflineInv, SentInv
<1>2. Underway(x, t)
  BY <1>1 DEF Budget, Untouched, Underway, Finished, Calm
<1> QED
  BY <1>2 DEF Underway, Writing

\* A step of one loop: the operation in front is the one it concerns.
LoopStep(t, l, o, r, q, late, b) ==
  /\ tab[t].loops[l].left # <<>> /\ o = Current(t, l)
  /\ r \in LoopRecord(queued) /\ FitsLoop(r) /\ q \in Seq(queued)
  /\ late \in [Operation -> Nat] /\ b = LoopPut(tab[t], l, r, q, late)
  /\ tab' = [tab EXCEPT ![t] = b]
  /\ \A x : Waits(r, x) => x = o
  /\ \A x \in Operation \ {o} : late[x] = tab[t].late[x]
  /\ UNCHANGED queued /\ stored' \in Seq(queued') /\ sent' \in [Operation -> Nat]
  /\ \A x \in Operation \ {o} : sent'[x] = sent[x] /\ (x \in ToSet(stored') <=> x \in ToSet(stored))
  /\ sent'[o] >= sent[o] /\ excused \subseteq excused'
  /\ o \in ToSet(stored') \/ sent'[o] > 0
  /\ Counted(r, sent')
  /\ o \notin excused' => Budget(o)'

LEMMA LoopTurn ==
  ASSUME OfflineInv, NEW t \in Tab, NEW l \in DOMAIN tab[t].loops, NEW o, NEW r, NEW q,
         NEW late, NEW b, LoopStep(t, l, o, r, q, late, b)
  PROVE  OfflineInv'
<1>a. /\ tab[t].loops[l].left # <<>> /\ o = Current(t, l)
      /\ r \in LoopRecord(queued) /\ FitsLoop(r) /\ q \in Seq(queued)
      /\ late \in [Operation -> Nat] /\ b = LoopPut(tab[t], l, r, q, late)
  BY DEF LoopStep
<1>b. /\ tab' = [tab EXCEPT ![t] = b]
      /\ \A x : Waits(r, x) => x = o
      /\ \A x \in Operation \ {o} : late[x] = tab[t].late[x]
  BY DEF LoopStep
<1>c. /\ UNCHANGED queued /\ stored' \in Seq(queued') /\ sent' \in [Operation -> Nat]
      /\ \A x \in Operation \ {o} : sent'[x] = sent[x] /\ (x \in ToSet(stored') <=> x \in ToSet(stored))
      /\ sent'[o] >= sent[o] /\ excused \subseteq excused'
  BY DEF LoopStep
<1>d. /\ o \in ToSet(stored') \/ sent'[o] > 0
      /\ Counted(r, sent')
      /\ o \notin excused' => Budget(o)'
  BY DEF LoopStep
<1>0. OfflineTyped /\ SentInv
  BY DEF OfflineInv
<1>1. o \in queued /\ o \in Operation /\ o = Head(tab[t].loops[l].left)
  BY <1>0, <1>a, CurrentIs DEF OfflineTyped
<1>2. /\ tab[t] \in TabRecord(queued) /\ Fits(tab[t]) /\ CountedIn(tab[t], sent)
      /\ \A x \in Operation : tab[t].late[x] \in Nat /\ sent[x] \in Nat
  <2>1. tab[t] \in TabRecord(queued) /\ Fits(tab[t]) /\ CountedIn(tab[t], sent) /\ sent \in [Operation -> Nat]
    BY <1>0 DEF OfflineTyped, SentInv
  <2> QED
    BY <2>1 DEF TabRecord
<1>3. /\ b \in TabRecord(queued) /\ b.late = late /\ b.loops[l] = r
      /\ DOMAIN b.loops = DOMAIN tab[t].loops
      /\ \A k \in DOMAIN tab[t].loops \ {l} : b.loops[k] = tab[t].loops[k]
  BY <1>a, <1>2, LoopPutIs
<1>4. Fits(b)
  BY <1>a, <1>2, <1>3 DEF Fits
<1>5. \A x \in Operation : sent'[x] >= sent[x] /\ sent'[x] \in Nat
  BY <1>1, <1>2, <1>c
<1>6. CountedIn(b, sent')
  <2> SUFFICES ASSUME NEW k \in DOMAIN tab[t].loops, k # l PROVE Counted(tab[t].loops[k], sent')
    BY <1>3, <1>d DEF CountedIn
  <2>1. PICK f : f = tab[t].loops[k]
    OBVIOUS
  <2>2. f \in LoopRecord(queued) /\ FitsLoop(f) /\ Counted(f, sent)
    <3>1. tab[t].loops \in Seq(LoopRecord(queued))
      BY <1>2 DEF TabRecord
    <3> QED
      BY <1>2, <2>1, <3>1 DEF Fits, CountedIn
  <2>3. ASSUME f.at = "answer", f.handed PROVE sent'[Head(f.left)] > 0
    <3>1. PICK x \in Operation : x = Head(f.left) /\ sent[x] > 0
      <4>1. f.left \in Seq(queued) /\ f.left # <<>>
        BY <2>2, <2>3 DEF LoopRecord, FitsLoop
      <4>2. Head(f.left) \in queued
        BY <4>1
      <4> QED
        BY <1>0, <2>2, <2>3, <4>2 DEF Counted, OfflineTyped
    <3> QED
      BY <1>2, <1>5, <3>1
  <2> QED
    BY <2>1, <2>3 DEF Counted
<1>7. ASSUME NEW x \in Operation \ {o} PROVE SameWait(tab[t], b, x)
  <2>1. ~Waits(tab[t].loops[l], x) /\ ~Waits(r, x) /\ b.late[x] = tab[t].late[x]
    BY <1>1, <1>3, <1>a, <1>b DEF Waits
  <2>2. ASSUME NEW n \in Nat, Writing(tab[t], x, n) PROVE Writing(b, x, n)
    <3>1. PICK m \in DOMAIN tab[t].loops :
            /\ Waits(tab[t].loops[m], x)
            /\ n + tab[t].late[x] + Open(tab[t].loops[m]) <= tab[t].loops[m].tries
            /\ \A k \in DOMAIN tab[t].loops \ {m} : ~Waits(tab[t].loops[k], x)
      BY <2>2 DEF Writing
    <3>2. m # l
      BY <2>1, <3>1
    <3>3. ASSUME NEW k \in DOMAIN b.loops \ {m} PROVE ~Waits(b.loops[k], x)
      <4>1. CASE k = l
        BY <1>3, <2>1, <4>1
      <4>2. CASE k # l
        <5>1. b.loops[k] = tab[t].loops[k] /\ k \in DOMAIN tab[t].loops \ {m}
          BY <1>3, <3>3, <4>2
        <5> QED
          BY <3>1, <5>1
      <4> QED
        BY <4>1, <4>2
    <3> QED
      BY <1>3, <2>1, <3>1, <3>2, <3>3 DEF Writing
  <2>3. ~AnswersIn(tab[t], x) => ~AnswersIn(b, x)
    BY <1>3, <2>1 DEF AnswersIn
  <2> QED
    BY <1>2, <2>1, <2>2, <2>3 DEF SameWait
<1>8. Turn(t, b)
  BY <1>3, <1>4, <1>b, <1>c DEF Turn
<1>9. PICK O \in SUBSET queued : O = {o}
  BY <1>1
<1>10. queued \subseteq Operation
  BY <1>0 DEF OfflineTyped
<1>11. \A x \in Operation \ O : /\ sent'[x] = sent[x] /\ SameWait(tab[t], b, x)
                                /\ x \in ToSet(stored') <=> x \in ToSet(stored)
  BY <1>7, <1>9, <1>c
<1>12. \A x \in O : x \in ToSet(stored') \/ sent'[x] > 0
  BY <1>9, <1>d
<1>13. ASSUME NEW x \in O \ excused' PROVE Budget(x)'
  <2>1. x = o
    BY <1>9
  <2> QED
    BY <2>1, <1>d, <1>13
<1>14. Budgeted(O)'
  BY <1>13 DEF Budgeted
<1>15. /\ O \in SUBSET queued' /\ queued' \subseteq queued \cup O /\ queued' \subseteq Operation
       /\ stored' \in Seq(queued')
  BY <1>10, <1>c
<1> QED
  BY <1>5, <1>6, <1>8, <1>c, <1>11, <1>12, <1>14, <1>15, TurnKeeps

\* An operation that is stored was neither stored nor dispatched before.
LEMMA EnqueueKeeps ==
  ASSUME OfflineInv, NEW t \in Tab, NEW o \in Operation, Enqueue(t, o)
  PROVE  OfflineInv'
<1>0. OfflineTyped /\ SentInv
  BY DEF OfflineInv
<1>1. /\ queued \subseteq queued' /\ queued' \subseteq queued \cup {o} /\ o \notin queued
      /\ stored' \in Seq(queued') /\ ToSet(stored') = ToSet(stored) \cup (queued' \ queued)
  <2>1. CASE stored' = Append(stored, o) /\ queued' = queued \cup {o}
    <3>1. stored \in Seq(queued') /\ o \in queued'
      BY <1>0, <2>1, SeqGrows DEF OfflineTyped
    <3> QED
      BY <2>1, <3>1, AppendedSet DEF Enqueue
  <2>2. CASE UNCHANGED <<stored, queued>>
    BY <1>0, <2>2 DEF Enqueue, OfflineTyped
  <2> QED
    BY <2>1, <2>2 DEF Enqueue
<1>2. PICK b : b = [tab[t] EXCEPT !.queue = stored']
  OBVIOUS
<1>3. tab[t] \in TabRecord(queued') /\ Fits(tab[t]) /\ CountedIn(tab[t], sent)
  BY <1>0, <1>1, TabGrows DEF OfflineTyped, SentInv
<1>4. b \in TabRecord(queued') /\ b.loops = tab[t].loops /\ b.late = tab[t].late
  BY <1>1, <1>2, <1>3 DEF TabRecord
<1>5. Fits(b) /\ CountedIn(b, sent) /\ \A x \in Operation : SameWait(tab[t], b, x)
  BY <1>3, <1>4, SameLoops
<1>6. Turn(t, b)
  BY <1>1, <1>2, <1>4, <1>5 DEF Enqueue, Refresh, Turn
<1>7. UNCHANGED <<sent, excused>>
  BY DEF Enqueue
<1>8. PICK O \in SUBSET queued' : O = queued' \ queued
  OBVIOUS
<1>9. /\ queued' \subseteq Operation /\ sent' \in [Operation -> Nat] /\ queued' \subseteq queued \cup O
      /\ \A x \in Operation : sent'[x] >= sent[x]
  BY <1>0, <1>1, <1>7, <1>8 DEF OfflineTyped
<1>10. \A x \in O : x \in ToSet(stored') \/ sent'[x] > 0
  BY <1>1, <1>8
<1>11. Budgeted(O)'
  <2> SUFFICES ASSUME NEW x \in O PROVE Budget(x)'
    BY DEF Budgeted
  <2>1. x \in Operation \ queued /\ Untouched(x)
    BY <1>0, <1>8, <1>9 DEF SentInv
  <2>2. tab'[t] = b /\ \A u \in Tab \ {t} : tab'[u] = tab[u]
    BY <1>0, <1>6, TurnType
  <2>3. Calm(b, x)
    BY <1>4, <2>1 DEF Untouched, Calm, AnswersIn
  <2>4. Untouched(x)'
    BY <1>7, <2>1, <2>2, <2>3 DEF Untouched
  <2> QED
    BY <2>4 DEF Budget
<1>12. CountedIn(b, sent') /\ excused \subseteq excused'
  BY <1>5, <1>7
<1>13. ASSUME NEW x \in Operation \ O
       PROVE  /\ sent'[x] = sent[x] /\ SameWait(tab[t], b, x)
              /\ x \in ToSet(stored') <=> x \in ToSet(stored)
  BY <1>1, <1>5, <1>7, <1>8
<1> QED
  BY <1>1, <1>6, <1>9, <1>10, <1>11, <1>12, <1>13, TurnKeeps

\* What stays of a tab's record is put as it is.
LEMMA PutSame ==
  ASSUME OfflineTyped, NEW t \in Tab
  PROVE  /\ [tab[t] EXCEPT !.queue = tab[t].queue] = tab[t]
         /\ [tab[t] EXCEPT !.late = tab[t].late] = tab[t]
<1>1. tab[t] \in TabRecord(queued)
  BY DEF OfflineTyped
<1> QED
  BY <1>1 DEF TabRecord

\* Types of what a step of a loop starts from.
LEMMA TabTypes ==
  ASSUME OfflineTyped, NEW t \in Tab
  PROVE  /\ tab[t] \in TabRecord(queued) /\ Fits(tab[t])
         /\ tab[t].queue \in Seq(queued) /\ tab[t].late \in [Operation -> Nat]
         /\ tab[t].loops \in Seq(LoopRecord(queued))
<1>1. tab[t] \in TabRecord(queued) /\ Fits(tab[t])
  BY DEF OfflineTyped
<1> QED
  BY <1>1 DEF TabRecord

\* After a step of its loop, the operation is underway if the loop's record says so.
LEMMA StillUnderway ==
  ASSUME OfflineTyped, NEW t \in Tab, NEW l \in DOMAIN tab[t].loops, NEW r \in LoopRecord(queued),
         NEW q \in Seq(queued), NEW late \in [Operation -> Nat], NEW b,
         b = LoopPut(tab[t], l, r, q, late), tab' = [tab EXCEPT ![t] = b], NEW o,
         Waits(r, o), sent'[o] + late[o] + Open(r) <= r.tries,
         \A k \in DOMAIN tab[t].loops \ {l} : ~Waits(tab[t].loops[k], o),
         \A u \in Tab \ {t} : Calm(tab[u], o), o \in ToSet(stored')
  PROVE  Budget(o)'
<1>1. /\ b.late = late /\ b.loops[l] = r /\ DOMAIN b.loops = DOMAIN tab[t].loops
      /\ \A k \in DOMAIN tab[t].loops \ {l} : b.loops[k] = tab[t].loops[k]
  BY TabTypes, LoopPutIs
<1>2. tab'[t] = b /\ \A u \in Tab \ {t} : tab'[u] = tab[u]
  BY DEF OfflineTyped
<1>3. \A k \in DOMAIN b.loops \ {l} : ~Waits(b.loops[k], o)
  BY <1>1
<1>4. Writing(b, o, sent'[o])
  BY <1>1, <1>3 DEF Writing
<1>5. Underway(o, t)'
  BY <1>2, <1>4 DEF Underway
<1> QED
  BY <1>5 DEF Budget

\* After its answer, it is waited for by nobody.
PutLoop(t, l, r, q, late, b) ==
  /\ r \in LoopRecord(queued) /\ q \in Seq(queued) /\ late \in [Operation -> Nat]
  /\ b = LoopPut(tab[t], l, r, q, late) /\ tab' = [tab EXCEPT ![t] = b]
OnlyWaiter(t, l, x) ==
  /\ \A k \in DOMAIN tab[t].loops \ {l} : ~Waits(tab[t].loops[k], x)
  /\ \A u \in Tab \ {t} : Calm(tab[u], x)

LEMMA NobodyWaits ==
  ASSUME OfflineTyped, NEW t \in Tab, NEW l \in DOMAIN tab[t].loops, NEW r, NEW q, NEW late, NEW b,
         PutLoop(t, l, r, q, late, b), NEW o, r.at = "send", OnlyWaiter(t, l, o)
  PROVE  /\ tab'[t] = b /\ b.late = late /\ ~AnswersIn(tab'[t], o)
         /\ \A u \in Tab \ {t} : Calm(tab'[u], o)
<1>1. /\ b.late = late /\ b.loops[l] = r /\ DOMAIN b.loops = DOMAIN tab[t].loops
      /\ \A k \in DOMAIN tab[t].loops \ {l} : b.loops[k] = tab[t].loops[k]
  BY TabTypes, LoopPutIs DEF PutLoop
<1>2. tab'[t] = b /\ \A u \in Tab \ {t} : tab'[u] = tab[u]
  BY DEF PutLoop, OfflineTyped
<1>3. ~Waits(r, o)
  BY DEF Waits
<1>4. \A k \in DOMAIN b.loops : ~Waits(b.loops[k], o)
  BY <1>1, <1>3 DEF OnlyWaiter
<1> QED
  BY <1>1, <1>2, <1>4 DEF OnlyWaiter, AnswersIn

\* An operation that is not excused was not dispatched before.
LEMMA DispatchKeeps ==
  ASSUME OfflineInv, NEW t \in Tab, NEW l \in DOMAIN tab[t].loops, Dispatch(t, l)
  PROVE  OfflineInv'
<1>0. OfflineTyped /\ SentInv
  BY DEF OfflineInv
<1>1. PICK o : o = Current(t, l)
  OBVIOUS
<1>2. tab[t].loops[l].at = "send" /\ tab[t].loops[l].left # <<>>
  BY DEF Dispatch
<1>3. /\ tab[t].loops[l] \in LoopRecord(queued) /\ o \in queued /\ o \in Operation
      /\ o = Head(tab[t].loops[l].left)
  BY <1>0, <1>1, <1>2, CurrentIs DEF OfflineTyped
<1>4. PICK r : r = [tab[t].loops[l] EXCEPT !.at = "answer", !.tries = 1, !.handed = FALSE]
  OBVIOUS
<1>5. /\ r \in LoopRecord(queued) /\ r.at = "answer" /\ r.left = tab[t].loops[l].left
      /\ r.tries = 1 /\ ~r.handed /\ FitsLoop(r)
  <2>1. PICK c \in LoopRecord(queued) : c = tab[t].loops[l]
    BY <1>3
  <2>2. 1 \in 0..DispatchAttempts /\ 1 \in 1..DispatchAttempts
    BY OfflineAssumption
  <2>3. /\ r \in LoopRecord(queued) /\ r.at = "answer" /\ r.left = c.left
        /\ r.tries = 1 /\ r.handed = FALSE
    BY <1>4, <2>1, <2>2 DEF LoopRecord
  <2> QED
    BY <1>2, <2>1, <2>2, <2>3 DEF FitsLoop
<1>6. PICK q \in Seq(queued), late \in [Operation -> Nat] : q = tab[t].queue /\ late = tab[t].late
  BY <1>0, TabTypes
<1>7. PICK b : b = LoopPut(tab[t], l, r, q, late)
  OBVIOUS
<1>8. tab' = [tab EXCEPT ![t] = b]
  <2>1. [[tab[t] EXCEPT !.queue = q] EXCEPT !.late = late] = tab[t]
    BY <1>0, <1>6, PutSame
  <2>2. b = [tab[t] EXCEPT !.loops = [tab[t].loops EXCEPT ![l] = r]]
    BY <1>7, <2>1 DEF LoopPut
  <2> QED
    BY <1>4, <2>2 DEF Dispatch, SetLoop
<1>9. UNCHANGED <<stored, sent, queued>> /\ stored \in Seq(queued) /\ sent \in [Operation -> Nat]
  BY <1>0 DEF Dispatch, OfflineTyped
<1>10. /\ excused \subseteq excused'
       /\ o \notin excused' => o \notin excused /\ o \in ToSet(stored) /\ ~BeingSent(o)
  BY <1>1 DEF Dispatch
<1>11. ASSUME o \notin excused' PROVE Budget(o)'
  <2>1. Budget(o) /\ o \in ToSet(stored) /\ \A u \in Tab : ~AnswersIn(tab[u], o)
    BY <1>0, <1>3, <1>10, <1>11, BeingSentIs DEF SentInv
  <2>2. Untouched(o)
    <3>1. ASSUME NEW u \in Tab, Underway(o, u) PROVE FALSE
      BY <2>1, <3>1 DEF Underway, Writing, AnswersIn
    <3>2. ASSUME NEW u \in Tab, Finished(o, u) PROVE FALSE
      BY <2>1, <3>2 DEF Finished
    <3> QED
      BY <2>1, <3>1, <3>2 DEF Budget
  <2>3. sent[o] = 0 /\ late[o] = 0 /\ \A u \in Tab \ {t} : Calm(tab[u], o)
    BY <1>6, <2>2 DEF Untouched, Calm
  <2>4. \A k \in DOMAIN tab[t].loops \ {l} : ~Waits(tab[t].loops[k], o)
    BY <2>1 DEF AnswersIn
  <2>5. Waits(r, o) /\ sent'[o] + late[o] + Open(r) <= r.tries
    BY <1>3, <1>5, <1>9, <2>3 DEF Waits, Open
  <2>6. o \in ToSet(stored')
    BY <1>9, <2>1
  <2> QED
    BY <1>0, <1>5, <1>7, <1>8, <2>3, <2>4, <2>5, <2>6, StillUnderway
<1>12. \A x : Waits(r, x) => x = o
  BY <1>3, <1>5 DEF Waits
<1>13. o \in ToSet(stored') \/ sent'[o] > 0
  BY <1>0, <1>3, <1>9 DEF SentInv
<1>14. Counted(r, sent')
  BY <1>5 DEF Counted
<1>15. \A x \in Operation : sent[x] >= sent[x]
  BY <1>9
<1>20. LoopStep(t, l, o, r, q, late, b)
  BY <1>1, <1>2, <1>3, <1>5, <1>6, <1>7, <1>8, <1>9, <1>10, <1>11, <1>12, <1>13, <1>14, <1>15 DEF LoopStep
<1> QED
  BY <1>20, LoopTurn

\* A loop that awaits an answer, and the operation it is about.
LEMMA WaitingIs ==
  ASSUME OfflineInv, NEW t \in Tab, NEW l \in DOMAIN tab[t].loops, tab[t].loops[l].at = "answer",
         NEW o, o = Current(t, l)
  PROVE  /\ tab[t].loops[l] \in LoopRecord(queued) /\ tab[t].loops[l].left # <<>>
         /\ tab[t].loops[l].tries \in 1..DispatchAttempts
         /\ o \in queued /\ o \in Operation /\ o = Head(tab[t].loops[l].left)
         /\ Waits(tab[t].loops[l], o)
         /\ Tail(tab[t].loops[l].left) \in Seq(queued)
         /\ tab[t].loops[l].handed => sent[o] > 0
         /\ o \in ToSet(stored) \/ sent[o] > 0
<1>0. OfflineTyped /\ SentInv
  BY DEF OfflineInv
<1>1. /\ tab[t].loops[l] \in LoopRecord(queued) /\ FitsLoop(tab[t].loops[l])
      /\ Counted(tab[t].loops[l], sent)
  BY <1>0, TabTypes DEF Fits, SentInv, CountedIn
<1>2. tab[t].loops[l].left # <<>> /\ tab[t].loops[l].tries \in 1..DispatchAttempts
  BY <1>1 DEF FitsLoop
<1>3. o \in queued /\ o = Head(tab[t].loops[l].left) /\ Tail(tab[t].loops[l].left) \in Seq(queued)
  BY <1>0, <1>2, CurrentIs
<1> QED
  BY <1>0, <1>1, <1>2, <1>3 DEF Waits, Counted, OfflineTyped, SentInv

\* One transaction more is one attempt less that may still hand one over.
LEMMA HandOverKeeps ==
  ASSUME OfflineInv, NEW t \in Tab, NEW l \in DOMAIN tab[t].loops, HandOver(t, l)
  PROVE  OfflineInv'
<1>0. OfflineTyped /\ SentInv
  BY DEF OfflineInv
<1>1. PICK o : o = Current(t, l)
  OBVIOUS
<1>2. tab[t].loops[l].at = "answer" /\ ~tab[t].loops[l].handed
  BY DEF HandOver
<1>3. /\ tab[t].loops[l] \in LoopRecord(queued) /\ tab[t].loops[l].left # <<>>
      /\ tab[t].loops[l].tries \in 1..DispatchAttempts
      /\ o \in queued /\ o \in Operation /\ o = Head(tab[t].loops[l].left)
      /\ Waits(tab[t].loops[l], o)
  BY <1>1, <1>2, WaitingIs
<1>4. PICK r : r = [tab[t].loops[l] EXCEPT !.handed = TRUE]
  OBVIOUS
<1>5. /\ r \in LoopRecord(queued) /\ r.at = "answer" /\ r.left = tab[t].loops[l].left
      /\ r.tries = tab[t].loops[l].tries /\ r.handed /\ FitsLoop(r)
  <2>1. PICK c \in LoopRecord(queued) : c = tab[t].loops[l]
    BY <1>3
  <2>2. /\ r \in LoopRecord(queued) /\ r.at = c.at /\ r.left = c.left /\ r.tries = c.tries
        /\ r.handed = TRUE
    BY <1>4, <2>1 DEF LoopRecord
  <2> QED
    BY <1>2, <1>3, <2>1, <2>2 DEF FitsLoop
<1>6. PICK q \in Seq(queued), late \in [Operation -> Nat] : q = tab[t].queue /\ late = tab[t].late
  BY <1>0, TabTypes
<1>7. PICK b : b = LoopPut(tab[t], l, r, q, late)
  OBVIOUS
<1>8. tab' = [tab EXCEPT ![t] = b]
  <2>1. [[tab[t] EXCEPT !.queue = q] EXCEPT !.late = late] = tab[t]
    BY <1>0, <1>6, PutSame
  <2>2. b = [tab[t] EXCEPT !.loops = [tab[t].loops EXCEPT ![l] = r]]
    BY <1>7, <2>1 DEF LoopPut
  <2> QED
    BY <1>4, <2>2 DEF HandOver, SetLoop
<1>9. UNCHANGED <<stored, queued, excused>> /\ stored \in Seq(queued)
  BY <1>0 DEF HandOver, Send, OfflineTyped
<1>10. /\ sent' \in [Operation -> Nat] /\ sent[o] \in Nat /\ sent'[o] = sent[o] + 1
       /\ \A x \in Operation \ {o} : sent'[x] = sent[x]
  <2>1. sent \in [Operation -> Nat] /\ o \in Operation
    BY <1>0, <1>3 DEF OfflineTyped
  <2>2. sent' = [sent EXCEPT ![o] = sent[o] + 1]
    BY <1>1 DEF HandOver, Send
  <2>3. sent[o] \in Nat /\ sent[o] + 1 \in Nat
    BY <2>1
  <2> QED
    BY <2>1, <2>2, <2>3
<1>11. ASSUME o \notin excused' PROVE Budget(o)'
  <2>1. o \in Operation \ excused
    BY <1>3, <1>9, <1>11
  <2>2. /\ o \in ToSet(stored)
        /\ sent[o] + tab[t].late[o] + Open(tab[t].loops[l]) <= tab[t].loops[l].tries
        /\ \A k \in DOMAIN tab[t].loops \ {l} : ~Waits(tab[t].loops[k], o)
        /\ \A u \in Tab \ {t} : Calm(tab[u], o)
    BY <1>3, <2>1, CurrentBudget
  <2>3. late[o] \in Nat /\ late[o] = tab[t].late[o]
    BY <1>3, <1>6
  <2>4. Open(tab[t].loops[l]) = 1 /\ Open(r) = 0
    BY <1>2, <1>5 DEF Open
  <2>5. sent'[o] + late[o] + Open(r) <= r.tries
    <3>1. PICK n \in Nat : n = tab[t].loops[l].tries
      BY <1>3, OfflineAssumption
    <3> QED
      BY <1>5, <1>10, <2>2, <2>3, <2>4, <3>1
  <2>6. Waits(r, o)
    BY <1>3, <1>5 DEF Waits
  <2>7. o \in ToSet(stored')
    BY <1>9, <2>2
  <2> QED
    BY <1>0, <1>5, <1>7, <1>8, <2>2, <2>5, <2>6, <2>7, StillUnderway
<1>12. \A x : Waits(r, x) => x = o
  BY <1>3, <1>5 DEF Waits
<1>13. sent'[o] > 0 /\ sent'[o] >= sent[o]
  BY <1>10
<1>14. Counted(r, sent')
  BY <1>3, <1>5, <1>13 DEF Counted
<1>20. LoopStep(t, l, o, r, q, late, b)
  BY <1>1, <1>3, <1>5, <1>6, <1>7, <1>8, <1>9, <1>10, <1>11, <1>12, <1>13, <1>14 DEF LoopStep
<1> QED
  BY <1>20, LoopTurn

\* The attempt that ends may run on, if it had not handed its transaction over.
LEMMA AttemptEndsIs ==
  ASSUME OfflineTyped, NEW t \in Tab, NEW l \in DOMAIN tab[t].loops, NEW o \in Operation,
         o = Current(t, l), NEW lt \in AttemptEnds(t, l)
  PROVE  /\ lt \in [Operation -> Nat] /\ \A x \in Operation \ {o} : lt[x] = tab[t].late[x]
         /\ tab[t].late[o] \in Nat
         /\ lt[o] = tab[t].late[o] \/ (~tab[t].loops[l].handed /\ lt[o] = tab[t].late[o] + 1)
<1>1. PICK old \in [Operation -> Nat] : old = tab[t].late
  BY TabTypes
<1>2. lt = old \/ (~tab[t].loops[l].handed /\ lt = [old EXCEPT ![o] = old[o] + 1])
  BY <1>1 DEF AttemptEnds
<1>3. old[o] \in Nat
  OBVIOUS
<1>4. CASE lt = old
  BY <1>1, <1>3, <1>4
<1>5. CASE ~tab[t].loops[l].handed /\ lt = [old EXCEPT ![o] = old[o] + 1]
  <2>1. PICK n \in Nat : n = old[o] + 1
    BY <1>3
  <2>2. lt = [old EXCEPT ![o] = n]
    BY <1>5, <2>1
  <2>3. lt \in [Operation -> Nat] /\ lt[o] = n /\ \A x \in Operation \ {o} : lt[x] = old[x]
    BY <2>2
  <2> QED
    BY <1>1, <1>3, <1>5, <2>1, <2>3
<1> QED
  BY <1>2, <1>4, <1>5

\* The next attempt begins; the one before it may run on.
LEMMA RetryKeeps ==
  ASSUME OfflineInv, NEW t \in Tab, NEW l \in DOMAIN tab[t].loops, RetryDispatch(t, l)
  PROVE  OfflineInv'
<1>0. OfflineTyped /\ SentInv
  BY DEF OfflineInv
<1>1. PICK o : o = Current(t, l)
  OBVIOUS
<1>2. tab[t].loops[l].at = "answer" /\ tab[t].loops[l].tries < DispatchAttempts
  BY DEF RetryDispatch
<1>3. /\ tab[t].loops[l] \in LoopRecord(queued) /\ tab[t].loops[l].left # <<>>
      /\ tab[t].loops[l].tries \in 1..DispatchAttempts
      /\ o \in queued /\ o \in Operation /\ o = Head(tab[t].loops[l].left)
      /\ Waits(tab[t].loops[l], o) /\ (o \in ToSet(stored) \/ sent[o] > 0)
  BY <1>1, <1>2, WaitingIs
<1>4. PICK r : r = [tab[t].loops[l] EXCEPT !.tries = tab[t].loops[l].tries + 1, !.handed = FALSE]
  OBVIOUS
<1>5. /\ r \in LoopRecord(queued) /\ r.at = "answer" /\ r.left = tab[t].loops[l].left
      /\ r.tries = tab[t].loops[l].tries + 1 /\ ~r.handed /\ FitsLoop(r)
  <2>1. PICK c \in LoopRecord(queued) : c = tab[t].loops[l]
    BY <1>3
  <2>2. PICK n : n = c.tries + 1 /\ n \in 0..DispatchAttempts /\ n \in 1..DispatchAttempts
    BY <1>2, <1>3, <2>1, OfflineAssumption
  <2>3. /\ r \in LoopRecord(queued) /\ r.at = c.at /\ r.left = c.left /\ r.tries = n
        /\ r.handed = FALSE
    BY <1>4, <2>1, <2>2 DEF LoopRecord
  <2> QED
    BY <1>2, <1>3, <2>1, <2>2, <2>3 DEF FitsLoop
<1>a. PICK lt : /\ lt \in AttemptEnds(t, l)
                /\ tab' = [tab EXCEPT ![t] = [tab[t] EXCEPT !.late = lt, !.loops[l] = r]]
  BY <1>4 DEF RetryDispatch
<1>b. /\ lt \in [Operation -> Nat] /\ \A x \in Operation \ {o} : lt[x] = tab[t].late[x]
      /\ tab[t].late[o] \in Nat
      /\ lt[o] = tab[t].late[o] \/ (~tab[t].loops[l].handed /\ lt[o] = tab[t].late[o] + 1)
  <2>1. OfflineTyped /\ o \in Operation /\ o = Current(t, l) /\ lt \in AttemptEnds(t, l)
    BY <1>0, <1>1, <1>3, <1>a
  <2> QED
    BY <2>1, AttemptEndsIs
<1>6. PICK q \in Seq(queued), late \in [Operation -> Nat] : q = tab[t].queue /\ late = lt
  BY <1>0, <1>b, TabTypes
<1>7. PICK b : b = LoopPut(tab[t], l, r, q, late)
  OBVIOUS
<1>8. tab' = [tab EXCEPT ![t] = b]
  <2>1. [tab[t] EXCEPT !.queue = q] = tab[t]
    BY <1>0, <1>6, PutSame
  <2>2. b = [[tab[t] EXCEPT !.late = late] EXCEPT !.loops = [tab[t].loops EXCEPT ![l] = r]]
    BY <1>7, <2>1 DEF LoopPut
  <2>3. tab[t] \in TabRecord(queued)
    BY <1>0, TabTypes
  <2> QED
    BY <1>a, <1>6, <2>2, <2>3 DEF TabRecord
<1>9. UNCHANGED <<stored, sent, queued, excused>> /\ stored \in Seq(queued) /\ sent \in [Operation -> Nat]
  BY <1>0 DEF RetryDispatch, OfflineTyped
<1>11. ASSUME o \notin excused' PROVE Budget(o)'
  <2>1. o \in Operation \ excused
    BY <1>3, <1>9, <1>11
  <2>2. /\ o \in ToSet(stored)
        /\ sent[o] + tab[t].late[o] + Open(tab[t].loops[l]) <= tab[t].loops[l].tries
        /\ \A k \in DOMAIN tab[t].loops \ {l} : ~Waits(tab[t].loops[k], o)
        /\ \A u \in Tab \ {t} : Calm(tab[u], o)
    BY <1>3, <2>1, CurrentBudget
  <2>3. sent[o] \in Nat /\ Open(tab[t].loops[l]) \in {0, 1} /\ Open(r) = 1
    BY <1>3, <1>5, <1>9 DEF Open
  <2>4. sent'[o] + late[o] + Open(r) <= r.tries
    <3>1. PICK n \in Nat : n = tab[t].loops[l].tries
      BY <1>3, OfflineAssumption
    <3>2. PICK m \in Nat : m = tab[t].late[o]
      BY <1>b
    <3>3. PICK k \in Nat : k = sent[o]
      BY <2>3
    <3>4. sent'[o] = k
      BY <1>9, <3>3
    <3>5. CASE late[o] = m
      <4>1. k + m <= n
        <5>1. PICK i \in {0, 1} : i = Open(tab[t].loops[l])
          BY <2>3
        <5>2. k + m + i <= n
          BY <2>2, <3>1, <3>2, <3>3, <5>1
        <5> QED
          BY <5>1, <5>2
      <4> QED
        BY <1>5, <2>3, <3>1, <3>4, <3>5, <4>1
    <3>6. CASE ~tab[t].loops[l].handed /\ late[o] = m + 1
      <4>1. k + m + 1 <= n
        BY <2>2, <3>1, <3>2, <3>3, <3>6 DEF Open
      <4> QED
        BY <1>5, <2>3, <3>1, <3>4, <3>6, <4>1
    <3> QED
      BY <1>b, <1>6, <3>2, <3>5, <3>6
  <2>5. Waits(r, o)
    BY <1>3, <1>5 DEF Waits
  <2>6. o \in ToSet(stored')
    BY <1>9, <2>2
  <2> QED
    BY <1>0, <1>5, <1>7, <1>8, <1>b, <2>2, <2>4, <2>5, <2>6, StillUnderway
<1>12. \A x : Waits(r, x) => x = o
  BY <1>3, <1>5 DEF Waits
<1>13. o \in ToSet(stored') \/ sent'[o] > 0
  BY <1>3, <1>9
<1>14. Counted(r, sent')
  BY <1>5 DEF Counted
<1>15. sent' \in [Operation -> Nat] /\ sent'[o] >= sent[o] /\ excused \subseteq excused'
  BY <1>3, <1>9
<1>16. late \in [Operation -> Nat] /\ \A x \in Operation \ {o} : late[x] = tab[t].late[x]
  BY <1>b, <1>6
<1>17. /\ UNCHANGED queued /\ stored' \in Seq(queued)
       /\ \A x \in Operation \ {o} : sent'[x] = sent[x] /\ (x \in ToSet(stored') <=> x \in ToSet(stored))
  BY <1>9
<1>18. tab[t].loops[l].left # <<>>
  BY <1>3
<1>19. r \in LoopRecord(queued) /\ FitsLoop(r)
  BY <1>5
<1>20. LoopStep(t, l, o, r, q, late, b)
  BY <1>1, <1>6, <1>7, <1>8, <1>11, <1>12, <1>13, <1>14, <1>15, <1>16, <1>17, <1>18, <1>19 DEF LoopStep
<1> QED
  BY <1>20, LoopTurn

\* An attempt that ran on hands its transaction over, too.
LEMMA LateHandOverKeeps ==
  ASSUME OfflineInv, NEW t \in Tab, NEW o \in Operation, LateHandOver(t, o)
  PROVE  OfflineInv'
<1>0. OfflineTyped /\ SentInv
  BY DEF OfflineInv
<1>1. PICK old \in [Operation -> Nat] : old = tab[t].late
  BY <1>0, TabTypes
<1>2. PICK m \in Nat : old[o] = m + 1
  <2>1. old[o] \in Nat /\ old[o] > 0
    BY <1>1 DEF LateHandOver
  <2> QED
    BY <2>1
<1>3. PICK late : late = [old EXCEPT ![o] = m]
  OBVIOUS
<1>4. /\ late \in [Operation -> Nat] /\ late[o] = m
      /\ \A x \in Operation \ {o} : late[x] = old[x]
  BY <1>3
<1>5. PICK b : b = [tab[t] EXCEPT !.late = late]
  OBVIOUS
<1>6. b \in TabRecord(queued) /\ b.loops = tab[t].loops /\ b.late = late
  BY <1>0, <1>4, <1>5, TabTypes DEF TabRecord
<1>7. tab' = [tab EXCEPT ![t] = b]
  <2>1. old[o] - 1 = m
    BY <1>2
  <2>2. late = [tab[t].late EXCEPT ![o] = tab[t].late[o] - 1]
    BY <1>1, <1>3, <2>1
  <2> QED
    BY <1>5, <2>2 DEF LateHandOver
<1>8. UNCHANGED <<stored, queued, excused>> /\ stored \in Seq(queued)
  BY <1>0 DEF LateHandOver, Send, OfflineTyped
<1>9. /\ sent \in [Operation -> Nat] /\ sent' \in [Operation -> Nat] /\ sent'[o] = sent[o] + 1
      /\ \A x \in Operation \ {o} : sent'[x] = sent[x]
  BY <1>0 DEF LateHandOver, Send, OfflineTyped
<1>10. \A x \in Operation : sent'[x] >= sent[x]
  BY <1>9
<1>11. Fits(b)
  BY <1>0, <1>6, TabTypes DEF Fits
<1>12. CountedIn(b, sent')
  <2>1. CountedIn(tab[t], sent) /\ queued \in SUBSET Operation
    BY <1>0 DEF OfflineTyped, SentInv
  <2>2. CountedIn(b, sent)
    BY <1>6, <2>1 DEF CountedIn
  <2> QED
    BY <1>6, <1>9, <1>10, <1>11, <2>1, <2>2, CountedGrows
<1>13. Turn(t, b)
  BY <1>6, <1>7, <1>8, <1>11 DEF Turn
<1>14. tab'[t] = b /\ \A u \in Tab \ {t} : tab'[u] = tab[u]
  BY <1>0, <1>13, TurnType
<1>15. ~Calm(tab[t], o)
  BY <1>1, <1>2 DEF Calm
<1>16. o \in queued
  BY <1>0, <1>15 DEF SentInv, Untouched
<1>17. PICK O \in SUBSET queued : O = {o}
  BY <1>16
<1>18. ASSUME NEW x \in Operation \ {o} PROVE SameWait(tab[t], b, x)
  <2>1. tab[t].late[x] = b.late[x] /\ b.late[x] \in Nat
    BY <1>1, <1>4, <1>6
  <2> QED
    BY <1>6, <2>1 DEF SameWait, Writing, AnswersIn
<1>19. ASSUME o \notin excused PROVE Budget(o)'
  <2>1. PICK u \in Tab : Underway(o, u) \/ Finished(o, u)
    BY <1>0, <1>15, <1>19 DEF SentInv, Budget, Untouched
  <2>2. u = t
    BY <1>15, <2>1 DEF Underway, Finished
  <2>3. \A v \in Tab \ {t} : Calm(tab'[v], o)
    BY <1>14, <2>1, <2>2 DEF Underway, Finished
  <2>4. sent[o] \in Nat /\ tab[t].late[o] = m + 1
    BY <1>1, <1>2, <1>9
  <2>5. CASE Underway(o, t)
    <3>1. PICK l \in DOMAIN tab[t].loops :
            /\ Waits(tab[t].loops[l], o)
            /\ sent[o] + tab[t].late[o] + Open(tab[t].loops[l]) <= tab[t].loops[l].tries
            /\ \A k \in DOMAIN tab[t].loops \ {l} : ~Waits(tab[t].loops[k], o)
      BY <2>5 DEF Underway, Writing
    <3>2. sent'[o] + b.late[o] + Open(b.loops[l]) <= b.loops[l].tries
      <4>1. PICK n : n = Open(tab[t].loops[l])
        OBVIOUS
      <4>2. n \in {0, 1} /\ n = Open(b.loops[l])
        BY <1>6, <4>1 DEF Open
      <4>3. PICK k \in Nat : k = tab[t].loops[l].tries
        BY <1>0, <3>1, WaitingIs, OfflineAssumption DEF Waits, OfflineInv
      <4> QED
        BY <1>4, <1>6, <1>9, <2>4, <3>1, <4>1, <4>2, <4>3
    <3>3. Writing(b, o, sent'[o])
      BY <1>6, <3>1, <3>2 DEF Writing
    <3>4. o \in ToSet(stored')
      BY <1>8, <2>5 DEF Underway
    <3> QED
      BY <1>14, <2>3, <3>3, <3>4 DEF Underway, Budget
  <2>6. CASE Finished(o, t)
    <3>1. sent'[o] + b.late[o] <= DispatchAttempts
      BY <1>4, <1>6, <1>9, <2>4, <2>6, OfflineAssumption DEF Finished
    <3>2. o \notin ToSet(stored') /\ ~AnswersIn(b, o)
      BY <1>6, <1>8, <2>6 DEF Finished, AnswersIn
    <3> QED
      BY <1>14, <2>3, <3>1, <3>2 DEF Finished, Budget
  <2> QED
    BY <2>1, <2>2, <2>5, <2>6
<1>20. Budgeted(O)'
  <2> SUFFICES ASSUME NEW x \in O \ excused' PROVE Budget(x)'
    BY DEF Budgeted
  <2>1. x = o /\ o \notin excused
    BY <1>8, <1>17
  <2> QED
    BY <1>19, <2>1
<1>21. \A x \in Operation \ O : /\ sent'[x] = sent[x] /\ SameWait(tab[t], b, x)
                                /\ x \in ToSet(stored') <=> x \in ToSet(stored)
  BY <1>8, <1>9, <1>17, <1>18
<1>22. \A x \in O : x \in ToSet(stored') \/ sent'[x] > 0
  BY <1>9, <1>17
<1>23. /\ O \in SUBSET queued' /\ queued' \subseteq queued \cup O /\ queued' \subseteq Operation
       /\ stored' \in Seq(queued') /\ excused \subseteq excused'
  BY <1>0, <1>8 DEF OfflineTyped
<1> QED
  BY <1>9, <1>10, <1>12, <1>13, <1>20, <1>21, <1>22, <1>23, TurnKeeps

\* An answer leaves no more transactions than the dispatch had attempts.
LEMMA AnswerOkKeeps ==
  ASSUME OfflineInv, NEW t \in Tab, NEW l \in DOMAIN tab[t].loops, AnswerOk(t, l)
  PROVE  OfflineInv'
<1>0. OfflineTyped /\ SentInv
  BY DEF OfflineInv
<1>1. PICK o : o = Current(t, l)
  OBVIOUS
<1>2. tab[t].loops[l].at = "answer" /\ tab[t].loops[l].handed
  BY DEF AnswerOk
<1>3. /\ tab[t].loops[l] \in LoopRecord(queued) /\ tab[t].loops[l].left # <<>>
      /\ tab[t].loops[l].tries \in 1..DispatchAttempts
      /\ o \in queued /\ o \in Operation /\ o = Head(tab[t].loops[l].left)
      /\ Waits(tab[t].loops[l], o) /\ sent[o] > 0
      /\ Tail(tab[t].loops[l].left) \in Seq(queued)
  BY <1>1, <1>2, WaitingIs
<1>4. PICK r : r = [tab[t].loops[l] EXCEPT !.at = "send", !.left = Tail(tab[t].loops[l].left)]
  OBVIOUS
<1>5. r \in LoopRecord(queued) /\ r.at = "send"
  <2>1. PICK c \in LoopRecord(queued) : c = tab[t].loops[l]
    BY <1>3
  <2>2. PICK left \in Seq(queued) : left = Tail(tab[t].loops[l].left)
    BY <1>3
  <2>3. r = [c EXCEPT !.at = "send", !.left = left]
    BY <1>4, <2>1, <2>2
  <2> QED
    BY <2>3 DEF LoopRecord
<1>6. FitsLoop(r) /\ Counted(r, sent') /\ \A x : ~Waits(r, x)
  BY <1>5 DEF FitsLoop, Counted, Waits
<1>7. PICK q : q = Without(stored, o)
  OBVIOUS
<1>8. /\ stored' = q /\ UNCHANGED <<sent, queued, excused>> /\ sent \in [Operation -> Nat]
      /\ q \in Seq(queued) /\ ToSet(q) = ToSet(stored) \ {o}
  BY <1>0, <1>1, <1>7, WithoutIs DEF AnswerOk, Dequeue, OfflineTyped
<1>9. PICK late \in [Operation -> Nat] : late = tab[t].late
  BY <1>0, TabTypes
<1>10. PICK b : b = LoopPut(tab[t], l, r, q, late)
  OBVIOUS
<1>11. tab' = [tab EXCEPT ![t] = b]
  <2>1. PICK c \in TabRecord(queued) : c = tab[t]
    BY <1>0, TabTypes
  <2>2. b = [c EXCEPT !.queue = q, !.loops = [c.loops EXCEPT ![l] = r]]
    BY <1>9, <1>10, <2>1 DEF LoopPut, TabRecord
  <2>3. [c EXCEPT !.queue = q, !.loops[l] = r] = [c EXCEPT !.queue = q, !.loops = [c.loops EXCEPT ![l] = r]]
    BY <2>1 DEF TabRecord
  <2> QED
    BY <1>4, <1>8, <2>1, <2>2, <2>3 DEF AnswerOk
<1>12. ASSUME o \notin excused' PROVE Budget(o)'
  <2>1. o \in Operation \ excused
    BY <1>3, <1>8, <1>12
  <2>2. /\ sent[o] + tab[t].late[o] + Open(tab[t].loops[l]) <= tab[t].loops[l].tries
        /\ \A k \in DOMAIN tab[t].loops \ {l} : ~Waits(tab[t].loops[k], o)
        /\ \A u \in Tab \ {t} : Calm(tab[u], o)
    BY <1>3, <2>1, CurrentBudget
  <2>a. OnlyWaiter(t, l, o) /\ PutLoop(t, l, r, q, late, b)
    BY <1>5, <1>8, <1>9, <1>10, <1>11, <2>2 DEF OnlyWaiter, PutLoop
  <2>3. /\ tab'[t] = b /\ b.late = late /\ ~AnswersIn(tab'[t], o)
        /\ \A u \in Tab \ {t} : Calm(tab'[u], o)
    BY <1>0, <1>5, <2>a, NobodyWaits
  <2>4. sent[o] + late[o] <= DispatchAttempts
    <3>1. PICK n \in Nat : n = tab[t].loops[l].tries /\ n <= DispatchAttempts
      BY <1>3, OfflineAssumption
    <3>2. Open(tab[t].loops[l]) = 0 /\ sent[o] \in Nat /\ late[o] \in Nat
      BY <1>2, <1>3, <1>8 DEF Open
    <3> QED
      BY <1>9, <2>2, <3>1, <3>2, OfflineAssumption
  <2>5. o \notin ToSet(stored') /\ sent'[o] + tab'[t].late[o] <= DispatchAttempts
    BY <1>8, <2>3, <2>4
  <2>6. Finished(o, t)'
    BY <2>3, <2>5 DEF Finished
  <2> QED
    BY <2>6 DEF Budget
<1>13. /\ \A x \in Operation \ {o} : late[x] = tab[t].late[x]
       /\ UNCHANGED queued /\ stored' \in Seq(queued') /\ sent' \in [Operation -> Nat]
       /\ \A x \in Operation \ {o} : sent'[x] = sent[x] /\ (x \in ToSet(stored') <=> x \in ToSet(stored))
  BY <1>8, <1>9
<1>14. sent'[o] >= sent[o] /\ excused \subseteq excused' /\ sent'[o] > 0
  BY <1>3, <1>8
<1>20. LoopStep(t, l, o, r, q, late, b)
  BY <1>1, <1>3, <1>5, <1>6, <1>8, <1>9, <1>10, <1>11, <1>12, <1>13, <1>14 DEF LoopStep
<1> QED
  BY <1>20, LoopTurn

\* After an answer of failure, an operation that is not excused is untouched.
LEMMA AnswerErrorKeeps ==
  ASSUME OfflineInv, NEW t \in Tab, NEW l \in DOMAIN tab[t].loops, AnswerError(t, l)
  PROVE  OfflineInv'
<1>0. OfflineTyped /\ SentInv
  BY DEF OfflineInv
<1>1. PICK o : o = Current(t, l)
  OBVIOUS
<1>2. tab[t].loops[l].at = "answer"
  BY DEF AnswerError
<1>3. /\ tab[t].loops[l] \in LoopRecord(queued) /\ tab[t].loops[l].left # <<>>
      /\ o \in queued /\ o \in Operation /\ o = Head(tab[t].loops[l].left)
      /\ Waits(tab[t].loops[l], o) /\ (o \in ToSet(stored) \/ sent[o] > 0)
      /\ Tail(tab[t].loops[l].left) \in Seq(queued)
  BY <1>1, <1>2, WaitingIs
<1>4. PICK r : r = [tab[t].loops[l] EXCEPT !.at = "send", !.left = Tail(tab[t].loops[l].left), !.conflict = TRUE]
  OBVIOUS
<1>5. r \in LoopRecord(queued) /\ r.at = "send"
  <2>1. PICK c \in LoopRecord(queued) : c = tab[t].loops[l]
    BY <1>3
  <2>2. PICK left \in Seq(queued) : left = Tail(tab[t].loops[l].left)
    BY <1>3
  <2>3. r = [c EXCEPT !.at = "send", !.left = left, !.conflict = TRUE]
    BY <1>4, <2>1, <2>2
  <2> QED
    BY <2>3 DEF LoopRecord
<1>6. FitsLoop(r) /\ Counted(r, sent') /\ \A x : ~Waits(r, x)
  BY <1>5 DEF FitsLoop, Counted, Waits
<1>7. PICK lt : /\ lt \in AttemptEnds(t, l)
                /\ tab' = [tab EXCEPT ![t] = [tab[t] EXCEPT !.late = lt, !.loops[l] = r]]
                /\ excused' = IF sent[o] > 0 \/ lt[o] > 0 THEN excused \cup {o} ELSE excused
  BY <1>1, <1>4 DEF AnswerError
<1>b. lt \in [Operation -> Nat] /\ \A x \in Operation \ {o} : lt[x] = tab[t].late[x]
  <2>1. lt \in AttemptEnds(t, l)
    BY <1>7
  <2>2. OfflineTyped /\ o \in Operation /\ o = Current(t, l)
    BY <1>0, <1>1, <1>3
  <2>3. /\ lt \in [Operation -> Nat] /\ \A x \in Operation \ {o} : lt[x] = tab[t].late[x]
        /\ lt[o] = tab[t].late[o] \/ (~tab[t].loops[l].handed /\ lt[o] = tab[t].late[o] + 1)
    BY <2>1, <2>2, AttemptEndsIs
  <2> QED
    BY <2>3
<1>8. PICK q \in Seq(queued), late \in [Operation -> Nat] : q = tab[t].queue /\ late = lt
  BY <1>0, <1>b, TabTypes
<1>9. \A x \in Operation \ {o} : late[x] = tab[t].late[x]
  BY <1>b, <1>8
<1>10. PICK b : b = LoopPut(tab[t], l, r, q, late)
  OBVIOUS
<1>11. tab' = [tab EXCEPT ![t] = b]
  <2>1. [tab[t] EXCEPT !.queue = q] = tab[t]
    BY <1>0, <1>8, PutSame
  <2>2. b = [[tab[t] EXCEPT !.late = late] EXCEPT !.loops = [tab[t].loops EXCEPT ![l] = r]]
    BY <1>10, <2>1 DEF LoopPut
  <2>3. tab[t] \in TabRecord(queued)
    BY <1>0, TabTypes
  <2> QED
    BY <1>7, <1>8, <2>2, <2>3 DEF TabRecord
<1>12. UNCHANGED <<stored, sent, queued>> /\ stored \in Seq(queued) /\ sent \in [Operation -> Nat]
  BY <1>0 DEF AnswerError, OfflineTyped
<1>13. ASSUME o \notin excused' PROVE Budget(o)'
  <2>1. o \in Operation \ excused /\ ~(sent[o] > 0) /\ ~(late[o] > 0)
    BY <1>3, <1>7, <1>8, <1>13
  <2>2. sent[o] = 0 /\ late[o] = 0
    <3>1. PICK m \in Nat, n \in Nat : m = sent[o] /\ n = late[o]
      BY <1>3, <1>12
    <3> QED
      BY <2>1, <3>1
  <2>3. /\ \A k \in DOMAIN tab[t].loops \ {l} : ~Waits(tab[t].loops[k], o)
        /\ \A u \in Tab \ {t} : Calm(tab[u], o)
    BY <1>3, <2>1, CurrentBudget
  <2>a. OnlyWaiter(t, l, o) /\ PutLoop(t, l, r, q, late, b)
    BY <1>5, <1>8, <1>10, <1>11, <2>3 DEF OnlyWaiter, PutLoop
  <2>4. /\ tab'[t] = b /\ b.late = late /\ ~AnswersIn(tab'[t], o)
        /\ \A u \in Tab \ {t} : Calm(tab'[u], o)
    BY <1>0, <1>5, <2>a, NobodyWaits
  <2>5. Calm(tab'[t], o)
    BY <2>2, <2>4 DEF Calm
  <2>6. Untouched(o)'
    BY <1>12, <2>2, <2>4, <2>5 DEF Untouched
  <2> QED
    BY <2>6 DEF Budget
<1>14. o \in ToSet(stored') \/ sent'[o] > 0
  BY <1>3, <1>12
<1>15. sent'[o] >= sent[o] /\ excused \subseteq excused'
  <2>1. excused \subseteq excused'
    BY <1>7
  <2> QED
    <3>1. sent'[o] = sent[o] /\ sent[o] \in Nat
      BY <1>3, <1>12
    <3> QED
      BY <2>1, <3>1
<1>20. LoopStep(t, l, o, r, q, late, b)
  BY <1>1, <1>3, <1>5, <1>6, <1>8, <1>9, <1>10, <1>11, <1>12, <1>13, <1>14, <1>15 DEF LoopStep
<1> QED
  BY <1>20, LoopTurn

\* What is left when a loop is taken out stands where it stood, or one further on.
Place(k, l) == IF k < l THEN k ELSE k + 1

LEMMA RemovedLoop ==
  ASSUME NEW S, NEW s \in Seq(S), NEW l \in DOMAIN s
  PROVE  /\ RemoveAt(s, l) \in Seq(S)
         /\ \A k \in DOMAIN RemoveAt(s, l) :
              Place(k, l) \in DOMAIN s \ {l} /\ RemoveAt(s, l)[k] = s[Place(k, l)]
         /\ \A j \in DOMAIN s \ {l} : \E k \in DOMAIN RemoveAt(s, l) : Place(k, l) = j
         /\ \A i, k \in DOMAIN RemoveAt(s, l) : Place(i, l) = Place(k, l) => i = k
<1>1. Len(s) \in Nat /\ DOMAIN s = 1..Len(s) /\ l \in 1..Len(s)
  OBVIOUS
<1>2. PICK p : p = SubSeq(s, 1, l - 1)
  OBVIOUS
<1>3. PICK e : e = SubSeq(s, l + 1, Len(s))
  OBVIOUS
<1>4. p \in Seq(S) /\ Len(p) = l - 1 /\ \A i \in 1..(l - 1) : p[i] = s[i]
  BY <1>1, <1>2
<1>5. e \in Seq(S) /\ Len(e) = Len(s) - l /\ \A i \in 1..(Len(s) - l) : e[i] = s[l + i]
  BY <1>1, <1>3
<1>6. PICK a : a = RemoveAt(s, l)
  OBVIOUS
<1>7. a = p \o e
  BY <1>2, <1>3, <1>6 DEF RemoveAt
<1>8. /\ a \in Seq(S) /\ Len(a) = Len(s) - 1 /\ DOMAIN a = 1..(Len(s) - 1)
      /\ \A i \in 1..(l - 1) : a[i] = s[i]
      /\ \A i \in l..(Len(s) - 1) : a[i] = s[i + 1]
  <2>1. /\ a \in Seq(S) /\ Len(a) = Len(p) + Len(e) /\ DOMAIN a = 1..Len(a)
        /\ \A i \in 1..Len(a) : a[i] = IF i <= Len(p) THEN p[i] ELSE e[i - Len(p)]
    <3>1. p \in Seq(S) /\ e \in Seq(S)
      BY <1>4, <1>5
    <3>2. /\ p \o e \in Seq(S) /\ Len(p \o e) = Len(p) + Len(e)
          /\ \A i \in 1..(Len(p) + Len(e)) : (p \o e)[i] = IF i <= Len(p) THEN p[i] ELSE e[i - Len(p)]
      BY <3>1, ConcatProperties
    <3>3. \A i \in 1..Len(a) : a[i] = IF i <= Len(p) THEN p[i] ELSE e[i - Len(p)]
      BY <1>7, <3>2
    <3> QED
      BY <1>7, <3>2, <3>3
  <2>2. Len(a) = Len(s) - 1
    BY <1>1, <1>4, <1>5, <2>1
  <2>3. \A i \in 1..(l - 1) : a[i] = s[i]
    BY <1>1, <1>4, <2>1, <2>2
  <2>4. ASSUME NEW i \in l..(Len(s) - 1) PROVE a[i] = s[i + 1]
    <3>1. i \in 1..Len(a) /\ ~(i <= Len(p)) /\ i - Len(p) \in 1..(Len(s) - l) /\ l + (i - Len(p)) = i + 1
      BY <1>1, <1>4, <2>2
    <3> QED
      BY <1>5, <2>1, <3>1
  <2> QED
    BY <2>1, <2>2, <2>3, <2>4
<1>9. ASSUME NEW k \in DOMAIN a PROVE Place(k, l) \in DOMAIN s \ {l} /\ a[k] = s[Place(k, l)]
  <2>1. CASE k < l
    BY <1>1, <1>8, <2>1 DEF Place
  <2>2. CASE ~(k < l)
    BY <1>1, <1>8, <2>2 DEF Place
  <2> QED
    BY <2>1, <2>2
<1>10. ASSUME NEW j \in DOMAIN s \ {l} PROVE \E k \in DOMAIN a : Place(k, l) = j
  <2>1. CASE j < l
    BY <1>1, <1>8, <2>1 DEF Place
  <2>2. CASE ~(j < l)
    <3>1. j - 1 \in DOMAIN a /\ ~(j - 1 < l) /\ (j - 1) + 1 = j
      BY <1>1, <1>8, <2>2
    <3> QED
      BY <3>1 DEF Place
  <2> QED
    BY <2>1, <2>2
<1>11. ASSUME NEW i \in DOMAIN a, NEW k \in DOMAIN a, Place(i, l) = Place(k, l) PROVE i = k
  BY <1>1, <1>8, <1>11 DEF Place
<1> QED
  BY <1>6, <1>8, <1>9, <1>10, <1>11

\* Ending a loop takes none of the others away.
LEMMA EndSyncKeeps ==
  ASSUME OfflineInv, NEW t \in Tab, NEW l \in DOMAIN tab[t].loops, EndSync(t, l)
  PROVE  OfflineInv'
<1>0. OfflineTyped /\ SentInv
  BY DEF OfflineInv
<1>1. tab[t] \in TabRecord(queued) /\ tab[t].loops \in Seq(LoopRecord(queued)) /\ Fits(tab[t])
  BY <1>0, TabTypes
<1>2. PICK ls : ls = RemoveAt(tab[t].loops, l)
  OBVIOUS
<1>3. /\ ls \in Seq(LoopRecord(queued))
      /\ \A k \in DOMAIN ls : Place(k, l) \in DOMAIN tab[t].loops \ {l} /\ ls[k] = tab[t].loops[Place(k, l)]
      /\ \A j \in DOMAIN tab[t].loops \ {l} : \E k \in DOMAIN ls : Place(k, l) = j
      /\ \A i, k \in DOMAIN ls : Place(i, l) = Place(k, l) => i = k
  BY <1>1, <1>2, RemovedLoop
<1>4. PICK s \in {"error", "success"} : s = IF tab[t].loops[l].conflict THEN "error" ELSE "success"
  OBVIOUS
<1>5. PICK b : b = [tab[t] EXCEPT !.loops = ls, !.timers = @ + 1, !.syncState = s]
  OBVIOUS
<1>6. b \in TabRecord(queued) /\ b.loops = ls /\ b.late = tab[t].late
  <2>1. tab[t].timers + 1 \in Nat
    BY <1>1 DEF TabRecord
  <2> QED
    BY <1>1, <1>3, <1>4, <1>5, <2>1 DEF TabRecord
<1>7. Fits(b) /\ CountedIn(b, sent)
  <2>1. CountedIn(tab[t], sent)
    BY <1>0 DEF SentInv
  <2> QED
    BY <1>1, <1>3, <1>6, <2>1 DEF Fits, CountedIn
<1>8. tab[t].loops[l].at = "send"
  BY DEF EndSync
<1>9. ASSUME NEW x \in Operation PROVE SameWait(tab[t], b, x)
  <2>1. tab[t].late[x] \in Nat
    BY <1>1 DEF TabRecord
  <2>2. ASSUME NEW n \in Nat, Writing(tab[t], x, n) PROVE Writing(b, x, n)
    <3>1. PICK m \in DOMAIN tab[t].loops :
            /\ Waits(tab[t].loops[m], x)
            /\ n + tab[t].late[x] + Open(tab[t].loops[m]) <= tab[t].loops[m].tries
            /\ \A k \in DOMAIN tab[t].loops \ {m} : ~Waits(tab[t].loops[k], x)
      BY <2>2 DEF Writing
    <3>2. m # l
      BY <1>8, <3>1 DEF Waits
    <3>3. PICK i \in DOMAIN ls : Place(i, l) = m
      BY <1>3, <3>2
    <3>4. ls[i] = tab[t].loops[m]
      BY <1>3, <3>3
    <3>5. ASSUME NEW k \in DOMAIN ls \ {i} PROVE ~Waits(ls[k], x)
      <4>1. Place(k, l) \in DOMAIN tab[t].loops \ {m} /\ ls[k] = tab[t].loops[Place(k, l)]
        BY <1>3, <3>3
      <4> QED
        BY <3>1, <4>1
    <3> QED
      BY <1>6, <3>1, <3>4, <3>5 DEF Writing
  <2>3. ~AnswersIn(tab[t], x) => ~AnswersIn(b, x)
    BY <1>3, <1>6 DEF AnswersIn
  <2> QED
    BY <1>6, <2>1, <2>2, <2>3 DEF SameWait
<1>10. tab' = [tab EXCEPT ![t] = b]
  BY <1>2, <1>4, <1>5 DEF EndSync
<1>11. UNCHANGED <<stored, sent, queued, excused>>
  BY DEF EndSync
<1>12. Turn(t, b)
  BY <1>6, <1>7, <1>10, <1>11 DEF Turn
<1> QED
  BY <1>7, <1>9, <1>11, <1>12, QuietTurn

\* Buttons, the browser's events and the timer start loops but end none.
LEMMA BannerKeeps ==
  ASSUME OfflineInv, NEW t \in Tab, GoOnline(t) \/ GoOffline(t) \/ PressSync(t) \/ TimerFires(t)
  PROVE  OfflineInv'
<1>0. OfflineTyped /\ SentInv
  BY DEF OfflineInv
<1>1. tab[t] \in TabRecord(queued) /\ Fits(tab[t]) /\ CountedIn(tab[t], sent)
  BY <1>0 DEF OfflineTyped, SentInv
<1>2. UNCHANGED <<stored, sent, queued, excused>>
  BY DEF GoOnline, GoOffline, PressSync, TimerFires
<1> DEFINE Good(b) == /\ b \in TabRecord(queued) /\ Fits(b) /\ CountedIn(b, sent)
                      /\ \A x \in Operation : SameWait(tab[t], b, x)
<1>3. SUFFICES \E b : tab' = [tab EXCEPT ![t] = b] /\ Good(b)
  <2>1. PICK b : tab' = [tab EXCEPT ![t] = b] /\ Good(b)
    BY <1>3
  <2>2. Turn(t, b)
    BY <1>2, <2>1 DEF Turn
  <2> QED
    BY <1>2, <2>1, <2>2, QuietTurn
<1>4. CASE GoOnline(t)
  <2>1. PICK c : c = [tab[t] EXCEPT !.isOnline = TRUE]
    OBVIOUS
  <2>2. c \in TabRecord(queued) /\ c.loops = tab[t].loops /\ c.late = tab[t].late
    BY <1>1, <2>1 DEF TabRecord
  <2>3. Fits(c) /\ CountedIn(c, sent) /\ \A x \in Operation : SameWait(tab[t], c, x)
    BY <1>1, <2>2, SameLoops
  <2>4. PICK b : b = IF c.syncState = "idle" THEN Starts(c) ELSE c
    OBVIOUS
  <2>5. tab' = [tab EXCEPT ![t] = b]
    BY <1>4, <2>1, <2>4 DEF GoOnline
  <2>6. CASE b = c
    BY <2>2, <2>3, <2>5, <2>6
  <2>7. CASE b = Starts(c)
    <3>1. /\ b \in TabRecord(queued) /\ Fits(b) /\ CountedIn(b, sent)
          /\ \A x \in Operation : SameWait(c, b, x)
      BY <2>2, <2>3, <2>7, StartsIs
    <3>2. ASSUME NEW x \in Operation PROVE SameWait(tab[t], b, x)
      <4>1. SameWait(tab[t], c, x) /\ SameWait(c, b, x)
        BY <2>3, <3>1
      <4>2. tab[t].late[x] \in Nat /\ c.late[x] \in Nat /\ b.late[x] \in Nat
        BY <1>1, <2>2, <3>1 DEF TabRecord
      <4> QED
        BY <4>1, <4>2 DEF SameWait
    <3> QED
      BY <2>5, <3>1, <3>2
  <2> QED
    BY <2>4, <2>6, <2>7
<1>5. CASE GoOffline(t)
  <2>1. PICK c : c = [tab[t] EXCEPT !.isOnline = FALSE]
    OBVIOUS
  <2>2. c \in TabRecord(queued) /\ c.loops = tab[t].loops /\ c.late = tab[t].late
    BY <1>1, <2>1 DEF TabRecord
  <2>3. Good(c)
    BY <1>1, <2>2, SameLoops
  <2>4. tab' = [tab EXCEPT ![t] = c]
    BY <1>5, <2>1 DEF GoOffline
  <2> QED
    BY <2>3, <2>4
<1>6. CASE PressSync(t)
  <2>1. tab' = [tab EXCEPT ![t] = Starts(tab[t])]
    BY <1>6 DEF PressSync
  <2>2. Good(Starts(tab[t]))
    BY <1>1, StartsIs
  <2> QED
    BY <2>1, <2>2
<1>7. CASE TimerFires(t)
  <2>1. PICK c : c = [tab[t] EXCEPT !.timers = @ - 1, !.syncState = "idle"]
    OBVIOUS
  <2>2. tab[t].timers - 1 \in Nat
    BY <1>1, <1>7 DEF TimerFires, TabRecord
  <2>3. c \in TabRecord(queued) /\ c.loops = tab[t].loops /\ c.late = tab[t].late
    BY <1>1, <2>1, <2>2 DEF TabRecord
  <2>4. Good(c)
    BY <1>1, <2>3, SameLoops
  <2>5. tab' = [tab EXCEPT ![t] = c]
    BY <1>7, <2>1 DEF TimerFires
  <2> QED
    BY <2>4, <2>5
<1> QED
  BY <1>4, <1>5, <1>6, <1>7

LEMMA OpenTabIs ==
  ASSUME NEW Q, NEW n \in BOOLEAN, NEW s \in Seq(Q), NEW b,
         b = [OpenTab EXCEPT !.isOnline = n, !.formOnline = n, !.queue = s]
  PROVE  /\ b \in TabRecord(Q) /\ Fits(b) /\ \A m : CountedIn(b, m)
         /\ \A x \in Operation : Calm(b, x)
<1>1. OpenTab \in TabRecord(Q) /\ OpenTab.loops = <<>> /\ OpenTab.late = [o \in Operation |-> 0]
  BY DEF OpenTab, TabRecord
<1>2. PICK c : c = [[OpenTab EXCEPT !.isOnline = n] EXCEPT !.formOnline = n]
  OBVIOUS
<1>3. b = [c EXCEPT !.queue = s]
  BY <1>2
<1>4. c \in TabRecord(Q) /\ c.loops = <<>> /\ c.late = [o \in Operation |-> 0]
  BY <1>1, <1>2 DEF TabRecord
<1>5. b \in TabRecord(Q) /\ b.loops = <<>> /\ b.late = [o \in Operation |-> 0]
  BY <1>3, <1>4 DEF TabRecord
<1> QED
  BY <1>5 DEF Fits, CountedIn, Calm, AnswersIn

\* What a closed tab waited for is excused, or no transaction of it was handed over.
LEMMA CloseTabKeeps ==
  ASSUME OfflineInv, NEW t \in Tab, CloseTab(t)
  PROVE  OfflineInv'
<1>0. OfflineTyped /\ SentInv
  BY DEF OfflineInv
<1>1. tab[t] \in TabRecord(queued) /\ stored \in Seq(queued) /\ queued \subseteq Operation
  BY <1>0 DEF OfflineTyped
<1>2. PICK n \in BOOLEAN : n = tab[t].isOnline
  BY <1>1 DEF TabRecord
<1>3. PICK b : b = [OpenTab EXCEPT !.isOnline = n, !.formOnline = n, !.queue = stored]
  OBVIOUS
<1>4. /\ b \in TabRecord(queued) /\ Fits(b) /\ CountedIn(b, sent)
      /\ \A x \in Operation : Calm(b, x)
  BY <1>1, <1>3, OpenTabIs
<1>5. UNCHANGED <<stored, sent, queued>> /\ sent \in [Operation -> Nat]
  BY <1>0 DEF CloseTab, OfflineTyped
<1>6. tab' = [tab EXCEPT ![t] = b]
  BY <1>2, <1>3 DEF CloseTab
<1>7. Turn(t, b)
  BY <1>4, <1>5, <1>6 DEF Turn
<1>8. excused \subseteq excused' /\ \A x \in Operation : sent[x] > 0 /\ AnswersIn(tab[t], x) => x \in excused'
  BY DEF CloseTab, AnswersIn, Waits, Current
<1>9. PICK O \in SUBSET queued' : O = {x \in queued : AnswersIn(tab[t], x)}
  BY <1>5
<1>10. ASSUME NEW x \in Operation \ O PROVE SameWait(tab[t], b, x)
  <2>1. ~AnswersIn(tab[t], x)
    <3>1. CASE x \in queued
      BY <1>9, <3>1
    <3>2. CASE x \notin queued
      BY <1>0, <3>2 DEF SentInv, Untouched, Calm
    <3> QED
      BY <3>1, <3>2
  <2>2. ~AnswersIn(b, x) /\ b.late[x] = 0 /\ tab[t].late[x] \in Nat
    BY <1>1, <1>4 DEF Calm, TabRecord
  <2>3. \A m \in Nat : ~Writing(tab[t], x, m)
    BY <2>1 DEF Writing, AnswersIn
  <2> QED
    BY <2>2, <2>3 DEF SameWait
<1>11. ASSUME NEW x \in O \ excused' PROVE Budget(x)'
  <2>1. x \in Operation \ excused /\ AnswersIn(tab[t], x) /\ sent[x] = 0
    BY <1>1, <1>5, <1>8, <1>9
  <2>2. PICK l \in DOMAIN tab[t].loops : Waits(tab[t].loops[l], x)
    BY <2>1 DEF AnswersIn
  <2>3. \A u \in Tab \ {t} : Calm(tab[u], x)
    BY <2>1, <2>2, CurrentBudget
  <2>4. tab'[t] = b /\ \A u \in Tab \ {t} : tab'[u] = tab[u]
    BY <1>0, <1>7, TurnType
  <2>5. \A u \in Tab : Calm(tab'[u], x)
    BY <1>4, <2>1, <2>3, <2>4
  <2>6. Untouched(x)'
    BY <1>5, <2>1, <2>5 DEF Untouched
  <2> QED
    BY <2>6 DEF Budget
<1>12. Budgeted(O)'
  BY <1>11 DEF Budgeted
<1>13. \A x \in Operation \ O : /\ sent'[x] = sent[x] /\ SameWait(tab[t], b, x)
                                /\ x \in ToSet(stored') <=> x \in ToSet(stored)
  BY <1>5, <1>10
<1>14. \A x \in O : x \in ToSet(stored') \/ sent'[x] > 0
  BY <1>0, <1>5, <1>9 DEF SentInv
<1>15. /\ queued' \subseteq queued \cup O /\ queued' \subseteq Operation /\ stored' \in Seq(queued')
       /\ sent' \in [Operation -> Nat] /\ CountedIn(b, sent') /\ excused \subseteq excused'
       /\ \A x \in Operation : sent'[x] >= sent[x]
  BY <1>1, <1>4, <1>5, <1>8
<1> QED
  BY <1>7, <1>12, <1>13, <1>14, <1>15, TurnKeeps

LEMMA OfflineStart == OfflineInit => OfflineInv
<1> SUFFICES ASSUME OfflineInit PROVE OfflineInv
  OBVIOUS
<1>1. stored = <<>> /\ sent = [o \in Operation |-> 0] /\ queued = {} /\ excused = {}
  BY DEF OfflineInit
<1>2. PICK closed : closed = [OpenTab EXCEPT !.isOnline = FALSE, !.formOnline = FALSE]
  OBVIOUS
<1>3. ASSUME NEW b \in {OpenTab, closed}
      PROVE  /\ b \in TabRecord({}) /\ Fits(b) /\ CountedIn(b, sent)
             /\ \A x \in Operation : Calm(b, x)
  <2>1. OpenTab \in TabRecord({}) /\ OpenTab.loops = <<>> /\ OpenTab.late = [o \in Operation |-> 0]
    BY DEF OpenTab, TabRecord
  <2>2. closed \in TabRecord({}) /\ closed.loops = <<>> /\ closed.late = [o \in Operation |-> 0]
    BY <1>2, <2>1 DEF TabRecord
  <2>3. b \in TabRecord({}) /\ b.loops = <<>> /\ b.late = [o \in Operation |-> 0]
    BY <2>1, <2>2
  <2> QED
    BY <2>3 DEF Fits, CountedIn, Calm, AnswersIn
<1>4. tab \in [Tab -> {OpenTab, closed}]
  BY <1>2 DEF OfflineInit
<1>5. \A t \in Tab : /\ tab[t] \in TabRecord({}) /\ Fits(tab[t]) /\ CountedIn(tab[t], sent)
                     /\ \A x \in Operation : Calm(tab[t], x)
  BY <1>3, <1>4
<1>6. tab \in [Tab -> TabRecord({})]
  BY <1>4, <1>5
<1>7. OfflineTyped
  BY <1>1, <1>5, <1>6 DEF OfflineTyped
<1>8. \A x \in Operation : Untouched(x)
  BY <1>1, <1>5 DEF Untouched
<1>9. SentInv
  BY <1>1, <1>5, <1>8 DEF SentInv, Budget
<1> QED
  BY <1>7, <1>9 DEF OfflineInv

LEMMA OfflineStep == ASSUME OfflineInv, OfflineNext PROVE OfflineInv'
  BY EnqueueKeeps, BannerKeeps, CloseTabKeeps, DispatchKeeps, HandOverKeeps, LateHandOverKeeps,
     RetryKeeps, AnswerOkKeeps, AnswerErrorKeeps, EndSyncKeeps DEF OfflineNext

LEMMA OfflineIdle == ASSUME OfflineInv, UNCHANGED offlineVars PROVE OfflineInv'
<1>1. UNCHANGED <<stored, tab, sent, queued, excused>>
  BY DEF offlineVars
<1>2. OfflineTyped'
  BY <1>1 DEF OfflineInv, OfflineTyped
<1>3. \A x : Budget(x) => Budget(x)'
  BY <1>1 DEF Budget, Untouched, Underway, Finished
<1>4. \A x : Untouched(x) => Untouched(x)'
  BY <1>1 DEF Untouched
<1>5. SentInv'
  BY <1>1, <1>3, <1>4 DEF OfflineInv, SentInv
<1> QED
  BY <1>2, <1>5 DEF OfflineInv

\* An operation that is not excused was handed over no more often than one dispatch may.
LEMMA WithinAttempts ==
  ASSUME OfflineInv, NEW x \in Operation \ excused
  PROVE  sent[x] <= DispatchAttempts
<1>0. OfflineTyped /\ Budget(x)
  BY DEF OfflineInv, SentInv
<1>1. sent[x] \in Nat /\ \A t \in Tab : tab[t].late[x] \in Nat
  BY <1>0, TabTypes DEF OfflineTyped
<1>2. CASE Untouched(x)
  BY <1>2, OfflineAssumption DEF Untouched
<1>3. ASSUME NEW t \in Tab, Underway(x, t) PROVE sent[x] <= DispatchAttempts
  <2>1. PICK l \in DOMAIN tab[t].loops :
          sent[x] + tab[t].late[x] + Open(tab[t].loops[l]) <= tab[t].loops[l].tries
    BY <1>3 DEF Underway, Writing
  <2>2. PICK n \in 0..DispatchAttempts : n = tab[t].loops[l].tries
    <3>1. tab[t].loops[l] \in LoopRecord(queued)
      BY <1>0, TabTypes
    <3> QED
      BY <3>1 DEF LoopRecord
  <2>3. PICK k \in {0, 1} : k = Open(tab[t].loops[l])
    BY DEF Open
  <2> QED
    BY <1>1, <2>1, <2>2, <2>3, OfflineAssumption
<1>4. ASSUME NEW t \in Tab, Finished(x, t) PROVE sent[x] <= DispatchAttempts
  BY <1>1, <1>4, OfflineAssumption DEF Finished
<1> QED
  BY <1>0, <1>2, <1>3, <1>4 DEF Budget

\* What was stored waits in the storage until a transaction of it was handed to the node,
\* and an operation that is not excused has no more transactions than one dispatch makes
\* attempts, for any number of tabs, operations, attempts and overlapping loops
\* (offlineQueue.ts:32-44; SyncStatusBanner.tsx:75-103; resilience.ts:79-104).
THEOREM QueuedKept == Spec => []QueuedIsKeptUntilHanded
<1>1. Init => OfflineInv
  BY OfflineStart DEF Init
<1>2. OfflineInv /\ [Next]_flowsVars => OfflineInv'
  BY OfflineStep, OfflineIdle DEF Next, Only, flowsVars
<1>3. OfflineInv => QueuedIsKeptUntilHanded
  <2> SUFFICES ASSUME OfflineInv, NEW o \in queued
               PROVE  /\ o \in ToSet(stored) \/ sent[o] > 0
                      /\ sent[o] > DispatchAttempts => o \in excused
    BY DEF QueuedIsKeptUntilHanded
  <2>1. o \in Operation /\ sent[o] \in Nat
    BY DEF OfflineInv, OfflineTyped
  <2>2. o \notin excused => sent[o] <= DispatchAttempts
    BY <2>1, WithinAttempts
  <2> QED
    BY <2>1, <2>2, OfflineAssumption DEF OfflineInv, SentInv
<1> QED
  BY <1>1, <1>2, <1>3, PTL DEF Spec

-----------------------------------------------------------------------------
(* WarrantyPanel: what the page was told stays shown *)

\* What is kept of a page and of a call.
WarrantyOp == {"register", "void", "file", "update"}
PageRecord == [isOwner : BOOLEAN, warranty : {"none", "valid", "voided"}, claims : Seq(ClaimRecord),
               claimForm : BOOLEAN, busy : SUBSET WarrantyOp, updating : ClaimId \cup {"none"}]
PressRecord == [op : WarrantyOp, claim : ClaimId \cup {"none"}, status : Status \cup {"Pending", "none"},
                at : {"sent", "succeeded", "failed"}, mounted : BOOLEAN]
WarrantyTyped ==
  /\ page \in PageRecord
  /\ press \in Seq(PressRecord)
  /\ \A i \in DOMAIN press :
       /\ press[i].op \in {"file", "update"} => press[i].claim \in ClaimId
       /\ press[i].op = "update" => press[i].status \in Status

\* A claim that is updated or was filed is shown, one that waits for its filing is not,
\* and one the page was told of shows what it was told.
HasClaim(cs, c) == \E k \in DOMAIN cs : cs[k].id = c
Tells(p, c, s) == p.op = "update" /\ p.at = "succeeded" /\ p.claim = c /\ p.status = s
ToldBy(ps, c, s) == \E j \in DOMAIN ps : Tells(ps[j], c, s)
FiledOnce(ps) ==
  \A i, j \in DOMAIN ps :
    ps[i].op = "file" /\ ps[j].op = "file" /\ ps[i].claim = ps[j].claim => i = j
ShownAsCalled(cs, ps) ==
  \A i \in DOMAIN ps :
    /\ ps[i].op = "update" => HasClaim(cs, ps[i].claim)
    /\ ps[i].op = "file" /\ ps[i].at = "succeeded" => HasClaim(cs, ps[i].claim)
    /\ ps[i].op = "file" /\ ps[i].at = "sent" => ~HasClaim(cs, ps[i].claim)
ShownAsTold(cs, ps) ==
  \A c, s : ToldBy(ps, c, s) => \A k \in DOMAIN cs : cs[k].id = c => ToldBy(ps, c, cs[k].status)
PanelFacts(cs, ps) == FiledOnce(ps) /\ ShownAsCalled(cs, ps) /\ ShownAsTold(cs, ps)

WarrantyInv == WarrantyTyped /\ PanelFacts(page.claims, press)

\* A call that is sent tells nothing yet.
LEMMA CallFacts ==
  ASSUME NEW cs, NEW ps \in Seq(PressRecord), NEW e \in PressRecord, PanelFacts(cs, ps),
         e.at = "sent", e.op = "update" => HasClaim(cs, e.claim),
         e.op = "file" => ~HasClaim(cs, e.claim) /\ \A i \in DOMAIN ps : ps[i].claim # e.claim
  PROVE  PanelFacts(cs, Append(ps, e))
<1>1. PICK as : as = Append(ps, e)
  OBVIOUS
<1>2. PICK n : n = Len(ps) + 1
  OBVIOUS
<1>3. /\ DOMAIN as = DOMAIN ps \cup {n} /\ n \notin DOMAIN ps /\ as[n] = e
      /\ \A i \in DOMAIN ps : as[i] = ps[i]
  BY <1>1, <1>2
<1>4. FiledOnce(as)
  BY <1>3 DEF PanelFacts, FiledOnce
<1>5. ShownAsCalled(cs, as)
  BY <1>3 DEF PanelFacts, ShownAsCalled
<1>6. ASSUME NEW c, NEW s PROVE ToldBy(as, c, s) <=> ToldBy(ps, c, s)
  <2>1. ~Tells(as[n], c, s)
    BY <1>3 DEF Tells
  <2> QED
    BY <1>3, <2>1 DEF ToldBy
<1>7. ShownAsTold(cs, as)
  BY <1>6 DEF PanelFacts, ShownAsTold
<1> QED
  BY <1>1, <1>4, <1>5, <1>7 DEF PanelFacts

\* What depends on the calls' operations and claims, and on what they told.
LEMMA FiledSame ==
  ASSUME NEW ps, NEW as, DOMAIN as = DOMAIN ps, FiledOnce(ps),
         \A i \in DOMAIN ps : as[i].op = ps[i].op /\ as[i].claim = ps[i].claim
  PROVE  FiledOnce(as)
<1> SUFFICES ASSUME NEW i \in DOMAIN ps, NEW j \in DOMAIN ps, as[i].op = "file", as[j].op = "file",
                    as[i].claim = as[j].claim
             PROVE  i = j
  BY DEF FiledOnce
<1>1. ps[i].op = "file" /\ ps[j].op = "file" /\ ps[i].claim = ps[j].claim
  OBVIOUS
<1> QED
  BY <1>1 DEF FiledOnce

LEMMA ToldSame ==
  ASSUME NEW ps, NEW as, DOMAIN as = DOMAIN ps, NEW c,
         \A i \in DOMAIN ps : \A s : Tells(as[i], c, s) <=> Tells(ps[i], c, s)
  PROVE  \A s : ToldBy(as, c, s) <=> ToldBy(ps, c, s)
  BY DEF ToldBy

\* Neither does an answer of failure, nor a form that is closed.
Quieter(ps, as) ==
  /\ DOMAIN as = DOMAIN ps
  /\ \A i \in DOMAIN ps : /\ as[i].op = ps[i].op /\ as[i].claim = ps[i].claim
                          /\ as[i].status = ps[i].status
                          /\ as[i].at = ps[i].at \/ (ps[i].at = "sent" /\ as[i].at = "failed")

LEMMA QuietFacts ==
  ASSUME NEW cs, NEW ps, NEW as, PanelFacts(cs, ps), Quieter(ps, as)
  PROVE  PanelFacts(cs, as)
<1>1. FiledOnce(as)
  BY FiledSame DEF PanelFacts, Quieter
<1>2. ShownAsCalled(cs, as)
  BY DEF PanelFacts, ShownAsCalled, Quieter
<1>3. ASSUME NEW c PROVE \A s : ToldBy(as, c, s) <=> ToldBy(ps, c, s)
  <2>1. \A i \in DOMAIN ps : \A s : Tells(as[i], c, s) <=> Tells(ps[i], c, s)
    BY DEF Tells, Quieter
  <2> QED
    BY <2>1, ToldSame DEF Quieter
<1>4. ShownAsTold(cs, as)
  BY <1>3 DEF PanelFacts, ShownAsTold
<1> QED
  BY <1>1, <1>2, <1>4 DEF PanelFacts

\* One call is answered with success.
Succeeds(ps, i, as) ==
  /\ i \in DOMAIN ps /\ ps[i].at = "sent" /\ DOMAIN as = DOMAIN ps
  /\ \A j \in DOMAIN ps \ {i} : as[j] = ps[j]
  /\ as[i].op = ps[i].op /\ as[i].claim = ps[i].claim /\ as[i].status = ps[i].status
  /\ as[i].at = "succeeded"

LEMMA SucceedsKeeps ==
  ASSUME NEW ps, NEW i, NEW as, Succeeds(ps, i, as)
  PROVE  /\ FiledOnce(ps) => FiledOnce(as)
         /\ \A c : ps[i].op # "update" \/ ps[i].claim # c =>
              \A s : ToldBy(as, c, s) <=> ToldBy(ps, c, s)
<1>1. /\ DOMAIN as = DOMAIN ps
      /\ \A j \in DOMAIN ps : as[j].op = ps[j].op /\ as[j].claim = ps[j].claim
  BY DEF Succeeds
<1>2. ASSUME NEW c, ps[i].op # "update" \/ ps[i].claim # c
      PROVE  \A s : ToldBy(as, c, s) <=> ToldBy(ps, c, s)
  <2>1. ASSUME NEW j \in DOMAIN ps PROVE \A s : Tells(as[j], c, s) <=> Tells(ps[j], c, s)
    <3>1. CASE j = i
      BY <1>1, <1>2, <3>1 DEF Tells
    <3>2. CASE j # i
      BY <3>2 DEF Succeeds
    <3> QED
      BY <3>1, <3>2
  <2> QED
    BY <1>1, <2>1, ToldSame
<1> QED
  BY <1>1, <1>2, FiledSame

\* A claim that is filed was not shown, so nothing was told of it.
LEMMA FiledFacts ==
  ASSUME NEW cs \in Seq(ClaimRecord), NEW ps, NEW i, NEW as, PanelFacts(cs, ps), Succeeds(ps, i, as),
         NEW r \in ClaimRecord, ps[i].op = "file", r.id = ps[i].claim
  PROVE  PanelFacts(Append(cs, r), as)
<1>1. PICK ds : ds = Append(cs, r)
  OBVIOUS
<1>2. PICK n : n = Len(cs) + 1
  OBVIOUS
<1>3. /\ DOMAIN ds = DOMAIN cs \cup {n} /\ n \notin DOMAIN cs /\ ds[n] = r
      /\ \A k \in DOMAIN cs : ds[k] = cs[k]
  BY <1>1, <1>2
<1>4. \A c : HasClaim(ds, c) <=> HasClaim(cs, c) \/ c = r.id
  BY <1>3 DEF HasClaim
<1>5. FiledOnce(as)
  BY SucceedsKeeps DEF PanelFacts
<1>6. ~HasClaim(cs, r.id)
  BY DEF PanelFacts, ShownAsCalled, Succeeds
<1>7. \A j \in DOMAIN as : as[j].op = "update" => as[j].claim # r.id
  BY <1>6 DEF PanelFacts, ShownAsCalled, Succeeds
<1>8. ShownAsCalled(ds, as)
  <2> SUFFICES ASSUME NEW j \in DOMAIN as
               PROVE  /\ as[j].op = "update" => HasClaim(ds, as[j].claim)
                      /\ as[j].op = "file" /\ as[j].at = "succeeded" => HasClaim(ds, as[j].claim)
                      /\ as[j].op = "file" /\ as[j].at = "sent" => ~HasClaim(ds, as[j].claim)
    BY DEF ShownAsCalled
  <2>1. CASE j = i
    BY <1>4, <2>1 DEF Succeeds
  <2>2. CASE j # i
    <3>1. as[j] = ps[j] /\ j \in DOMAIN ps
      BY <2>2 DEF Succeeds
    <3>2. ps[j].op = "file" => ps[j].claim # r.id
      BY <2>2, <3>1 DEF PanelFacts, FiledOnce, Succeeds
    <3> QED
      BY <1>4, <3>1, <3>2 DEF PanelFacts, ShownAsCalled
  <2> QED
    BY <2>1, <2>2
<1>9. \A c, s : ToldBy(as, c, s) <=> ToldBy(ps, c, s)
  BY SucceedsKeeps
<1>10. \A s : ~ToldBy(as, r.id, s)
  BY <1>7 DEF ToldBy, Tells
<1>11. ShownAsTold(ds, as)
  <2> SUFFICES ASSUME NEW c, NEW s, ToldBy(as, c, s), NEW k \in DOMAIN ds, ds[k].id = c
               PROVE  ToldBy(as, c, ds[k].status)
    BY DEF ShownAsTold
  <2>1. k \in DOMAIN cs
    BY <1>3, <1>10
  <2> QED
    BY <1>3, <1>9, <2>1 DEF PanelFacts, ShownAsTold
<1> QED
  BY <1>1, <1>5, <1>8, <1>11 DEF PanelFacts

LEMMA ShowStatusIs ==
  ASSUME NEW cs \in Seq(ClaimRecord), NEW r, r.status \in Status
  PROVE  /\ ShowStatus(cs, r) \in Seq(ClaimRecord) /\ DOMAIN ShowStatus(cs, r) = DOMAIN cs
         /\ \A k \in DOMAIN cs : /\ ShowStatus(cs, r)[k].id = cs[k].id
                                 /\ cs[k].id = r.claim => ShowStatus(cs, r)[k].status = r.status
                                 /\ cs[k].id # r.claim => ShowStatus(cs, r)[k] = cs[k]
<1>1. PICK ds : ds = ShowStatus(cs, r)
  OBVIOUS
<1>2. PICK n \in Nat : n = Len(cs) /\ DOMAIN cs = 1..n
  OBVIOUS
<1>3. DOMAIN ds = 1..n
  BY <1>1, <1>2 DEF ShowStatus
<1>4. ASSUME NEW k \in DOMAIN cs
      PROVE  /\ ds[k] \in ClaimRecord /\ ds[k].id = cs[k].id
             /\ cs[k].id = r.claim => ds[k].status = r.status
             /\ cs[k].id # r.claim => ds[k] = cs[k]
  <2>1. PICK d \in ClaimRecord : d = cs[k]
    OBVIOUS
  <2>2. CASE d.id = r.claim
    <3>1. PICK e : e = [d EXCEPT !.status = r.status]
      OBVIOUS
    <3>2. e \in ClaimRecord /\ e.id = d.id /\ e.status = r.status
      BY <3>1 DEF ClaimRecord
    <3>3. ds[k] = e
      BY <1>1, <2>1, <2>2, <3>1 DEF ShowStatus
    <3> QED
      BY <2>1, <2>2, <3>2, <3>3
  <2>3. CASE d.id # r.claim
    <3>1. ds[k] = d
      BY <1>1, <2>1, <2>3 DEF ShowStatus
    <3> QED
      BY <2>1, <2>3, <3>1
  <2> QED
    BY <2>2, <2>3
<1>5. ds = [k \in 1..n |-> ds[k]]
  BY <1>1, <1>2 DEF ShowStatus
<1>6. ds \in Seq(ClaimRecord)
  BY <1>2, <1>4, <1>5
<1> QED
  BY <1>1, <1>2, <1>3, <1>4, <1>6

\* A claim that is updated shows what the page was just told.
LEMMA UpdatedFacts ==
  ASSUME NEW cs \in Seq(ClaimRecord), NEW ps, NEW i, NEW as, PanelFacts(cs, ps), Succeeds(ps, i, as),
         ps[i].op = "update", ps[i].status \in Status
  PROVE  PanelFacts(ShowStatus(cs, ps[i]), as)
<1>1. PICK r : r = ps[i]
  OBVIOUS
<1>2. PICK ds : ds = ShowStatus(cs, r)
  OBVIOUS
<1>3. /\ DOMAIN ds = DOMAIN cs
      /\ \A k \in DOMAIN cs : /\ ds[k].id = cs[k].id
                              /\ cs[k].id = r.claim => ds[k].status = r.status
                              /\ cs[k].id # r.claim => ds[k] = cs[k]
  BY <1>1, <1>2, ShowStatusIs
<1>4. \A c : HasClaim(ds, c) <=> HasClaim(cs, c)
  BY <1>3 DEF HasClaim
<1>5. FiledOnce(as)
  BY SucceedsKeeps DEF PanelFacts
<1>6. ShownAsCalled(ds, as)
  BY <1>4 DEF PanelFacts, ShownAsCalled, Succeeds
<1>7. ToldBy(as, r.claim, r.status)
  BY <1>1 DEF ToldBy, Tells, Succeeds
<1>8. \A c, s : c # r.claim => (ToldBy(as, c, s) <=> ToldBy(ps, c, s))
  BY <1>1, SucceedsKeeps
<1>9. ShownAsTold(ds, as)
  <2> SUFFICES ASSUME NEW c, NEW s, ToldBy(as, c, s), NEW k \in DOMAIN ds, ds[k].id = c
               PROVE  ToldBy(as, c, ds[k].status)
    BY DEF ShownAsTold
  <2>1. CASE c = r.claim
    BY <1>3, <1>7, <2>1
  <2>2. CASE c # r.claim
    <3>1. ds[k] = cs[k] /\ cs[k].id = c /\ ToldBy(ps, c, s) /\ k \in DOMAIN cs
      BY <1>3, <1>8, <2>2
    <3>2. ToldBy(ps, c, cs[k].status)
      BY <3>1 DEF PanelFacts, ShownAsTold
    <3> QED
      BY <1>8, <2>2, <3>1, <3>2
  <2> QED
    BY <2>1, <2>2
<1> QED
  BY <1>1, <1>2, <1>5, <1>6, <1>9 DEF PanelFacts

\* Any other answer of success leaves the claims alone.
LEMMA OtherFacts ==
  ASSUME NEW cs, NEW ps, NEW i, NEW as, PanelFacts(cs, ps), Succeeds(ps, i, as),
         ps[i].op \notin {"file", "update"}
  PROVE  PanelFacts(cs, as)
<1>1. FiledOnce(as)
  BY SucceedsKeeps DEF PanelFacts
<1>2. ShownAsCalled(cs, as)
  BY DEF PanelFacts, ShownAsCalled, Succeeds
<1>3. \A c, s : ToldBy(as, c, s) <=> ToldBy(ps, c, s)
  BY SucceedsKeeps
<1>4. ShownAsTold(cs, as)
  BY <1>3 DEF PanelFacts, ShownAsTold
<1> QED
  BY <1>1, <1>2, <1>4 DEF PanelFacts

\* The page and the calls after a button: one more call, or none.
LEMMA CallKeeps ==
  ASSUME WarrantyInv, NEW op \in WarrantyOp, NEW c \in ClaimId \cup {"none"},
         NEW s \in Status \cup {"Pending", "none"}, Call(op, c, s),
         page' \in PageRecord, page'.claims = page.claims,
         op \in {"file", "update"} => c \in ClaimId, op = "update" => s \in Status,
         op = "update" => HasClaim(page.claims, c),
         op = "file" => ~HasClaim(page.claims, c) /\ \A i \in DOMAIN press : press[i].claim # c
  PROVE  WarrantyInv'
<1>1. PICK e : e = [op |-> op, claim |-> c, status |-> s, at |-> "sent", mounted |-> TRUE]
  OBVIOUS
<1>2. /\ e \in PressRecord /\ e.at = "sent" /\ e.op = op /\ e.claim = c /\ e.status = s
  BY <1>1 DEF PressRecord
<1>3. PICK ps \in Seq(PressRecord) : ps = press
  BY DEF WarrantyInv, WarrantyTyped
<1>4. press' = Append(ps, e)
  BY <1>1, <1>3 DEF Call
<1>5. PICK cs : cs = page.claims
  OBVIOUS
<1>6. PanelFacts(cs, ps)
  BY <1>3, <1>5 DEF WarrantyInv
<1>7. PanelFacts(cs, Append(ps, e))
  BY <1>2, <1>3, <1>5, <1>6, CallFacts
<1>8. WarrantyTyped'
  <2>1. /\ DOMAIN Append(ps, e) = DOMAIN ps \cup {Len(ps) + 1} /\ Append(ps, e)[Len(ps) + 1] = e
        /\ Append(ps, e) \in Seq(PressRecord) /\ \A i \in DOMAIN ps : Append(ps, e)[i] = ps[i]
    BY <1>2
  <2>2. \A i \in DOMAIN ps : /\ ps[i].op \in {"file", "update"} => ps[i].claim \in ClaimId
                             /\ ps[i].op = "update" => ps[i].status \in Status
    BY <1>3 DEF WarrantyInv, WarrantyTyped
  <2> QED
    BY <1>2, <1>4, <2>1, <2>2 DEF WarrantyTyped
<1>9. page'.claims = cs /\ press' = Append(ps, e)
  BY <1>4, <1>5
<1> QED
  BY <1>7, <1>8, <1>9 DEF WarrantyInv

LEMMA QuietKeeps ==
  ASSUME WarrantyInv, page' \in PageRecord, page'.claims = page.claims, press' \in Seq(PressRecord),
         Quieter(press, press')
  PROVE  WarrantyInv'
<1>1. PICK cs, ps, as : cs = page.claims /\ ps = press /\ as = press'
  OBVIOUS
<1>2. PanelFacts(cs, ps) /\ Quieter(ps, as)
  BY <1>1 DEF WarrantyInv
<1>4. PanelFacts(cs, as)
  BY <1>2, QuietFacts
<1>5. WarrantyTyped'
  BY DEF WarrantyInv, WarrantyTyped, Quieter
<1> QED
  BY <1>1, <1>4, <1>5 DEF WarrantyInv

\* A button sends a call and waits for it.
LEMMA PressKeeps ==
  ASSUME WarrantyInv,
         \/ PressRegister \/ PressVoid
         \/ \E c \in ClaimId : PressFileClaim(c) \/ \E s \in Status : PressStatus(c, s)
  PROVE  WarrantyInv'
<1>0. page \in PageRecord /\ press \in Seq(PressRecord)
  BY DEF WarrantyInv, WarrantyTyped
<1>1. CASE PressRegister
  <2>1. page' \in PageRecord /\ page'.claims = page.claims
    BY <1>0, <1>1 DEF PressRegister, PageRecord, WarrantyOp
  <2>2. Call("register", "none", "none")
    BY <1>1 DEF PressRegister
  <2> QED
    BY <2>1, <2>2, CallKeeps DEF WarrantyOp
<1>2. CASE PressVoid
  <2>1. page' \in PageRecord /\ page'.claims = page.claims
    BY <1>0, <1>2 DEF PressVoid, PageRecord, WarrantyOp
  <2>2. Call("void", "none", "none")
    BY <1>2 DEF PressVoid
  <2> QED
    BY <2>1, <2>2, CallKeeps DEF WarrantyOp
<1>3. ASSUME NEW c \in ClaimId, PressFileClaim(c) PROVE WarrantyInv'
  <2>1. page' \in PageRecord /\ page'.claims = page.claims
    BY <1>0, <1>3 DEF PressFileClaim, PageRecord, WarrantyOp
  <2>2. Call("file", c, "Pending") /\ \A i \in DOMAIN press : press[i].claim # c
    BY <1>3 DEF PressFileClaim
  <2>3. ~HasClaim(page.claims, c)
    BY <1>3 DEF PressFileClaim, ShowsClaim, HasClaim
  <2> QED
    BY <2>1, <2>2, <2>3, CallKeeps DEF WarrantyOp
<1>4. ASSUME NEW c \in ClaimId, NEW s \in Status, PressStatus(c, s) PROVE WarrantyInv'
  <2>1. page' \in PageRecord /\ page'.claims = page.claims
    BY <1>0, <1>4 DEF PressStatus, PageRecord
  <2>2. Call("update", c, s)
    BY <1>4 DEF PressStatus
  <2>3. HasClaim(page.claims, c)
    <3>1. PICK k \in DOMAIN page.claims : page.claims[k] = Claim(c, "Pending")
      BY <1>4 DEF PressStatus, ToSet
    <3> QED
      BY <3>1 DEF Claim, HasClaim
  <2> QED
    BY <2>1, <2>2, <2>3, CallKeeps DEF WarrantyOp
<1> QED
  BY <1>1, <1>2, <1>3, <1>4

\* Forms and the section open and close, and calls are forgotten with them.
LEMMA FormsKeep ==
  ASSUME WarrantyInv, OpenClaimForm \/ CancelClaim \/ Collapse
  PROVE  WarrantyInv'
<1>0. page \in PageRecord /\ press \in Seq(PressRecord)
  BY DEF WarrantyInv, WarrantyTyped
<1>1. page' \in PageRecord /\ page'.claims = page.claims
  <2>1. CASE OpenClaimForm
    BY <1>0, <2>1 DEF OpenClaimForm, PageRecord
  <2>2. CASE CancelClaim
    BY <1>0, <2>2 DEF CancelClaim, PageRecord
  <2>3. CASE Collapse
    <3>1. PICK b \in PageRecord : b = page
      BY <1>0
    <3>2. PICK c : c = b.busy \cap {"void"}
      OBVIOUS
    <3>3. c \in SUBSET WarrantyOp
      BY <3>2 DEF WarrantyOp
    <3>4. page' = [[b EXCEPT !.busy = c] EXCEPT !.updating = "none"]
      BY <2>3, <3>1, <3>2 DEF Collapse, PageRecord
    <3> QED
      BY <3>1, <3>3, <3>4 DEF PageRecord
  <2> QED
    BY <2>1, <2>2, <2>3
<1>2. CASE OpenClaimForm \/ CancelClaim
  <2>1. UNCHANGED press
    BY <1>2 DEF OpenClaimForm, CancelClaim
  <2> QED
    BY <1>0, <1>1, <2>1, QuietKeeps DEF Quieter
<1>3. CASE Collapse
  <2>1. press' = [i \in DOMAIN press |-> IF press[i].op # "void"
                                         THEN [press[i] EXCEPT !.mounted = FALSE] ELSE press[i]]
    BY <1>3 DEF Collapse
  <2>2. ASSUME NEW i \in DOMAIN press
        PROVE  /\ press'[i] \in PressRecord /\ press'[i].op = press[i].op
               /\ press'[i].claim = press[i].claim /\ press'[i].status = press[i].status
               /\ press'[i].at = press[i].at
    <3>1. PICK p \in PressRecord : p = press[i]
      BY <1>0
    <3>2. PICK m : m = [p EXCEPT !.mounted = FALSE]
      OBVIOUS
    <3>3. m \in PressRecord /\ m.op = p.op /\ m.claim = p.claim /\ m.status = p.status /\ m.at = p.at
      BY <3>2 DEF PressRecord
    <3>4. press'[i] = IF p.op # "void" THEN m ELSE p
      BY <2>1, <3>1, <3>2
    <3> QED
      BY <3>1, <3>3, <3>4
  <2>3. press' \in Seq(PressRecord) /\ DOMAIN press' = DOMAIN press
    <3>1. PICK n \in Nat : n = Len(press) /\ DOMAIN press = 1..n
      BY <1>0
    <3>2. press' = [i \in 1..n |-> press'[i]]
      BY <2>1, <3>1
    <3> QED
      BY <2>1, <2>2, <3>1, <3>2
  <2> QED
    BY <1>1, <2>2, <2>3, QuietKeeps DEF Quieter
<1> QED
  BY <1>2, <1>3

\* A page that is loaded was told of nothing yet.
LEMMA PagesAre ==
  ASSUME NEW p \in Pages
  PROVE  p \in PageRecord /\ \A cs : PanelFacts(cs, <<>>)
<1>1. PICK o \in BOOLEAN, w \in {"none", "valid", "voided"},
           cs \in UNION {[1..n -> ClaimRecord] : n \in 0..MaxLoaded} : p = Loaded(o, w, cs)
  BY DEF Pages
<1>2. PICK n \in 0..MaxLoaded : cs \in [1..n -> ClaimRecord]
  BY <1>1
<1>3. cs \in Seq(ClaimRecord)
  BY <1>2, WarrantyAssumption
<1>4. p \in PageRecord
  BY <1>1, <1>3 DEF Loaded, PageRecord
<1>5. \A ds : PanelFacts(ds, <<>>)
  BY DEF PanelFacts, FiledOnce, ShownAsCalled, ShownAsTold, ToldBy
<1> QED
  BY <1>4, <1>5

LEMMA ReloadKeeps == ASSUME page' \in Pages, press' = <<>> PROVE WarrantyInv'
<1>1. PICK p \in Pages : p = page'
  OBVIOUS
<1> QED
  BY <1>1, PagesAre DEF WarrantyInv, WarrantyTyped

LEMMA NotWaitingIs ==
  ASSUME NEW b \in PageRecord, NEW r \in PressRecord
  PROVE  NotWaiting(b, r) \in PageRecord /\ NotWaiting(b, r).claims = b.claims
<1>1. PICK u : u = [b EXCEPT !.updating = "none"]
  OBVIOUS
<1>2. u \in PageRecord /\ u.claims = b.claims
  BY <1>1 DEF PageRecord
<1>3. PICK v : v = [b EXCEPT !.busy = @ \ {r.op}]
  OBVIOUS
<1>4. v \in PageRecord /\ v.claims = b.claims
  BY <1>3 DEF PageRecord
<1>5. NotWaiting(b, r) \in {b, u, v}
  BY <1>1, <1>3 DEF NotWaiting
<1> QED
  BY <1>2, <1>4, <1>5

LEMMA FunctionOf == \A S, s : s \in Seq(S) => s \in [DOMAIN s -> S]
  OBVIOUS

\* The calls after one of them is answered.
LEMMA AnsweredIs ==
  ASSUME NEW ps \in Seq(PressRecord), NEW i \in DOMAIN ps, NEW m \in PressRecord,
         NEW as, as = [ps EXCEPT ![i] = m]
  PROVE  /\ as \in Seq(PressRecord) /\ DOMAIN as = DOMAIN ps /\ as[i] = m
         /\ \A j \in DOMAIN ps \ {i} : as[j] = ps[j]
<1>1. as \in Seq(PressRecord)
  BY ExceptKeepsSeq
<1>2. ps \in [DOMAIN ps -> PressRecord]
  BY FunctionOf
<1> QED
  BY <1>1, <1>2

LEMMA FailureKeeps ==
  ASSUME WarrantyInv, NEW i \in DOMAIN press, AnswerFailure(i)
  PROVE  WarrantyInv'
<1>1. PICK ps \in Seq(PressRecord) : ps = press
  BY DEF WarrantyInv, WarrantyTyped
<1>2. PICK as : as = press'
  OBVIOUS
<1>p. PICK p \in PressRecord : p = ps[i]
  BY <1>1
<1>m. PICK m : m = [p EXCEPT !.at = "failed"]
  OBVIOUS
<1>3. as = [ps EXCEPT ![i] = m] /\ ps[i].at = "sent"
  BY <1>1, <1>2, <1>p, <1>m DEF AnswerFailure
<1>4. /\ as \in Seq(PressRecord) /\ DOMAIN as = DOMAIN ps /\ \A j \in DOMAIN ps \ {i} : as[j] = ps[j]
      /\ as[i].op = ps[i].op /\ as[i].claim = ps[i].claim /\ as[i].status = ps[i].status
      /\ as[i].at = "failed"
  <2>1. m \in PressRecord /\ m.op = p.op /\ m.claim = p.claim /\ m.status = p.status /\ m.at = "failed"
    BY <1>m DEF PressRecord
  <2>2. /\ as \in Seq(PressRecord) /\ DOMAIN as = DOMAIN ps /\ as[i] = m
        /\ \A j \in DOMAIN ps \ {i} : as[j] = ps[j]
    BY <1>1, <1>3, <2>1, AnsweredIs
  <2> QED
    BY <1>p, <2>1, <2>2
<1>5. page' \in PageRecord /\ page'.claims = page.claims
  <2>1. PICK b \in PageRecord, r \in PressRecord : b = page /\ r = press[i]
    BY DEF WarrantyInv, WarrantyTyped
  <2>2. page' = NotWaiting(b, r)
    BY <2>1 DEF AnswerFailure
  <2> QED
    BY <2>1, <2>2, NotWaitingIs
<1>6. \A j \in DOMAIN ps : /\ as[j].op = ps[j].op /\ as[j].claim = ps[j].claim
                           /\ as[j].status = ps[j].status
                           /\ as[j].at = ps[j].at \/ (ps[j].at = "sent" /\ as[j].at = "failed")
  BY <1>3, <1>4
<1>7. press' \in Seq(PressRecord) /\ DOMAIN press' = DOMAIN press
  BY <1>1, <1>2, <1>4
<1> QED
  BY <1>1, <1>2, <1>5, <1>6, <1>7, QuietKeeps DEF Quieter

\* What the page shows after an answer of success.
LEMMA ShownIs ==
  ASSUME NEW b \in PageRecord, NEW r \in PressRecord, r.op = "update" => r.status \in Status,
         r.op = "file" => r.claim \in ClaimId
  PROVE  /\ Shown(b, r) \in PageRecord
         /\ r.op = "file" => Shown(b, r).claims = Append(b.claims, Claim(r.claim, "Pending"))
         /\ r.op = "update" => Shown(b, r).claims = ShowStatus(b.claims, r)
         /\ r.op \notin {"file", "update"} => Shown(b, r).claims = b.claims
<1>1. PICK cs \in Seq(ClaimRecord) : cs = b.claims
  BY DEF PageRecord
<1>2. CASE r.op = "register"
  <2>1. Shown(b, r) = [b EXCEPT !.warranty = "valid"]
    BY <1>2 DEF Shown
  <2> QED
    BY <1>2, <2>1 DEF PageRecord
<1>3. CASE r.op = "void"
  <2>1. Shown(b, r) = [b EXCEPT !.warranty = "voided"]
    BY <1>3 DEF Shown
  <2> QED
    BY <1>3, <2>1 DEF PageRecord
<1>4. CASE r.op = "file"
  <2>1. PICK ds : ds = Append(cs, Claim(r.claim, "Pending"))
    OBVIOUS
  <2>2. ds \in Seq(ClaimRecord)
    BY <1>4, <2>1 DEF Claim, ClaimRecord
  <2>3. Shown(b, r) = [[b EXCEPT !.claims = ds] EXCEPT !.claimForm = FALSE]
    BY <1>1, <1>4, <2>1 DEF Shown, PageRecord
  <2> QED
    BY <1>1, <1>4, <2>1, <2>2, <2>3 DEF PageRecord
<1>5. CASE r.op = "update"
  <2>1. PICK ds : ds = ShowStatus(cs, r)
    OBVIOUS
  <2>2. ds \in Seq(ClaimRecord)
    BY <1>5, <2>1, ShowStatusIs
  <2>3. Shown(b, r) = [b EXCEPT !.claims = ds]
    BY <1>1, <1>5, <2>1 DEF Shown
  <2> QED
    BY <1>1, <1>5, <2>1, <2>2, <2>3 DEF PageRecord
<1>6. r.op \in WarrantyOp
  BY DEF PressRecord
<1> QED
  BY <1>2, <1>3, <1>4, <1>5, <1>6 DEF WarrantyOp

LEMMA SuccessKeeps ==
  ASSUME WarrantyInv, NEW i \in DOMAIN press, AnswerSuccess(i)
  PROVE  WarrantyInv'
<1>1. PICK ps \in Seq(PressRecord) : ps = press
  BY DEF WarrantyInv, WarrantyTyped
<1>2. PICK as : as = press'
  OBVIOUS
<1>p. PICK p \in PressRecord : p = ps[i]
  BY <1>1
<1>m. PICK m : m = [p EXCEPT !.at = "succeeded"]
  OBVIOUS
<1>3. as = [ps EXCEPT ![i] = m] /\ ps[i].at = "sent"
  BY <1>1, <1>2, <1>p, <1>m DEF AnswerSuccess
<1>4. /\ as \in Seq(PressRecord) /\ DOMAIN as = DOMAIN ps /\ \A j \in DOMAIN ps \ {i} : as[j] = ps[j]
      /\ as[i].op = ps[i].op /\ as[i].claim = ps[i].claim /\ as[i].status = ps[i].status
      /\ as[i].at = "succeeded"
  <2>1. m \in PressRecord /\ m.op = p.op /\ m.claim = p.claim /\ m.status = p.status /\ m.at = "succeeded"
    BY <1>m DEF PressRecord
  <2>2. /\ as \in Seq(PressRecord) /\ DOMAIN as = DOMAIN ps /\ as[i] = m
        /\ \A j \in DOMAIN ps \ {i} : as[j] = ps[j]
    BY <1>1, <1>3, <2>1, AnsweredIs
  <2> QED
    BY <1>p, <2>1, <2>2
<1>5. Succeeds(ps, i, as)
  BY <1>1, <1>3, <1>4 DEF Succeeds
<1>6. PICK b \in PageRecord, r \in PressRecord : b = page /\ r = ps[i]
  BY <1>1 DEF WarrantyInv, WarrantyTyped
<1>7. /\ r.op \in {"file", "update"} => r.claim \in ClaimId
      /\ r.op = "update" => r.status \in Status
  BY <1>1, <1>6 DEF WarrantyInv, WarrantyTyped
<1>8. PICK d : d = Shown(b, r)
  OBVIOUS
<1>9. /\ d \in PageRecord
      /\ r.op = "file" => d.claims = Append(b.claims, Claim(r.claim, "Pending"))
      /\ r.op = "update" => d.claims = ShowStatus(b.claims, r)
      /\ r.op \notin {"file", "update"} => d.claims = b.claims
  BY <1>7, <1>8, ShownIs
<1>10. page' = NotWaiting(d, r)
  BY <1>1, <1>6, <1>8 DEF AnswerSuccess
<1>11. page' \in PageRecord /\ page'.claims = d.claims
  BY <1>9, <1>10, NotWaitingIs
<1>12. PICK cs \in Seq(ClaimRecord) : cs = b.claims
  BY DEF PageRecord
<1>13. PanelFacts(cs, ps)
  BY <1>1, <1>6, <1>12 DEF WarrantyInv
<1>14. PanelFacts(d.claims, as)
  <2>1. CASE r.op = "file"
    <3>1. PICK e : e = Claim(r.claim, "Pending")
      OBVIOUS
    <3>2. e \in ClaimRecord /\ e.id = r.claim
      BY <1>7, <2>1, <3>1 DEF Claim, ClaimRecord
    <3>3. PanelFacts(Append(cs, e), as)
      BY <1>5, <1>6, <1>13, <2>1, <3>2, FiledFacts
    <3> QED
      BY <1>9, <1>12, <2>1, <3>1, <3>3
  <2>2. CASE r.op = "update"
    <3>1. PanelFacts(ShowStatus(cs, r), as)
      BY <1>5, <1>6, <1>7, <1>13, <2>2, UpdatedFacts
    <3> QED
      BY <1>9, <1>12, <2>2, <3>1
  <2>3. CASE r.op \notin {"file", "update"}
    <3>1. PanelFacts(cs, as)
      BY <1>5, <1>6, <1>13, <2>3, OtherFacts
    <3> QED
      BY <1>9, <1>12, <2>3, <3>1
  <2> QED
    BY <2>1, <2>2, <2>3
<1>15. WarrantyTyped'
  <2>1. \A j \in DOMAIN ps : /\ ps[j].op \in {"file", "update"} => ps[j].claim \in ClaimId
                             /\ ps[j].op = "update" => ps[j].status \in Status
    BY <1>1 DEF WarrantyInv, WarrantyTyped
  <2>2. \A j \in DOMAIN as : /\ as[j].op \in {"file", "update"} => as[j].claim \in ClaimId
                             /\ as[j].op = "update" => as[j].status \in Status
    BY <1>4, <2>1
  <2> QED
    BY <1>2, <1>4, <1>11, <2>2 DEF WarrantyTyped
<1>16. page'.claims = d.claims /\ press' = as
  BY <1>2, <1>11
<1> QED
  BY <1>14, <1>15, <1>16 DEF WarrantyInv

LEMMA WarrantyStart == ASSUME page \in Pages, press = <<>> PROVE WarrantyInv
  BY PagesAre DEF WarrantyInv, WarrantyTyped

LEMMA WarrantyStep == ASSUME WarrantyInv, WarrantyNext PROVE WarrantyInv'
  BY PressKeeps, FormsKeep, ReloadKeeps, FailureKeeps, SuccessKeeps DEF WarrantyNext, ReloadPage

LEMMA WarrantyIdle == ASSUME WarrantyInv, UNCHANGED warrantyVars PROVE WarrantyInv'
  BY DEF WarrantyInv, WarrantyTyped, warrantyVars

\* What the page was told of a claim stays shown, for any page, claims, statuses and
\* calls: a claim whose filing was answered with success is in the list, and one whose
\* decision was shows a decision the page was told of (WarrantyPanel.tsx:365-381).
THEOREM ToldShown == Spec => []ToldStaysShown
<1>1. Init => WarrantyInv
  BY WarrantyStart DEF Init, WarrantyInit
<1>2. WarrantyInv /\ [Next]_flowsVars => WarrantyInv'
  BY WarrantyStep, WarrantyIdle DEF Next, Only, flowsVars
<1>3. WarrantyInv => ToldStaysShown
  <2> SUFFICES ASSUME WarrantyInv, NEW i \in DOMAIN press, press[i].at = "succeeded",
                      press[i].op \in {"file", "update"}, NEW c, c = press[i].claim
               PROVE  /\ ShowsClaim(c)
                      /\ \A k \in DOMAIN page.claims :
                           page.claims[k].id = c /\ Told(c) # {} => page.claims[k].status \in Told(c)
    BY DEF ToldStaysShown
  <2>1. \A s : s \in Told(c) <=> ToldBy(press, c, s)
    BY DEF Told, ToldBy, Tells
  <2>2. HasClaim(page.claims, c)
    BY DEF WarrantyInv, PanelFacts, ShownAsCalled
  <2>3. ASSUME NEW k \in DOMAIN page.claims, page.claims[k].id = c, Told(c) # {}
        PROVE  page.claims[k].status \in Told(c)
    <3>1. PICK s : ToldBy(press, c, s)
      BY <2>1, <2>3
    <3>2. ToldBy(press, c, page.claims[k].status)
      BY <2>3, <3>1 DEF WarrantyInv, PanelFacts, ShownAsTold
    <3> QED
      BY <2>1, <3>2
  <2> QED
    BY <2>2, <2>3 DEF ShowsClaim, HasClaim
<1> QED
  BY <1>1, <1>2, <1>3, PTL DEF Spec
=============================================================================
