--------------------------- MODULE BackgroundProofs ---------------------------
(***************************************************************************)
(* The job queue: a job enqueued under a fresh id is in one place at most, *)
(* and it and its retries together are attempted no more than maxAttempts  *)
(* times: for any number of requests, workers and attempts, whoever dies.  *)
(* The indexer: nothing behind the cursor is missed, and ticks that come   *)
(* one by one index an event once: for any page size, any number of ticks  *)
(* and any chain, whichever tick dies.                                     *)
(***************************************************************************)
EXTENDS Background, SequenceTheorems, FiniteSetTheorems, WellFoundedInduction, TLAPS

-----------------------------------------------------------------------------
(* What every state is made of *)

AnyId == Seq(Key \cup Nat) \ {<<>>}
AnyJob == [status : Status, attempts : Nat, maxAttempts : Int]
CallRecord == [at : {"ready", "check", "save", "push", "done"}, id : AnyId \cup {<<>>}, maxAttempts : Int]
WorkerRecord == [at : Phases \cup {"idle", "load", "handler", "enqueue", "dlq"},
                 id : AnyId \cup {<<>>}, job : AnyJob \cup {NoJob}, copy : AnyJob \cup {NoJob}]

\* A request enqueues its own key, a worker a retry of the job it has in hand.
CallFits(p) ==
  /\ call[p].id = <<>> <=> call[p].at \in {"ready", "done"}
  /\ p \in Producer /\ call[p].id # <<>> => \E k \in Key : call[p].id = <<k>>
  /\ p \in Worker /\ call[p].id # <<>> =>
       worker[p].at = "enqueue" /\ Root(call[p].id) = Root(worker[p].id)

\* A worker past the load has the job, and its record is there.
WorkerFits(v) ==
  /\ v.at # "idle" => v.id # <<>>
  /\ v.at \notin {"idle", "load"} => v.job \in AnyJob /\ Saved(v.id)
  /\ v.copy # NoJob => v.at \in Phases

Typed ==
  /\ \A id \in DOMAIN jobs : id \in AnyId /\ jobs[id] \in AnyJob
  /\ queue \in Seq(AnyId) /\ dlq \in Seq(AnyId)
  /\ call \in [Process -> CallRecord] /\ worker \in [Worker -> WorkerRecord]
  /\ runs \in [Key -> Nat]
  /\ \A p \in Process : CallFits(p)
  /\ \A w \in Worker : WorkerFits(worker[w])

\* A retry's id is an id of the same root.
LEMMA RetryKeepsRoot ==
  ASSUME NEW id \in AnyId, NEW n \in Nat
  PROVE  RetryId(id, n) \in AnyId /\ Root(RetryId(id, n)) = Root(id)
<1>1. Append(id, n) \in Seq(Key \cup Nat) /\ Append(id, n) # <<>> /\ Head(Append(id, n)) = Head(id)
  BY DEF AnyId
<1> QED
  BY <1>1 DEF RetryId, Root, AnyId

\* A key alone is an id.
LEMMA KeyIsId == ASSUME NEW k \in Key PROVE <<k>> \in AnyId /\ Root(<<k>>) = k
  BY DEF AnyId, Root

\* What the patch of an update writes is a job.
LEMMA PatchTyped ==
  ASSUME Typed, NEW w \in Worker, worker[w].copy # NoJob
  PROVE  Patched(w) \in AnyJob
<1>1. worker[w] \in WorkerRecord /\ WorkerFits(worker[w])
  BY DEF Typed
<1>2. worker[w].copy \in AnyJob /\ worker[w].at \in Phases /\ worker[w].job \in AnyJob
  BY <1>1 DEF WorkerRecord, WorkerFits, Phases
<1>3. Attempt(w) \in Nat
  BY <1>2 DEF Attempt, AnyJob
<1> QED
  BY <1>2, <1>3 DEF Patched, Phases, AnyJob, Status

\* Saving a job changes that record only.
LEMMA SaveTyped ==
  ASSUME \A id \in DOMAIN jobs : id \in AnyId /\ jobs[id] \in AnyJob,
         NEW x \in AnyId, NEW j \in AnyJob, Save(x, j)
  PROVE  /\ \A id \in DOMAIN jobs' : id \in AnyId /\ jobs'[id] \in AnyJob
         /\ DOMAIN jobs' = DOMAIN jobs \cup {x} /\ jobs'[x] = j
         /\ \A id \in DOMAIN jobs : id # x => jobs'[id] = jobs[id]
  BY DEF Save

\* One process's call changes, and, of a worker, its state.
LEMMA ProcessMoves ==
  ASSUME Typed, NEW p \in Process, DOMAIN jobs \subseteq DOMAIN jobs',
         NEW c \in CallRecord, NEW v \in WorkerRecord,
         call' = [call EXCEPT ![p] = c],
         \/ p \in Worker /\ worker' = [worker EXCEPT ![p] = v] /\ WorkerFits(v)'
         \/ worker' = worker /\ (p \in Worker => v = worker[p]),
         c.id = <<>> <=> c.at \in {"ready", "done"},
         p \in Producer /\ c.id # <<>> => \E k \in Key : c.id = <<k>>,
         p \in Worker /\ c.id # <<>> => v.at = "enqueue" /\ Root(c.id) = Root(v.id)
  PROVE  /\ call' \in [Process -> CallRecord] /\ worker' \in [Worker -> WorkerRecord]
         /\ \A q \in Process : CallFits(q)'
         /\ \A w \in Worker : WorkerFits(worker[w])'
<1>1. call' \in [Process -> CallRecord] /\ worker' \in [Worker -> WorkerRecord]
  BY DEF Typed
<1>2. p \in Worker => worker'[p] = v
  BY DEF Typed
<1>3. \A w \in Worker : w # p => worker'[w] = worker[w]
  BY DEF Typed
<1>4. call'[p] = c /\ \A q \in Process : q # p => call'[q] = call[q]
  BY DEF Typed
<1>5. ASSUME NEW q \in Process PROVE CallFits(q)'
  <2>1. CASE q = p
    BY <1>2, <1>4, <2>1 DEF CallFits
  <2>2. CASE q # p
    BY <1>3, <1>4, <2>2 DEF CallFits, Typed
  <2> QED
    BY <2>1, <2>2
<1>6. ASSUME NEW w \in Worker PROVE WorkerFits(worker[w])'
  <2>1. CASE worker'[w] = worker[w]
    BY <2>1 DEF WorkerFits, Typed, Saved
  <2>2. CASE worker'[w] # worker[w]
    <3>1. w = p /\ worker'[w] = v /\ WorkerFits(v)'
      BY <1>2, <1>3, <2>2
    <3> QED
      BY <3>1 DEF WorkerFits
  <2> QED
    BY <2>1, <2>2
<1> QED
  BY <1>1, <1>5, <1>6

-----------------------------------------------------------------------------
(* The steps keep that *)

\* Returning from enqueue leaves nothing in hand.
LEMMA ReturnTyped ==
  ASSUME Typed, NEW p \in Process, Return(p), DOMAIN jobs \subseteq DOMAIN jobs'
  PROVE  /\ call' \in [Process -> CallRecord] /\ worker' \in [Worker -> WorkerRecord]
         /\ \A q \in Process : CallFits(q)'
         /\ \A w \in Worker : WorkerFits(worker[w])'
<1> DEFINE c == NoCall("done")
<1>1. c \in CallRecord /\ c.id = <<>> /\ c.at = "done" /\ Idle \in WorkerRecord
  BY DEF NoCall, CallRecord, Idle, WorkerRecord
<1>2. WorkerFits(Idle)'
  BY DEF WorkerFits, Idle
<1>3. call' = [call EXCEPT ![p] = c]
  BY DEF Return
<1>4. CASE p \in Worker
  <2>1. worker' = [worker EXCEPT ![p] = Idle]
    BY <1>4 DEF Return, Typed
  <2> HIDE DEF c
  <2> QED
    BY <1>1, <1>2, <1>3, <1>4, <2>1, ProcessMoves
<1>5. CASE p \notin Worker
  <2>1. worker' = worker
    BY <1>5 DEF Return, Typed
  <2> HIDE DEF c
  <2> QED
    BY <1>1, <1>3, <1>5, <2>1, ProcessMoves
<1> QED
  BY <1>4, <1>5

\* A call moves on within enqueue: its id stays.
LEMMA AtMoves ==
  ASSUME Typed, NEW p \in Process, NEW at \in {"check", "save", "push"}, call[p].id # <<>>,
         call' = [call EXCEPT ![p].at = at], worker' = worker, DOMAIN jobs \subseteq DOMAIN jobs'
  PROVE  /\ call' \in [Process -> CallRecord] /\ worker' \in [Worker -> WorkerRecord]
         /\ \A q \in Process : CallFits(q)'
         /\ \A w \in Worker : WorkerFits(worker[w])'
<1>1. PICK c : c = [call[p] EXCEPT !.at = at]
  OBVIOUS
<1>2. call[p] \in CallRecord /\ CallFits(p)
  BY DEF Typed
<1>3. c \in CallRecord /\ c.id = call[p].id /\ c.at = at
  BY <1>1, <1>2 DEF CallRecord
<1>4. call' = [call EXCEPT ![p] = c]
  BY <1>1
<1>5. PICK v \in WorkerRecord : p \in Worker => v = worker[p]
  <2>1. Idle \in WorkerRecord
    BY DEF Idle, WorkerRecord
  <2>2. p \in Worker => worker[p] \in WorkerRecord
    BY DEF Typed
  <2> QED
    BY <2>1, <2>2
<1>6. p \in Producer /\ c.id # <<>> => \E k \in Key : c.id = <<k>>
  BY <1>2, <1>3 DEF CallFits
<1>7. p \in Worker /\ c.id # <<>> => v.at = "enqueue" /\ Root(c.id) = Root(v.id)
  BY <1>2, <1>3, <1>5 DEF CallFits
<1>8. c.id = <<>> <=> c.at \in {"ready", "done"}
  BY <1>3
<1> QED
  BY <1>3, <1>4, <1>5, <1>6, <1>7, <1>8, ProcessMoves

\* Only a worker's own state changes, and its call has no id unless it stays.
LEMMA WorkerMoves ==
  ASSUME Typed, NEW w \in Worker, NEW v \in WorkerRecord, WorkerFits(v)',
         worker' = [worker EXCEPT ![w] = v], call' = call, DOMAIN jobs \subseteq DOMAIN jobs',
         worker[w].at # "enqueue"
  PROVE  /\ call' \in [Process -> CallRecord] /\ worker' \in [Worker -> WorkerRecord]
         /\ \A q \in Process : CallFits(q)'
         /\ \A u \in Worker : WorkerFits(worker[u])'
<1>1. w \in Process /\ call[w] \in CallRecord /\ CallFits(w) /\ call' = [call EXCEPT ![w] = call[w]]
  BY DEF Typed, Process
<1>2. w \notin Producer
  BY ProcessAssumption
<1>3. call[w].id = <<>> /\ call[w].at \in {"ready", "done"}
  BY <1>1 DEF CallFits
<1> QED
  BY <1>1, <1>2, <1>3, ProcessMoves

\* Requests and their calls.
LEMMA CallsTyped ==
  ASSUME Typed, NEW p \in Process,
         \/ p \in Producer /\ \E k \in Key : Request(p, k)
         \/ EnqueueStep(p)
         \/ Die(p)
  PROVE  Typed'
<1>1. CASE p \in Producer /\ \E k \in Key : Request(p, k)
  <2>1. PICK k \in Key : Request(p, k)
    BY <1>1
  <2>2. PICK c : c = [at |-> "check", id |-> <<k>>, maxAttempts |-> MaxAttempts]
    OBVIOUS
  <2>3. c \in CallRecord /\ c.id = <<k>> /\ c.at = "check" /\ <<k>> # <<>>
    BY <2>2, KeyIsId, AttemptsAssumption DEF CallRecord
  <2>4. call' = [call EXCEPT ![p] = c] /\ worker' = worker /\ jobs' = jobs
    BY <2>1, <2>2 DEF Request, Enqueue
  <2>5. p \notin Worker
    BY <1>1, ProcessAssumption
  <2>6. Idle \in WorkerRecord
    BY DEF Idle, WorkerRecord
  <2> QED
    BY <1>1, <2>1, <2>3, <2>4, <2>5, <2>6, ProcessMoves DEF Typed, Request
<1>2. CASE CheckExisting(p)
  <2>1. jobs' = jobs /\ queue' = queue /\ dlq' = dlq /\ runs' = runs
    BY <1>2 DEF CheckExisting
  <2>2. call[p].id # <<>>
    BY <1>2 DEF CheckExisting, Typed, CallFits
  <2>3. CASE Return(p)
    BY <2>1, <2>3, ReturnTyped DEF Typed
  <2>4. CASE call' = [call EXCEPT ![p].at = "save"] /\ UNCHANGED worker
    BY <2>1, <2>2, <2>4, AtMoves DEF Typed
  <2> QED
    BY <1>2, <2>3, <2>4 DEF CheckExisting
<1>3. CASE SaveJob(p)
  <2>1. call[p].id \in AnyId /\ call[p] \in CallRecord /\ call[p].id # <<>>
    BY <1>3 DEF SaveJob, Typed, CallFits, CallRecord
  <2>2. PICK j : j = [status |-> "pending", attempts |-> 0, maxAttempts |-> call[p].maxAttempts]
    OBVIOUS
  <2>3. j \in AnyJob
    BY <2>1, <2>2 DEF AnyJob, CallRecord, Status
  <2>4. Save(call[p].id, j) /\ call' = [call EXCEPT ![p].at = "push"] /\ worker' = worker
        /\ queue' = queue /\ dlq' = dlq /\ runs' = runs
    BY <1>3, <2>2 DEF SaveJob
  <2>5. /\ \A id \in DOMAIN jobs' : id \in AnyId /\ jobs'[id] \in AnyJob
        /\ DOMAIN jobs \subseteq DOMAIN jobs'
    BY <2>1, <2>3, <2>4, SaveTyped DEF Typed
  <2>6. /\ call' \in [Process -> CallRecord] /\ worker' \in [Worker -> WorkerRecord]
        /\ \A q \in Process : CallFits(q)'
        /\ \A w \in Worker : WorkerFits(worker[w])'
    BY <2>1, <2>4, <2>5, AtMoves
  <2> QED
    BY <2>4, <2>5, <2>6 DEF Typed
<1>4. CASE PushPending(p)
  <2>1. call[p].id \in AnyId
    BY <1>4 DEF PushPending, Typed, CallFits, CallRecord
  <2> QED
    BY <1>4, <2>1, ReturnTyped DEF PushPending, Typed
<1>5. CASE Die(p)
  BY <1>5, ReturnTyped DEF Die, Typed
<1> QED
  BY <1>1, <1>2, <1>3, <1>4, <1>5 DEF EnqueueStep

\* The steps of a worker.
LEMMA WorkerTyped ==
  ASSUME Typed, NEW w \in Worker, WorkerStep(w)
  PROVE  Typed'
<1> USE DEF Phases
<1>0. worker[w] \in WorkerRecord /\ WorkerFits(worker[w]) /\ w \in Process
  BY DEF Typed, Process
<1>1. CASE Dequeue(w)
  <2>1. PICK v : v = [Idle EXCEPT !.at = "load", !.id = Head(queue)]
    OBVIOUS
  <2>2. Head(queue) \in AnyId /\ Tail(queue) \in Seq(AnyId) /\ Head(queue) # <<>>
    BY <1>1 DEF Dequeue, Typed, AnyId
  <2>3. v \in WorkerRecord /\ v.id # <<>> /\ v.at = "load" /\ v.copy = NoJob
    BY <2>1, <2>2 DEF Idle, WorkerRecord
  <2>4. WorkerFits(v)'
    BY <2>3 DEF WorkerFits
  <2> QED
    BY <1>1, <2>1, <2>2, <2>3, <2>4, WorkerMoves DEF Dequeue, Typed
<1>2. CASE LoadJob(w)
  <2>1. CASE Saved(worker[w].id)
    <3>1. PICK v : v = IF jobs[worker[w].id].status = "pending"
                       THEN [worker[w] EXCEPT !.at = "start", !.job = jobs[worker[w].id]] ELSE Idle
      OBVIOUS
    <3>2. jobs[worker[w].id] \in AnyJob /\ worker[w].id # <<>> /\ worker[w].at = "load"
      BY <1>0, <1>2, <2>1 DEF LoadJob, Typed, Saved, WorkerFits
    <3>3. v \in WorkerRecord /\ WorkerFits(v)'
      BY <1>0, <1>2, <2>1, <3>1, <3>2 DEF LoadJob, WorkerRecord, WorkerFits, Idle, Saved
    <3> QED
      BY <1>2, <2>1, <3>1, <3>2, <3>3, WorkerMoves DEF LoadJob, Typed
  <2>2. CASE ~Saved(worker[w].id)
    <3>1. Idle \in WorkerRecord /\ WorkerFits(Idle)'
      BY DEF WorkerRecord, WorkerFits, Idle
    <3> QED
      BY <1>2, <2>2, <3>1, WorkerMoves DEF LoadJob, Typed
  <2> QED
    BY <2>1, <2>2
<1>3. CASE ReadForUpdate(w)
  <2>1. PICK v : v = [worker[w] EXCEPT !.copy = jobs[worker[w].id]]
    OBVIOUS
  <2>2. jobs[worker[w].id] \in AnyJob /\ worker[w].at \in Phases
    BY <1>0, <1>3 DEF ReadForUpdate, Typed, Saved, WorkerFits
  <2>3. v \in WorkerRecord /\ v.at = worker[w].at /\ v.id = worker[w].id /\ v.job = worker[w].job
    BY <1>0, <2>1, <2>2 DEF WorkerRecord
  <2>4. WorkerFits(v)'
    BY <1>0, <1>3, <2>2, <2>3 DEF WorkerFits, ReadForUpdate, Saved
  <2>5. worker' = [worker EXCEPT ![w] = v] /\ worker[w].at # "enqueue"
    BY <1>3, <2>1 DEF ReadForUpdate
  <2>6. call' = call /\ jobs' = jobs /\ queue' = queue /\ dlq' = dlq /\ runs' = runs
    BY <1>3 DEF ReadForUpdate
  <2> QED
    BY <2>3, <2>4, <2>5, <2>6, WorkerMoves DEF Typed
<1>4. CASE WriteUpdate(w)
  <2>0. worker[w].at \in Phases /\ worker[w].id \in AnyId /\ worker[w].id # <<>>
        /\ worker[w].job \in AnyJob /\ worker[w].copy # NoJob /\ Saved(worker[w].id)
    BY <1>0, <1>4 DEF WriteUpdate, WorkerFits, WorkerRecord
  <2>1. PICK j \in AnyJob : Save(worker[w].id, j)
    BY <1>4, PatchTyped DEF WriteUpdate
  <2>2. /\ \A id \in DOMAIN jobs' : id \in AnyId /\ jobs'[id] \in AnyJob
        /\ DOMAIN jobs \subseteq DOMAIN jobs'
    BY <2>0, <2>1, SaveTyped, ZenonT(40) DEF Typed
  <2>3. runs' \in [Key -> Nat] /\ queue' = queue /\ dlq' = dlq
    <3>1. runs \in [Key -> Nat] /\ \A k \in Key : runs[k] + 1 \in Nat
      BY DEF Typed
    <3>2. \A k : [runs EXCEPT ![k] = @ + 1] \in [Key -> Nat]
      BY <3>1
    <3> QED
      BY <1>4, <3>1, <3>2 DEF WriteUpdate
  <2>4. PICK v : v = IF After(w) = "idle" THEN Idle ELSE [worker[w] EXCEPT !.at = After(w), !.copy = NoJob]
    OBVIOUS
  <2>5. After(w) \in {"handler", "fail", "idle", "enqueue", "bury", "dlq"}
    BY <2>0 DEF After
  <2>6. /\ v \in WorkerRecord /\ v.copy = NoJob /\ v.at = After(w)
        /\ v.at # "idle" => v.id = worker[w].id /\ v.job = worker[w].job
    BY <1>0, <2>4, <2>5 DEF Idle, WorkerRecord
  <2>7. WorkerFits(v)'
    BY <2>0, <2>2, <2>6 DEF WorkerFits, Saved
  <2>8. worker' = [worker EXCEPT ![w] = v]
    BY <1>4, <2>4 DEF WriteUpdate
  <2>9. CASE After(w) = "enqueue"
    <3>1. PICK c : c = [at |-> "check", id |-> RetryId(worker[w].id, Attempt(w)), maxAttempts |-> AttemptsLeft(w)]
      OBVIOUS
    <3>2. Attempt(w) \in Nat /\ AttemptsLeft(w) \in Int
      BY <2>0 DEF Attempt, AttemptsLeft, AnyJob
    <3>3. RetryId(worker[w].id, Attempt(w)) \in AnyId /\ Root(RetryId(worker[w].id, Attempt(w))) = Root(worker[w].id)
      BY <2>0, <3>2, RetryKeepsRoot
    <3>4. c \in CallRecord /\ c.at = "check" /\ c.id # <<>> /\ Root(c.id) = Root(worker[w].id)
      BY <3>1, <3>2, <3>3 DEF CallRecord, AnyId
    <3>5. call' = [call EXCEPT ![w] = c] /\ w \notin Producer
      BY <1>4, <2>9, <3>1, ProcessAssumption DEF WriteUpdate, Enqueue
    <3>6. /\ call' \in [Process -> CallRecord] /\ worker' \in [Worker -> WorkerRecord]
          /\ \A q \in Process : CallFits(q)'
          /\ \A u \in Worker : WorkerFits(worker[u])'
      BY <1>0, <2>2, <2>6, <2>7, <2>8, <2>9, <3>4, <3>5, ProcessMoves
    <3> QED
      BY <2>2, <2>3, <3>6 DEF Typed
  <2>10. CASE After(w) # "enqueue"
    <3>1. call' = call /\ worker[w].at # "enqueue"
      BY <1>4, <2>0, <2>10 DEF WriteUpdate
    <3> QED
      BY <2>2, <2>3, <2>6, <2>7, <2>8, <3>1, WorkerMoves DEF Typed
  <2> QED
    BY <2>9, <2>10
<1>5. ASSUME NEW at \in {"complete", "fail", "retry"}, worker[w].at \in {"handler", "complete"},
             worker' = [worker EXCEPT ![w].at = at, ![w].copy = NoJob],
             UNCHANGED <<jobs, queue, dlq, call, runs>>
      PROVE  Typed'
  <2>1. PICK v : v = [worker[w] EXCEPT !.at = at, !.copy = NoJob]
    OBVIOUS
  <2>2. v \in WorkerRecord /\ v.at = at /\ v.id = worker[w].id /\ v.job = worker[w].job /\ v.copy = NoJob
    BY <1>0, <2>1 DEF WorkerRecord
  <2>3. WorkerFits(v)'
    BY <1>0, <1>5, <2>2 DEF WorkerFits, Saved
  <2>4. worker' = [worker EXCEPT ![w] = v] /\ worker[w].at # "enqueue"
    BY <1>5, <2>1
  <2> QED
    BY <1>5, <2>2, <2>3, <2>4, WorkerMoves DEF Typed
<1>6. CASE HandlerSucceeds(w)
  <2>1. worker[w].copy = NoJob /\ worker[w].at = "handler"
    BY <1>0, <1>6 DEF HandlerSucceeds, WorkerFits
  <2>2. worker' = [worker EXCEPT ![w].at = "complete", ![w].copy = NoJob]
    BY <1>0, <1>6, <2>1 DEF HandlerSucceeds, Typed, WorkerRecord
  <2> QED
    BY <1>5, <1>6, <2>1, <2>2 DEF HandlerSucceeds
<1>7. CASE HandlerThrows(w)
  BY <1>5, <1>7 DEF HandlerThrows, Caught
<1>8. CASE PushDlq(w)
  <2>1. worker[w].id \in AnyId
    BY <1>0, <1>8 DEF PushDlq, WorkerFits, WorkerRecord
  <2>2. Idle \in WorkerRecord /\ WorkerFits(Idle)'
    BY DEF WorkerRecord, WorkerFits, Idle
  <2> QED
    <3>1. worker' = [worker EXCEPT ![w] = Idle] /\ worker[w].at # "enqueue" /\ call' = call /\ jobs' = jobs
          /\ queue' = queue /\ dlq' \in Seq(AnyId) /\ runs' = runs
      BY <1>8, <2>1 DEF PushDlq, Typed
    <3> QED
      BY <2>2, <3>1, WorkerMoves DEF Typed
<1> QED
  BY <1>1, <1>2, <1>3, <1>4, <1>6, <1>7, <1>8 DEF WorkerStep

-----------------------------------------------------------------------------
(* Where a job of a fresh key is, and what is left of its attempts *)

Has(p, k) ==
  \/ call[p].id # <<>> /\ Root(call[p].id) = k
  \/ p \in Worker /\ worker[p].at # "idle" /\ Root(worker[p].id) = k
Waits(i, k) == i \in 1..Len(queue) /\ Root(queue[i]) = k
Buried(i, k) == i \in 1..Len(dlq) /\ Root(dlq[i]) = k

Alone(k) ==
  /\ \A p, q \in Process : Has(p, k) /\ Has(q, k) => p = q
  /\ \A i, j \in Nat : Waits(i, k) /\ Waits(j, k) => i = j
  /\ \A i, j \in Nat : Buried(i, k) /\ Buried(j, k) => i = j
  /\ \A p \in Process, i \in Nat : Has(p, k) => ~Waits(i, k) /\ ~Buried(i, k)
  /\ \A i, j \in Nat : ~(Waits(i, k) /\ Buried(j, k))

\* Until the record is there only the request that asked for it has the key.
Backed(k) ==
  \/ Saved(<<k>>)
  \/ /\ runs[k] = 0
     /\ \A i \in Nat : ~Waits(i, k) /\ ~Buried(i, k)
     /\ \A p \in Process : Has(p, k) => p \in Producer /\ call[p].at \in {"check", "save"}

\* The attempts made and those a record still allows make up the whole budget; a
\* worker past its start has made one that its own copy still counts.
Affords(j, k) == j.attempts = 0 /\ j.maxAttempts >= 1 /\ runs[k] + j.maxAttempts = MaxAttempts
Begun(j, k) ==
  /\ j.attempts = 0 /\ j.maxAttempts >= 1
  /\ runs[k] + j.maxAttempts = MaxAttempts + (IF k \in HandledKey THEN 1 ELSE 0)
CallAffords(p, k) ==
  /\ call[p].maxAttempts >= 1 /\ runs[k] + call[p].maxAttempts = MaxAttempts
  /\ call[p].at = "push" => Saved(call[p].id) /\ Affords(jobs[call[p].id], k)
WorkerAffords(p, k) ==
  /\ worker[p].at = "load" => Saved(worker[p].id) /\ Affords(jobs[worker[p].id], k)
  /\ worker[p].at = "start" => Affords(worker[p].job, k)
  /\ worker[p].at \notin {"load", "start"} => Begun(worker[p].job, k)
  /\ worker[p].at \in {"handler", "complete", "retry"} => k \in HandledKey /\ runs[k] >= 1
  /\ worker[p].at = "retry" => worker[p].job.maxAttempts >= 2
  /\ worker[p].at \in {"fail", "bury"} /\ k \in HandledKey => worker[p].job.maxAttempts = 1
Own(p, k) ==
  /\ call[p].id # <<>> /\ Root(call[p].id) = k => CallAffords(p, k)
  /\ p \in Worker /\ worker[p].at # "idle" /\ Root(worker[p].id) = k => WorkerAffords(p, k)

Budget(k) ==
  /\ runs[k] <= MaxAttempts
  /\ \A i \in Nat : Waits(i, k) => Saved(queue[i]) /\ Affords(jobs[queue[i]], k)
  /\ \A p \in Process : Own(p, k)

KeyInv(k) == Alone(k) /\ Backed(k) /\ Budget(k)

\* Every other process is where it was.
Others(p) ==
  \A q \in Process : q # p => call'[q] = call[q] /\ (q \in Worker => worker'[q] = worker[q])

\* What no other process changes it goes on having.
LEMMA OthersHave ==
  ASSUME NEW p \in Process, Others(p), NEW q \in Process, q # p, NEW k
  PROVE  Has(q, k)' <=> Has(q, k)
  BY DEF Others, Has

\* Afterwards one process has the key and nothing else does.
LEMMA Holds ==
  ASSUME NEW k \in FreshKey, NEW p \in Process,
         \A q \in Process : q # p => ~Has(q, k)',
         \A i \in Nat : ~Waits(i, k)' /\ ~Buried(i, k)',
         Own(p, k)', runs'[k] <= MaxAttempts,
         Saved(<<k>>)' \/ (runs'[k] = 0 /\ p \in Producer /\ call'[p].at \in {"check", "save"})
  PROVE  KeyInv(k)'
<1>1. Alone(k)'
  BY DEF Alone
<1>2. Backed(k)'
  BY DEF Backed
<1>3. \A q \in Process : q # p => Own(q, k)'
  BY DEF Own, Has
<1>4. Budget(k)'
  BY <1>3 DEF Budget
<1> QED
  BY <1>1, <1>2, <1>4 DEF KeyInv

\* A process that has the key keeps it.
LEMMA Keeps ==
  ASSUME NEW k \in FreshKey, KeyInv(k), NEW p \in Process, Has(p, k), Others(p),
         queue' = queue, dlq' = dlq, Own(p, k)', runs'[k] <= MaxAttempts,
         Saved(<<k>>)' \/ (runs'[k] = 0 /\ p \in Producer /\ call'[p].at \in {"check", "save"})
  PROVE  KeyInv(k)'
<1>1. \A q \in Process : q # p => ~Has(q, k)
  BY DEF KeyInv, Alone
<1>2. \A q \in Process : q # p => ~Has(q, k)'
  BY <1>1, OthersHave
<1>3. \A i \in Nat : ~Waits(i, k)' /\ ~Buried(i, k)'
  BY DEF KeyInv, Alone, Waits, Buried
<1> QED
  BY <1>2, <1>3, Holds

\* A process that does not have the key afterwards leaves its places alone, up to
\* a shift of the queue.
LEMMA Leaves ==
  ASSUME NEW k \in FreshKey, KeyInv(k), NEW p \in Process, ~Has(p, k)', Others(p),
         NEW d \in {0, 1},
         \A i \in Nat : Waits(i, k)' => Waits(i + d, k) /\ queue'[i] = queue[i + d],
         \A i \in Nat : Buried(i, k)' => Buried(i, k),
         DOMAIN jobs \subseteq DOMAIN jobs',
         Has(p, k) \/ \A id \in DOMAIN jobs : Root(id) = k => jobs'[id] = jobs[id],
         runs'[k] = runs[k]
  PROVE  KeyInv(k)'
<1>1. \A q \in Process : Has(q, k)' => q # p /\ Has(q, k)
  BY OthersHave
<1>2. Alone(k)'
  <2>1. \A i, j \in Nat : Waits(i, k)' /\ Waits(j, k)' => i = j
    <3> SUFFICES ASSUME NEW i \in Nat, NEW j \in Nat, Waits(i, k)', Waits(j, k)' PROVE i = j
      OBVIOUS
    <3>1. Waits(i + d, k) /\ Waits(j + d, k) /\ i + d \in Nat /\ j + d \in Nat
      OBVIOUS
    <3>2. i + d = j + d
      BY <3>1 DEF KeyInv, Alone
    <3> QED
      BY <3>2
  <2>2. \A q \in Process, i \in Nat : Has(q, k)' => ~Waits(i, k)' /\ ~Buried(i, k)'
    <3> SUFFICES ASSUME NEW q \in Process, NEW i \in Nat, Has(q, k)' PROVE ~Waits(i, k)' /\ ~Buried(i, k)'
      OBVIOUS
    <3>1. Has(q, k) /\ i + d \in Nat
      BY <1>1
    <3>2. ~Waits(i + d, k) /\ ~Buried(i, k)
      BY <3>1 DEF KeyInv, Alone
    <3> QED
      BY <3>2
  <2>3. \A i, j \in Nat : ~(Waits(i, k)' /\ Buried(j, k)')
    <3> SUFFICES ASSUME NEW i \in Nat, NEW j \in Nat, Waits(i, k)', Buried(j, k)' PROVE FALSE
      OBVIOUS
    <3>1. Waits(i + d, k) /\ Buried(j, k) /\ i + d \in Nat
      OBVIOUS
    <3> QED
      BY <3>1 DEF KeyInv, Alone
  <2>4. \A q, u \in Process : Has(q, k)' /\ Has(u, k)' => q = u
    BY <1>1 DEF KeyInv, Alone
  <2>5. \A i, j \in Nat : Buried(i, k)' /\ Buried(j, k)' => i = j
    BY DEF KeyInv, Alone
  <2> QED
    BY <2>1, <2>2, <2>3, <2>4, <2>5 DEF Alone
<1>3. Backed(k)'
  <2>1. CASE Saved(<<k>>)
    BY <2>1 DEF Backed, Saved
  <2>2. CASE ~Saved(<<k>>)
    <3>1. /\ runs[k] = 0 /\ \A i \in Nat : ~Waits(i, k) /\ ~Buried(i, k)
          /\ \A q \in Process : Has(q, k) => q \in Producer /\ call[q].at \in {"check", "save"}
      BY <2>2 DEF KeyInv, Backed
    <3>2. \A i \in Nat : ~Waits(i, k)' /\ ~Buried(i, k)'
      <4> SUFFICES ASSUME NEW i \in Nat PROVE ~Waits(i, k)' /\ ~Buried(i, k)'
        OBVIOUS
      <4>1. i + d \in Nat
        OBVIOUS
      <4> QED
        BY <3>1, <4>1
    <3>3. \A q \in Process : Has(q, k)' => q \in Producer /\ call'[q].at \in {"check", "save"}
      BY <1>1, <3>1 DEF Others
    <3> QED
      BY <3>1, <3>2, <3>3 DEF Backed
  <2> QED
    BY <2>1, <2>2
<1>4. Budget(k)'
  <2>1. \A i \in Nat : Waits(i, k)' => queue'[i] \in DOMAIN jobs' /\ Affords(jobs[queue[i]], k)'
    <3> SUFFICES ASSUME NEW i \in Nat, Waits(i, k)' PROVE queue'[i] \in DOMAIN jobs' /\ Affords(jobs[queue[i]], k)'
      OBVIOUS
    <3>1. Waits(i + d, k) /\ i + d \in Nat /\ queue'[i] = queue[i + d]
      OBVIOUS
    <3>2. Saved(queue[i + d]) /\ Affords(jobs[queue[i + d]], k) /\ Root(queue[i + d]) = k
      BY <3>1 DEF KeyInv, Budget, Waits
    <3>3. ~Has(p, k)
      BY <3>1 DEF KeyInv, Alone
    <3>4. jobs'[queue[i + d]] = jobs[queue[i + d]] /\ queue[i + d] \in DOMAIN jobs'
      BY <3>2, <3>3 DEF Saved
    <3> QED
      BY <3>1, <3>2, <3>4 DEF Affords, Saved
  <2>2. ASSUME NEW q \in Process PROVE Own(q, k)'
    <3>1. CASE ~Has(q, k)'
      BY <3>1 DEF Own, Has
    <3>2. CASE Has(q, k)'
      <4>1. q # p /\ Has(q, k) /\ Own(q, k)
        BY <1>1, <3>2 DEF KeyInv, Budget
      <4>2. ~Has(p, k)
        BY <4>1 DEF KeyInv, Alone
      <4>3. \A id \in DOMAIN jobs : Root(id) = k => jobs'[id] = jobs[id] /\ id \in DOMAIN jobs'
        BY <4>2
      <4>4. call'[q] = call[q] /\ (q \in Worker => worker'[q] = worker[q])
        BY <4>1 DEF Others
      <4>5. call'[q].id # <<>> /\ Root(call'[q].id) = k => CallAffords(q, k)'
        BY <4>1, <4>3, <4>4 DEF Own, CallAffords, Affords, Saved
      <4>6. q \in Worker /\ worker'[q].at # "idle" /\ Root(worker'[q].id) = k => WorkerAffords(q, k)'
        <5> SUFFICES ASSUME q \in Worker, worker[q].at # "idle", Root(worker[q].id) = k
                     PROVE  WorkerAffords(q, k)'
          BY <4>4
        <5>1. worker'[q] = worker[q] /\ WorkerAffords(q, k)
          BY <4>1, <4>4 DEF Own
        <5>3. worker[q].at = "load" =>
                worker'[q].id \in DOMAIN jobs' /\ jobs'[worker'[q].id] = jobs[worker[q].id]
          BY <4>3, <5>1 DEF WorkerAffords, Saved
        <5>4. worker[q].at = "load" =>
                worker'[q].id \in DOMAIN jobs' /\ Affords(jobs[worker[q].id], k)'
          BY <5>1, <5>3 DEF WorkerAffords, Affords
        <5>5. worker[q].at = "start" => Affords(worker[q].job, k)'
          BY <5>1 DEF WorkerAffords, Affords
        <5>6. worker[q].at \notin {"load", "start"} => Begun(worker[q].job, k)'
          BY <5>1 DEF WorkerAffords, Begun
        <5>7. worker[q].at = "retry" => worker'[q].job.maxAttempts >= 2
          BY <5>1 DEF WorkerAffords
        <5> QED
          BY <5>1, <5>4, <5>5, <5>6, <5>7 DEF WorkerAffords, Saved
      <4> QED
        BY <4>5, <4>6 DEF Own
    <3> QED
      BY <3>1, <3>2
  <2> QED
    BY <2>1, <2>2 DEF KeyInv, Budget, Saved
<1> QED
  BY <1>2, <1>3, <1>4 DEF KeyInv

-----------------------------------------------------------------------------
(* The steps keep it *)

\* A step that leaves the store's lists and the process without the key.
LEMMA LetsGo ==
  ASSUME NEW k \in FreshKey, KeyInv(k), NEW p \in Process, ~Has(p, k)', Others(p),
         queue' = queue, dlq' = dlq, runs'[k] = runs[k], DOMAIN jobs \subseteq DOMAIN jobs',
         Has(p, k) \/ \A id \in DOMAIN jobs : Root(id) = k => jobs'[id] = jobs[id]
  PROVE  KeyInv(k)'
<1>1. \A i \in Nat : Waits(i, k)' => Waits(i + 0, k) /\ queue'[i] = queue[i + 0]
  BY DEF Waits
<1>2. \A i \in Nat : Buried(i, k)' => Buried(i, k)
  BY DEF Buried
<1> QED
  BY <1>1, <1>2, Leaves

\* After a return the process has nothing.
LEMMA ReturnLets ==
  ASSUME Typed, NEW p \in Process, Return(p), NEW k
  PROVE  ~Has(p, k)' /\ Others(p)
<1>1. call'[p].id = <<>> /\ \A q \in Process : q # p => call'[q] = call[q]
  BY DEF Return, Typed, NoCall
<1>2. p \in Worker => worker'[p].at = "idle"
  BY DEF Return, Idle
<1>3. \A q \in Worker : q # p => worker'[q] = worker[q]
  BY DEF Return
<1> QED
  BY <1>1, <1>2, <1>3 DEF Has, Others

\* A record of another root is saved: the key's records stay.
LEMMA SaveElsewhere ==
  ASSUME Typed, NEW x \in AnyId, NEW j, Save(x, j), NEW k, Root(x) # k
  PROVE  \A id \in DOMAIN jobs : Root(id) = k => jobs'[id] = jobs[id]
  BY DEF Save

\* A request takes a fresh key nothing else has.
LEMMA RequestKeeps ==
  ASSUME Typed, NEW k \in FreshKey, KeyInv(k), NEW p \in Producer, NEW x \in Key, Request(p, x)
  PROVE  KeyInv(k)'
<1>0. p \in Process /\ p \notin Worker
  BY ProcessAssumption DEF Process
<1>1. /\ call'[p] = [at |-> "check", id |-> <<x>>, maxAttempts |-> MaxAttempts]
      /\ Others(p) /\ queue' = queue /\ dlq' = dlq /\ runs' = runs /\ jobs' = jobs
  BY <1>0 DEF Request, Enqueue, Others, Typed
<1>2. call'[p].id = <<x>> /\ <<x>> # <<>> /\ Root(<<x>>) = x
  BY <1>1, KeyIsId
<1>3. CASE x # k
  <2>1. ~Has(p, k)'
    BY <1>0, <1>2, <1>3 DEF Has
  <2> QED
    BY <1>0, <1>1, <2>1, LetsGo
<1>4. CASE x = k
  <2>1. ~Saved(<<k>>) /\ \A q \in Producer : call[q].id # <<k>>
    BY <1>4 DEF Request
  <2>2. /\ runs[k] = 0 /\ \A i \in Nat : ~Waits(i, k) /\ ~Buried(i, k)
        /\ \A q \in Process : Has(q, k) => q \in Producer /\ call[q].at \in {"check", "save"}
    BY <2>1 DEF KeyInv, Backed
  <2>3. ASSUME NEW q \in Process, Has(q, k) PROVE FALSE
    <3>1. q \in Producer /\ q \notin Worker
      BY <2>2, <2>3, ProcessAssumption
    <3>2. call[q].id # <<>> /\ Root(call[q].id) = k /\ CallFits(q)
      BY <2>3, <3>1 DEF Has, Typed
    <3>3. PICK y \in Key : call[q].id = <<y>>
      BY <3>1, <3>2 DEF CallFits
    <3>4. y = k
      BY <3>2, <3>3, KeyIsId
    <3> QED
      BY <2>1, <3>1, <3>3, <3>4
  <2>4. \A q \in Process : q # p => ~Has(q, k)'
    BY <1>0, <1>1, <2>3, OthersHave
  <2>5. \A i \in Nat : ~Waits(i, k)' /\ ~Buried(i, k)'
    BY <1>1, <2>2 DEF Waits, Buried
  <2>6. Own(p, k)'
    BY <1>0, <1>1, <2>2, AttemptsAssumption DEF Own, CallAffords
  <2>7. runs'[k] = 0 /\ runs'[k] <= MaxAttempts /\ call'[p].at = "check"
    BY <1>1, <2>2, AttemptsAssumption
  <2> QED
    BY <1>0, <2>4, <2>5, <2>6, <2>7, Holds
<1> QED
  BY <1>3, <1>4

\* The steps of an enqueue.
LEMMA EnqueueKeeps ==
  ASSUME Typed, NEW k \in FreshKey, KeyInv(k), NEW p \in Process, EnqueueStep(p)
  PROVE  KeyInv(k)'
<1>0. CallFits(p) /\ call[p] \in CallRecord
  BY DEF Typed
<1>1. CASE CheckExisting(p)
  <2>1. queue' = queue /\ dlq' = dlq /\ runs' = runs /\ jobs' = jobs /\ call[p].at = "check"
    BY <1>1 DEF CheckExisting
  <2>2. CASE Return(p)
    BY <2>1, <2>2, ReturnLets, LetsGo
  <2>3. CASE call' = [call EXCEPT ![p].at = "save"] /\ UNCHANGED worker
    <3>1. Others(p) /\ call'[p].id = call[p].id /\ call'[p].maxAttempts = call[p].maxAttempts /\ call'[p].at = "save"
      BY <1>0, <2>3 DEF Others, Typed, CallRecord
    <3>2. Has(p, k)' <=> Has(p, k)
      BY <2>3, <3>1 DEF Has
    <3>3. CASE ~Has(p, k)
      BY <2>1, <3>1, <3>2, <3>3, LetsGo
    <3>4. CASE Has(p, k)
      <4>1. Own(p, k) /\ runs[k] <= MaxAttempts
        BY DEF KeyInv, Budget
      <4>2. Own(p, k)'
        BY <2>1, <2>3, <3>1, <4>1 DEF Own, CallAffords, WorkerAffords, Affords, Begun, Saved
      <4>3. Saved(<<k>>)' \/ (runs'[k] = 0 /\ p \in Producer /\ call'[p].at \in {"check", "save"})
        BY <2>1, <3>1, <3>4 DEF KeyInv, Backed, Saved
      <4> QED
        BY <2>1, <3>1, <3>4, <4>1, <4>2, <4>3, Keeps
    <3> QED
      BY <3>3, <3>4
  <2> QED
    BY <1>1, <2>2, <2>3 DEF CheckExisting
<1>2. CASE SaveJob(p)
  <2>1. /\ queue' = queue /\ dlq' = dlq /\ runs' = runs /\ worker' = worker
        /\ call[p].at = "save" /\ call[p].id \in AnyId /\ call[p].id # <<>>
    BY <1>0, <1>2 DEF SaveJob, CallFits, CallRecord
  <2>2. PICK j : /\ j = [status |-> "pending", attempts |-> 0, maxAttempts |-> call[p].maxAttempts]
                 /\ Save(call[p].id, j)
    BY <1>2 DEF SaveJob
  <2>3. Others(p) /\ call'[p].id = call[p].id /\ call'[p].maxAttempts = call[p].maxAttempts
    BY <1>0, <1>2, <2>1 DEF SaveJob, Others, Typed, CallRecord
  <2>4. /\ DOMAIN jobs \subseteq DOMAIN jobs' /\ call[p].id \in DOMAIN jobs' /\ jobs'[call[p].id] = j
        /\ j.attempts = 0 /\ j.maxAttempts = call[p].maxAttempts
    BY <2>2 DEF Save
  <2>5. Has(p, k)' <=> Has(p, k)
    BY <2>1, <2>3 DEF Has
  <2>6. CASE ~Has(p, k)
    <3>1. Root(call[p].id) # k
      BY <2>1, <2>6 DEF Has
    <3>2. \A id \in DOMAIN jobs : Root(id) = k => jobs'[id] = jobs[id]
      BY <2>1, <2>2, <3>1, SaveElsewhere
    <3> QED
      BY <2>1, <2>3, <2>4, <2>5, <2>6, <3>2, LetsGo
  <2>7. CASE Has(p, k)
    <3>1. Own(p, k) /\ runs[k] <= MaxAttempts
      BY DEF KeyInv, Budget
    <3>2. Root(call[p].id) = k
      BY <1>0, <2>1, <2>7, ProcessAssumption DEF Has, CallFits, Process
    <3>3. CallAffords(p, k)'
      BY <2>1, <2>3, <2>4, <3>1, <3>2 DEF Own, CallAffords, Affords, Saved
    <3>4. p \in Worker => worker[p].at = "enqueue"
      BY <1>0, <2>1 DEF CallFits
    <3>5. p \in Worker /\ worker[p].at # "idle" /\ Root(worker[p].id) = k => WorkerAffords(p, k)'
      BY <2>1, <3>1, <3>4 DEF Own, WorkerAffords, Begun
    <3>6. Own(p, k)'
      BY <2>1, <3>3, <3>5 DEF Own
    <3>7. Saved(<<k>>)'
      <4>1. CASE Saved(<<k>>)
        BY <2>4, <4>1 DEF Saved
      <4>2. CASE ~Saved(<<k>>)
        <5>1. p \in Producer
          BY <2>7, <4>2 DEF KeyInv, Backed
        <5>2. PICK y \in Key : call[p].id = <<y>>
          BY <1>0, <2>1, <5>1 DEF CallFits
        <5>3. y = k
          BY <3>2, <5>2, KeyIsId
        <5> QED
          BY <2>4, <5>2, <5>3 DEF Saved
      <4> QED
        BY <4>1, <4>2
    <3> QED
      BY <2>1, <2>3, <2>7, <3>1, <3>6, <3>7, Keeps
  <2> QED
    BY <2>6, <2>7
<1>3. CASE PushPending(p)
  <2>1. /\ queue' = Append(queue, call[p].id) /\ dlq' = dlq /\ runs' = runs /\ jobs' = jobs
        /\ call[p].at = "push" /\ call[p].id \in AnyId /\ call[p].id # <<>>
    BY <1>0, <1>3 DEF PushPending, CallFits, CallRecord
  <2>2. ~Has(p, k)' /\ Others(p)
    BY <1>3, ReturnLets DEF PushPending
  <2>3. queue \in Seq(AnyId) /\ queue' \in Seq(AnyId)
    BY <2>1 DEF Typed
  <2>4. /\ Len(queue') = Len(queue) + 1 /\ queue'[Len(queue) + 1] = call[p].id
        /\ \A i \in 1..Len(queue) : queue'[i] = queue[i]
    BY <2>1, <2>3
  <2>5. CASE Root(call[p].id) # k
    <3>1. \A i \in Nat : Waits(i, k)' => Waits(i + 0, k) /\ queue'[i] = queue[i + 0]
      BY <2>3, <2>4, <2>5 DEF Waits
    <3>2. \A i \in Nat : Buried(i, k)' => Buried(i, k)
      BY <2>1 DEF Buried
    <3> QED
      BY <2>1, <2>2, <3>1, <3>2, Leaves
  <2>6. CASE Root(call[p].id) = k
    <3>1. Has(p, k)
      BY <2>1, <2>6 DEF Has
    <3>2. /\ \A q \in Process : ~Has(q, k)'
          /\ \A i \in Nat : ~Waits(i, k) /\ ~Buried(i, k)
      BY <2>2, <3>1, OthersHave DEF KeyInv, Alone
    <3>3. \A i \in Nat : (Waits(i, k)' => i = Len(queue) + 1) /\ ~Buried(i, k)'
      BY <2>1, <2>3, <2>4, <3>2 DEF Waits, Buried
    <3>4. Alone(k)'
      BY <3>2, <3>3 DEF Alone
    <3>5. Saved(<<k>>)'
      BY <2>1, <3>1 DEF KeyInv, Backed, Saved
    <3>6. CallAffords(p, k) /\ runs[k] <= MaxAttempts
      BY <2>1, <2>6 DEF KeyInv, Budget, Own
    <3>7. \A i \in Nat : Waits(i, k)' => queue'[i] \in DOMAIN jobs' /\ Affords(jobs[queue[i]], k)'
      BY <2>1, <2>4, <3>3, <3>6 DEF CallAffords, Affords, Saved
    <3>8. \A q \in Process : Own(q, k)'
      BY <3>2 DEF Own, Has
    <3> QED
      BY <2>1, <3>4, <3>5, <3>6, <3>7, <3>8 DEF KeyInv, Backed, Budget, Saved
  <2> QED
    BY <2>5, <2>6
<1> QED
  BY <1>1, <1>2, <1>3 DEF EnqueueStep
\* A worker that moves: its call stays, and, with one exception, so does its id.
LEMMA WorkerStays ==
  ASSUME Typed, NEW k \in FreshKey, KeyInv(k), NEW w \in Worker, NEW v \in WorkerRecord,
         worker' = [worker EXCEPT ![w] = v], call' = call, queue' = queue, dlq' = dlq, runs' = runs,
         jobs' = jobs, worker[w].at \notin {"idle", "enqueue"}, v.at = "idle" \/ v.id = worker[w].id,
         v.at # "idle" /\ Root(worker[w].id) = k /\ WorkerAffords(w, k) => WorkerAffords(w, k)'
  PROVE  KeyInv(k)'
<1>0. w \in Process /\ w \notin Producer /\ CallFits(w)
  BY ProcessAssumption DEF Process, Typed
<1>1. call[w].id = <<>>
  BY <1>0 DEF CallFits
<1>2. worker'[w] = v /\ Others(w)
  BY DEF Typed, Others
<1>3. Has(w, k) <=> Root(worker[w].id) = k
  BY <1>1 DEF Has
<1>4. Has(w, k)' <=> v.at # "idle" /\ Root(worker[w].id) = k
  BY <1>1, <1>2 DEF Has
<1>5. CASE ~Has(w, k)'
  BY <1>0, <1>2, <1>5, LetsGo
<1>6. CASE Has(w, k)'
  <2>1. Has(w, k) /\ v.at # "idle" /\ Root(worker[w].id) = k
    BY <1>3, <1>4, <1>6
  <2>2. WorkerAffords(w, k) /\ runs[k] <= MaxAttempts
    BY <1>0, <2>1 DEF KeyInv, Budget, Own
  <2>3. Own(w, k)'
    BY <1>1, <2>1, <2>2 DEF Own
  <2>4. Saved(<<k>>)'
    BY <1>0, <2>1 DEF KeyInv, Backed, Saved
  <2> QED
    BY <1>0, <1>2, <2>1, <2>2, <2>3, <2>4, Keeps
<1> QED
  BY <1>5, <1>6

\* Dequeue takes the key out of the queue.
LEMMA DequeueKeeps ==
  ASSUME Typed, NEW k \in FreshKey, KeyInv(k), NEW w \in Worker, Dequeue(w)
  PROVE  KeyInv(k)'
<1>0. w \in Process /\ w \notin Producer /\ CallFits(w) /\ worker[w].at = "idle"
  BY ProcessAssumption DEF Process, Typed, Dequeue
<1>1. call[w].id = <<>>
  BY <1>0 DEF CallFits
<1>2. queue \in Seq(AnyId) /\ queue # <<>> /\ queue' = Tail(queue) /\ Head(queue) = queue[1]
  BY DEF Typed, Dequeue
<1>3. /\ Len(queue) >= 1 /\ Len(queue') = Len(queue) - 1 /\ Len(queue) \in Nat
      /\ \A i \in 1..Len(queue') : queue'[i] = queue[i + 1]
  BY <1>2
<1>4. /\ worker'[w] = [Idle EXCEPT !.at = "load", !.id = Head(queue)] /\ Others(w)
      /\ call' = call /\ dlq' = dlq /\ runs' = runs /\ jobs' = jobs
  BY DEF Dequeue, Typed, Others
<1>5. worker'[w].at = "load" /\ worker'[w].id = queue[1]
  BY <1>2, <1>4 DEF Idle
<1>6. ~Has(w, k) /\ (Has(w, k)' <=> Root(queue[1]) = k)
  BY <1>0, <1>1, <1>4, <1>5 DEF Has
<1>7. \A i \in Nat : Waits(i, k)' => Waits(i + 1, k) /\ queue'[i] = queue[i + 1]
  BY <1>3 DEF Waits
<1>8. CASE Root(queue[1]) # k
  <2>1. \A i \in Nat : Buried(i, k)' => Buried(i, k)
    BY <1>4 DEF Buried
  <2> QED
    BY <1>0, <1>4, <1>6, <1>7, <1>8, <2>1, Leaves
<1>9. CASE Root(queue[1]) = k
  <2>1. Waits(1, k)
    BY <1>3, <1>9 DEF Waits
  <2>2. /\ \A q \in Process : ~Has(q, k)
        /\ \A i \in Nat : Waits(i, k) => i = 1
        /\ \A i \in Nat : ~Buried(i, k)
    BY <2>1 DEF KeyInv, Alone
  <2>3. \A q \in Process : q # w => ~Has(q, k)'
    BY <1>0, <1>4, <2>2, OthersHave
  <2>4. \A i \in Nat : ~Waits(i, k)'
    <3> SUFFICES ASSUME NEW i \in Nat, Waits(i, k)' PROVE FALSE
      OBVIOUS
    <3>1. i + 1 \in Nat /\ Waits(i + 1, k) /\ i # 0
      BY <1>7 DEF Waits
    <3> QED
      BY <2>2, <3>1
  <2>5. \A i \in Nat : ~Buried(i, k)'
    BY <1>4, <2>2 DEF Buried
  <2>6. Saved(queue[1]) /\ Affords(jobs[queue[1]], k) /\ runs[k] <= MaxAttempts
    BY <2>1 DEF KeyInv, Budget
  <2>7. WorkerAffords(w, k)'
    BY <1>4, <1>5, <2>6 DEF WorkerAffords, Affords, Saved
  <2>8. Own(w, k)'
    BY <1>1, <1>4, <2>7 DEF Own
  <2>9. Saved(<<k>>)'
    BY <1>4, <2>1 DEF KeyInv, Backed, Saved
  <2> QED
    BY <1>0, <1>4, <2>3, <2>4, <2>5, <2>6, <2>8, <2>9, Holds
<1> QED
  BY <1>8, <1>9

\* A job that leaves for the dead-letter list is nowhere else.
LEMMA BuryKeeps ==
  ASSUME Typed, NEW k \in FreshKey, KeyInv(k), NEW w \in Worker, PushDlq(w)
  PROVE  KeyInv(k)'
<1>0. w \in Process /\ w \notin Producer /\ CallFits(w) /\ worker[w].at = "dlq"
      /\ worker[w] \in WorkerRecord /\ WorkerFits(worker[w])
  BY ProcessAssumption DEF Process, Typed, PushDlq
<1>1. call[w].id = <<>>
  BY <1>0 DEF CallFits
<1>2. /\ dlq \in Seq(AnyId) /\ dlq' = Append(dlq, worker[w].id) /\ worker[w].id \in AnyId
      /\ call' = call /\ queue' = queue /\ runs' = runs /\ jobs' = jobs
  BY <1>0 DEF Typed, PushDlq, WorkerFits, WorkerRecord
<1>3. /\ Len(dlq') = Len(dlq) + 1 /\ Len(dlq) \in Nat /\ dlq'[Len(dlq) + 1] = worker[w].id
      /\ \A i \in 1..Len(dlq) : dlq'[i] = dlq[i]
  BY <1>2
<1>4. worker'[w] = Idle /\ Others(w)
  BY <1>2 DEF PushDlq, Typed, Others
<1>5. ~Has(w, k)' /\ (Has(w, k) <=> Root(worker[w].id) = k)
  BY <1>0, <1>1, <1>2, <1>4 DEF Has, Idle
<1>6. CASE Root(worker[w].id) # k
  <2>1. \A i \in Nat : Waits(i, k)' => Waits(i + 0, k) /\ queue'[i] = queue[i + 0]
    BY <1>2 DEF Waits
  <2>2. \A i \in Nat : Buried(i, k)' => Buried(i, k)
    BY <1>3, <1>6 DEF Buried
  <2> QED
    BY <1>0, <1>2, <1>4, <1>5, <2>1, <2>2, Leaves
<1>7. CASE Root(worker[w].id) = k
  <2>1. Has(w, k)
    BY <1>5, <1>7
  <2>2. /\ \A q \in Process : ~Has(q, k)'
        /\ \A i \in Nat : ~Waits(i, k) /\ ~Buried(i, k)
    BY <1>0, <1>4, <1>5, <2>1, OthersHave DEF KeyInv, Alone
  <2>3. \A i \in Nat : (Buried(i, k)' => i = Len(dlq) + 1) /\ ~Waits(i, k)'
    BY <1>2, <1>3, <2>2 DEF Buried, Waits
  <2>4. Alone(k)'
    BY <2>2, <2>3 DEF Alone
  <2>5. Saved(<<k>>)' /\ runs[k] <= MaxAttempts
    BY <1>0, <1>2, <2>1 DEF KeyInv, Backed, Saved, Budget
  <2>6. \A q \in Process : Own(q, k)'
    BY <2>2 DEF Own, Has
  <2>7. Budget(k)'
    BY <1>2, <2>3, <2>5, <2>6 DEF Budget
  <2> QED
    BY <2>4, <2>5, <2>7 DEF KeyInv, Backed
<1> QED
  BY <1>6, <1>7
\* An update writes a record nobody else reads, and counts the attempt it begins.
LEMMA UpdateKeeps ==
  ASSUME Typed, NEW k \in FreshKey, KeyInv(k), NEW w \in Worker, WriteUpdate(w)
  PROVE  KeyInv(k)'
<1> USE DEF Phases
<1>0. /\ w \in Process /\ w \notin Producer /\ CallFits(w)
      /\ worker[w] \in WorkerRecord /\ worker[w].at \in Phases
      /\ worker[w].id \in AnyId /\ worker[w].job \in AnyJob /\ Saved(worker[w].id)
  <2>1. worker[w] \in WorkerRecord /\ WorkerFits(worker[w]) /\ worker[w].copy # NoJob
    BY DEF Typed, WriteUpdate
  <2> QED
    BY <2>1, ProcessAssumption DEF Process, Typed, WorkerFits, WorkerRecord
<1>1. call[w].id = <<>>
  BY <1>0 DEF CallFits
<1>2. PICK j : Save(worker[w].id, j)
  BY DEF WriteUpdate
<1>3. DOMAIN jobs \subseteq DOMAIN jobs'
  BY <1>2 DEF Save
<1>4. PICK v : v = IF After(w) = "idle" THEN Idle ELSE [worker[w] EXCEPT !.at = After(w), !.copy = NoJob]
  OBVIOUS
<1>5. After(w) \in {"handler", "fail", "idle", "enqueue", "bury", "dlq"}
  BY <1>0 DEF After
<1>6. /\ v.at = After(w)
      /\ v.at # "idle" => v.id = worker[w].id /\ v.job = worker[w].job
  BY <1>0, <1>4, <1>5 DEF Idle, WorkerRecord
<1>7. /\ worker'[w] = v /\ \A q \in Worker : q # w => worker'[q] = worker[q]
      /\ queue' = queue /\ dlq' = dlq
  BY <1>4 DEF WriteUpdate, Typed
<1>8. Attempt(w) \in Nat /\ AttemptsLeft(w) \in Int
  BY <1>0 DEF Attempt, AttemptsLeft, AnyJob
<1>9. /\ \A q \in Process : q # w => call'[q] = call[q]
      /\ After(w) # "enqueue" => call'[w] = call[w]
      /\ After(w) = "enqueue" => call'[w] = [at |-> "check", id |-> RetryId(worker[w].id, Attempt(w)),
                                             maxAttempts |-> AttemptsLeft(w)]
  BY <1>0 DEF WriteUpdate, Enqueue, Typed
<1>10. call'[w].id # <<>> => After(w) = "enqueue" /\ Root(call'[w].id) = Root(worker[w].id)
  BY <1>0, <1>1, <1>8, <1>9, RetryKeepsRoot
<1>11. Others(w)
  BY <1>7, <1>9 DEF Others
<1>12. Has(w, k) <=> Root(worker[w].id) = k
  BY <1>0, <1>1 DEF Has
<1>13. Has(w, k)' => Root(worker[w].id) = k
  BY <1>6, <1>7, <1>10 DEF Has
<1>14. Root(worker[w].id) # k => runs'[k] = runs[k]
  BY DEF WriteUpdate, Typed
<1>15. CASE ~Has(w, k)
  <2>1. Root(worker[w].id) # k /\ ~Has(w, k)'
    BY <1>12, <1>13, <1>15
  <2>2. \A id \in DOMAIN jobs : Root(id) = k => jobs'[id] = jobs[id]
    BY <1>0, <1>2, <2>1, SaveElsewhere
  <2> QED
    BY <1>0, <1>3, <1>7, <1>11, <1>14, <2>1, <2>2, LetsGo
<1>16. CASE Has(w, k)
  <2>0. Root(worker[w].id) = k /\ k \in Key /\ runs[k] \in Nat
    BY <1>12, <1>16, KeyAssumption DEF Typed
  <2>1. Own(w, k) /\ runs[k] <= MaxAttempts /\ Saved(<<k>>)
    BY <1>0, <1>16 DEF KeyInv, Budget, Backed
  <2>2. WorkerAffords(w, k)
    BY <1>0, <2>0, <2>1 DEF Own
  <2>3. runs'[k] = IF After(w) = "handler" THEN runs[k] + 1 ELSE runs[k]
    BY <2>0 DEF WriteUpdate, Typed
  <2>4. /\ After(w) = "handler" <=> worker[w].at = "start" /\ k \in HandledKey
        /\ After(w) = "enqueue" <=> worker[w].at = "retry"
        /\ After(w) = "fail" <=> worker[w].at = "start" /\ k \notin HandledKey
        /\ After(w) = "bury" <=> worker[w].at = "fail"
        /\ After(w) \notin {"retry", "load", "start", "complete"}
    BY <1>0, <2>0 DEF After
  <2>5. runs'[k] <= MaxAttempts
    BY <1>0, <2>0, <2>1, <2>2, <2>3, <2>4, AttemptsAssumption DEF WorkerAffords, Affords, AnyJob
  <2>6. /\ worker[w].job.attempts = 0 /\ worker[w].job.maxAttempts >= 1
        /\ runs'[k] + worker[w].job.maxAttempts = MaxAttempts + (IF k \in HandledKey THEN 1 ELSE 0)
    <3>1. CASE worker[w].at = "start"
      BY <1>0, <2>0, <2>2, <2>3, <2>4, <3>1, AttemptsAssumption DEF WorkerAffords, Affords, AnyJob
    <3>2. CASE worker[w].at # "start"
      <4>1. Begun(worker[w].job, k) /\ runs'[k] = runs[k]
        BY <1>0, <2>2, <2>3, <2>4, <3>2 DEF WorkerAffords
      <4> QED
        BY <4>1 DEF Begun
    <3> QED
      BY <3>1, <3>2
  <2>7. call'[w].id # <<>> => CallAffords(w, k)'
    <3> SUFFICES ASSUME call'[w].id # <<>> PROVE CallAffords(w, k)'
      OBVIOUS
    <3>1. After(w) = "enqueue" /\ worker[w].at = "retry" /\ call'[w].at = "check" /\ call'[w].maxAttempts = AttemptsLeft(w)
      BY <1>9, <1>10, <2>4
    <3>2. AttemptsLeft(w) >= 1 /\ runs[k] + AttemptsLeft(w) = MaxAttempts
      BY <1>0, <2>0, <2>2, <3>1, AttemptsAssumption DEF WorkerAffords, Begun, AttemptsLeft, Attempt, AnyJob
    <3>3. runs'[k] = runs[k]
      BY <2>3, <3>1
    <3> QED
      BY <3>1, <3>2, <3>3 DEF CallAffords
  <2>8. v.at # "idle" => WorkerAffords(w, k)'
    <3> SUFFICES ASSUME v.at # "idle" PROVE WorkerAffords(w, k)'
      OBVIOUS
    <3>1. /\ worker'[w].at = After(w) /\ worker'[w].job = worker[w].job
          /\ worker'[w].at \notin {"load", "start", "retry", "complete"}
      BY <1>6, <1>7, <2>4
    <3>2. Begun(worker[w].job, k)'
      BY <2>6, <3>1 DEF Begun
    <3>3. worker'[w].at = "handler" => k \in HandledKey /\ runs'[k] >= 1
      BY <2>0, <2>3, <2>4, <3>1
    <3>4. worker'[w].at \in {"fail", "bury"} /\ k \in HandledKey => worker'[w].job.maxAttempts = 1
      BY <2>2, <2>4, <3>1 DEF WorkerAffords
    <3> QED
      BY <3>1, <3>2, <3>3, <3>4 DEF WorkerAffords
  <2>9. Own(w, k)'
    BY <1>7, <2>7, <2>8 DEF Own
  <2>10. Saved(<<k>>)'
    BY <1>3, <2>1 DEF Saved
  <2> QED
    BY <1>0, <1>7, <1>11, <1>16, <2>5, <2>9, <2>10, Keeps
<1> QED
  BY <1>15, <1>16

\* The other steps of a worker.
LEMMA WorkerKeeps ==
  ASSUME Typed, NEW k \in FreshKey, KeyInv(k), NEW w \in Worker, WorkerStep(w)
  PROVE  KeyInv(k)'
<1> USE DEF Phases
<1>0. worker[w] \in WorkerRecord /\ WorkerFits(worker[w])
  BY DEF Typed
<1>1. CASE LoadJob(w)
  <2>1. PICK v : v = IF Saved(worker[w].id) /\ jobs[worker[w].id].status = "pending"
                     THEN [worker[w] EXCEPT !.at = "start", !.job = jobs[worker[w].id]] ELSE Idle
    OBVIOUS
  <2>2. /\ worker' = [worker EXCEPT ![w] = v] /\ worker[w].at = "load"
        /\ UNCHANGED <<jobs, queue, dlq, call, runs>>
    BY <1>1, <2>1 DEF LoadJob
  <2>3. /\ v \in WorkerRecord /\ (v.at = "idle" \/ v.id = worker[w].id)
        /\ v.at # "idle" => v.at = "start" /\ v.job = jobs[worker[w].id]
    <3>1. CASE Saved(worker[w].id)
      <4>1. jobs[worker[w].id] \in AnyJob
        BY <3>1 DEF Typed, Saved
      <4> QED
        BY <1>0, <2>1, <4>1 DEF WorkerRecord, Idle
    <3>2. CASE ~Saved(worker[w].id)
      BY <2>1, <3>2 DEF WorkerRecord, Idle
    <3> QED
      BY <3>1, <3>2
  <2>4. worker'[w] = v
    BY <2>2 DEF Typed
  <2>5. v.at # "idle" /\ Root(worker[w].id) = k /\ WorkerAffords(w, k) => WorkerAffords(w, k)'
    BY <2>2, <2>3, <2>4 DEF WorkerAffords, Affords
  <2> QED
    BY <2>2, <2>3, <2>5, WorkerStays
<1>2. CASE ReadForUpdate(w)
  <2>1. PICK v : v = [worker[w] EXCEPT !.copy = jobs[worker[w].id]]
    OBVIOUS
  <2>2. jobs[worker[w].id] \in AnyJob /\ worker[w].at \in Phases
    BY <1>0, <1>2 DEF ReadForUpdate, Typed, Saved, WorkerFits
  <2>3. v \in WorkerRecord /\ v.at = worker[w].at /\ v.id = worker[w].id /\ v.job = worker[w].job
    BY <1>0, <2>1, <2>2 DEF WorkerRecord
  <2>4. worker' = [worker EXCEPT ![w] = v] /\ UNCHANGED <<jobs, queue, dlq, call, runs>>
    BY <1>2, <2>1 DEF ReadForUpdate
  <2>5. worker'[w] = v
    BY <2>4 DEF Typed
  <2>6. WorkerAffords(w, k) => WorkerAffords(w, k)'
    BY <2>2, <2>3, <2>4, <2>5 DEF WorkerAffords, Affords, Begun
  <2> QED
    BY <2>2, <2>3, <2>4, <2>6, WorkerStays
<1>3. ASSUME NEW at \in {"complete", "fail", "retry"}, worker[w].at \in {"handler", "complete"},
             worker' = [worker EXCEPT ![w].at = at, ![w].copy = NoJob],
             at = "retry" => ~Exhausted(w), at = "fail" => Exhausted(w),
             UNCHANGED <<jobs, queue, dlq, call, runs>>
      PROVE  KeyInv(k)'
  <2>1. PICK v : v = [worker[w] EXCEPT !.at = at, !.copy = NoJob]
    OBVIOUS
  <2>2. v \in WorkerRecord /\ v.at = at /\ v.id = worker[w].id /\ v.job = worker[w].job
    BY <1>0, <2>1 DEF WorkerRecord
  <2>3. worker' = [worker EXCEPT ![w] = v]
    BY <1>3, <2>1
  <2>4. worker'[w] = v
    BY <2>3 DEF Typed
  <2>5. WorkerAffords(w, k) => WorkerAffords(w, k)'
    <3> SUFFICES ASSUME WorkerAffords(w, k) PROVE WorkerAffords(w, k)'
      OBVIOUS
    <3>1. Begun(worker[w].job, k) /\ worker[w].job \in AnyJob
      BY <1>0, <1>3 DEF WorkerAffords, WorkerFits
    <3>2. at = "retry" => worker[w].job.maxAttempts >= 2
      BY <1>3, <3>1 DEF Exhausted, Attempt, Begun, AnyJob
    <3>3. at = "fail" => worker[w].job.maxAttempts = 1
      BY <1>3, <3>1 DEF Exhausted, Attempt, Begun, AnyJob
    <3>4. Begun(worker[w].job, k)' /\ worker'[w].at = at /\ worker'[w].job = worker[w].job
      BY <1>3, <2>2, <2>4, <3>1 DEF Begun
    <3>5. k \in HandledKey /\ runs'[k] >= 1
      BY <1>3 DEF WorkerAffords
    <3> QED
      BY <1>3, <3>2, <3>3, <3>4, <3>5 DEF WorkerAffords
  <2> QED
    BY <1>3, <2>2, <2>3, <2>5, WorkerStays
<1>4. CASE HandlerSucceeds(w)
  <2>1. worker[w].copy = NoJob /\ worker[w].at = "handler"
    BY <1>0, <1>4 DEF HandlerSucceeds, WorkerFits
  <2>2. worker' = [worker EXCEPT ![w].at = "complete", ![w].copy = NoJob]
    BY <1>0, <1>4, <2>1 DEF HandlerSucceeds, Typed, WorkerRecord
  <2> QED
    BY <1>3, <1>4, <2>1, <2>2 DEF HandlerSucceeds
<1>5. CASE HandlerThrows(w)
  BY <1>3, <1>5 DEF HandlerThrows, Caught
<1> QED
  BY <1>1, <1>2, <1>4, <1>5, DequeueKeeps, UpdateKeeps, BuryKeeps DEF WorkerStep

-----------------------------------------------------------------------------
QueueInv == Typed /\ \A k \in FreshKey : KeyInv(k)

\* Every step of every process.
LEMMA QueueStep == QueueInv /\ [Next]_vars => QueueInv'
<1> SUFFICES ASSUME QueueInv, [Next]_vars PROVE QueueInv'
  OBVIOUS
<1>1. ASSUME NEW p \in Producer, NEW x \in Key, Request(p, x) PROVE QueueInv'
  <2>1. p \in Process
    BY DEF Process
  <2> QED
    BY <1>1, <2>1, CallsTyped, RequestKeeps DEF QueueInv
<1>2. ASSUME NEW p \in Process, EnqueueStep(p) PROVE QueueInv'
  BY <1>2, CallsTyped, EnqueueKeeps DEF QueueInv
<1>3. ASSUME NEW p \in Process, Die(p) PROVE QueueInv'
  <2>1. Typed' /\ Return(p) /\ UNCHANGED <<jobs, queue, dlq, runs>>
    BY <1>3, CallsTyped DEF QueueInv, Die
  <2>2. ASSUME NEW k \in FreshKey PROVE KeyInv(k)'
    BY <2>1, ReturnLets, LetsGo DEF QueueInv
  <2> QED
    BY <2>1, <2>2 DEF QueueInv
<1>4. ASSUME NEW w \in Worker, WorkerStep(w) PROVE QueueInv'
  BY <1>4, WorkerTyped, WorkerKeeps DEF QueueInv
<1>5. CASE UNCHANGED vars
  <2>1. Typed'
    BY <1>5 DEF vars, QueueInv, Typed, CallFits, WorkerFits, Saved
  <2>2. ASSUME NEW k \in FreshKey PROVE KeyInv(k)'
    <3>1. KeyInv(k)
      BY DEF QueueInv
    <3>2. Alone(k)'
      BY <1>5, <3>1 DEF vars, KeyInv, Alone, Has, Waits, Buried
    <3>3. Backed(k)'
      BY <1>5, <3>1 DEF vars, KeyInv, Backed, Has, Waits, Buried, Saved
    <3>4. Budget(k)'
      BY <1>5, <3>1 DEF vars, KeyInv, Budget, Waits, Own, CallAffords, WorkerAffords, Affords, Begun, Saved
    <3> QED
      BY <3>2, <3>3, <3>4 DEF KeyInv
  <2> QED
    BY <2>1, <2>2 DEF QueueInv
<1> QED
  BY <1>1, <1>2, <1>3, <1>4, <1>5 DEF Next

\* At the start there is nothing.
LEMMA QueueStart == Init => QueueInv
<1> SUFFICES ASSUME Init PROVE QueueInv
  OBVIOUS
<1>1. \A p \in Process : call[p] = NoCall(IF p \in Producer THEN "ready" ELSE "done")
  BY DEF Init
<1>2. \A p \in Process : call[p].id = <<>> /\ call[p].at \in {"ready", "done"} /\ call[p] \in CallRecord
  <2>1. NoCall("ready").id = <<>> /\ NoCall("ready").at = "ready" /\ NoCall("ready") \in CallRecord
    BY DEF NoCall, CallRecord
  <2>2. NoCall("done").id = <<>> /\ NoCall("done").at = "done" /\ NoCall("done") \in CallRecord
    BY DEF NoCall, CallRecord
  <2> QED
    BY <1>1, <2>1, <2>2
<1>3. \A w \in Worker : worker[w] = Idle /\ worker[w].at = "idle"
  BY DEF Init, Idle
<1>4. Idle \in WorkerRecord /\ WorkerFits(Idle)
  BY DEF Idle, WorkerRecord, WorkerFits
<1>5. Typed
  BY <1>2, <1>3, <1>4 DEF Init, Typed, CallFits
<1>6. ASSUME NEW k \in FreshKey PROVE KeyInv(k)
  <2>1. \A p \in Process : ~Has(p, k) /\ Own(p, k)
    BY <1>2, <1>3 DEF Has, Own
  <2>2. \A i \in Nat : ~Waits(i, k) /\ ~Buried(i, k)
    BY DEF Init, Waits, Buried
  <2>3. runs[k] = 0 /\ runs[k] <= MaxAttempts
    BY KeyAssumption, AttemptsAssumption DEF Init
  <2> QED
    BY <2>1, <2>2, <2>3 DEF KeyInv, Alone, Backed, Budget
<1> QED
  BY <1>5, <1>6 DEF QueueInv

\* The invariant holds of every state of the queue.
LEMMA QueueInvariant == Spec => []QueueInv
  BY QueueStart, QueueStep, PTL DEF Spec

\* The attempts of a job of a fresh key and of all its retries together never
\* exceed maxAttempts (worker.ts, processNextJob with its retries).
THEOREM AttemptsStayBounded == Spec => []AttemptsBounded
<1>1. QueueInv => AttemptsBounded
  BY DEF QueueInv, KeyInv, Budget, AttemptsBounded
<1> QED
  BY <1>1, QueueInvariant, PTL

\* A set whose elements are all the same has at most one.
LEMMA AtMostOne ==
  ASSUME NEW S, \A x, y \in S : x = y
  PROVE  Cardinality(S) \in {0, 1} /\ (Cardinality(S) = 1 => S # {})
<1>1. CASE S = {}
  BY <1>1, FS_EmptySet
<1>2. CASE S # {}
  <2>1. PICK x : x \in S
    BY <1>2
  <2>2. S = {x}
    BY <2>1
  <2> QED
    BY <1>2, <2>2, FS_Singleton
<1> QED
  BY <1>1, <1>2

\* A job of a fresh key is at any time in one place at most: waiting, in the
\* hand of one process, or in the dead-letter list (queue.ts and worker.ts).
THEOREM OnePlaceOnly == Spec => []OnePlace
<1>1. QueueInv => OnePlace
  <2> SUFFICES ASSUME QueueInv, NEW k \in FreshKey PROVE Places(k) <= 1
    BY DEF OnePlace
  <2> DEFINE W == {i \in 1..Len(queue) : Root(queue[i]) = k}
             D == {i \in 1..Len(dlq) : Root(dlq[i]) = k}
             H == {p \in Process : \E id \in InHand(p) : Root(id) = k}
  <2>1. \A i : i \in W <=> i \in Nat /\ Waits(i, k)
    BY DEF QueueInv, Typed, Waits
  <2>2. \A i : i \in D <=> i \in Nat /\ Buried(i, k)
    BY DEF QueueInv, Typed, Buried
  <2>3. \A p : p \in H <=> p \in Process /\ Has(p, k)
    BY DEF InHand, Has
  <2>4. Alone(k)
    BY DEF QueueInv, KeyInv
  <2>5. /\ \A x, y \in W : x = y
        /\ \A x, y \in D : x = y
        /\ \A x, y \in H : x = y
        /\ W = {} \/ H = {}
        /\ D = {} \/ H = {}
        /\ W = {} \/ D = {}
    BY <2>1, <2>2, <2>3, <2>4 DEF Alone
  <2>6. Places(k) = Cardinality(W) + Cardinality(D) + Cardinality(H)
    BY DEF Places
  <2> HIDE DEF W, D, H
  <2> QED
    BY <2>5, <2>6, AtMostOne
<1> QED
  BY <1>1, QueueInvariant, PTL

-----------------------------------------------------------------------------
(* The promise: what a job's records say changes once, and in time *)

\* Something still waits for the key or works on it, other than to bury it.
InWork(k) ==
  \/ \E i \in Nat : Waits(i, k)
  \/ \E p \in Process : Has(p, k) /\ ~(p \in Worker /\ worker[p].at = "dlq")

Final(k) ==
  /\ InWork(k) => ~Settled(k)
  /\ (\E id \in DOMAIN jobs : Root(id) = k) => Saved(<<k>>)

SaysSame(k) == \A s \in {"completed", "dead"} : RecordSays(k, s)' <=> RecordSays(k, s)
Kept(k) == Final(k)' /\ Promise(k)!PromiseStep

\* A step that leaves what the records say, and the attempts, as they are.
LEMMA QuietKept ==
  ASSUME NEW k \in FreshKey, Final(k), SaysSame(k), runs'[k] = runs[k],
         InWork(k)' => InWork(k) \/ ~Settled(k),
         (\E id \in DOMAIN jobs' : Root(id) = k) => Saved(<<k>>)'
  PROVE  Kept(k)
<1>1. Outcome(k)' = Outcome(k) /\ (Settled(k)' <=> Settled(k))
  BY DEF SaysSame, Outcome, Settled
<1>2. Promise(k)!PromiseStep
  BY <1>1 DEF Promise!PromiseStep, Promise!promiseVars
<1> QED
  BY <1>1, <1>2 DEF Final, Kept

\* A step that writes no record needs no more than this.
LEMMA IdleKept ==
  ASSUME NEW k \in FreshKey, Final(k), jobs' = jobs, runs' = runs,
         InWork(k)' => InWork(k) \/ ~Settled(k)
  PROVE  Kept(k)
<1>1. SaysSame(k)
  BY DEF SaysSame, RecordSays
<1>2. (\E id \in DOMAIN jobs' : Root(id) = k) => Saved(<<k>>)'
  BY DEF Final, Saved
<1> QED
  BY <1>1, <1>2, QuietKept

\* Work that was not there comes only from a process that changes.
LEMMA WorkOf ==
  ASSUME NEW k, NEW p \in Process, Others(p), InWork(k)',
         \A i \in Nat : Waits(i, k)' => InWork(k),
         Has(p, k)' => InWork(k)
  PROVE  InWork(k)
<1>1. ASSUME NEW q \in Process, q # p, Has(q, k)', ~(q \in Worker /\ worker'[q].at = "dlq")
      PROVE  InWork(k)
  <2>1. Has(q, k) /\ (q \in Worker => worker'[q] = worker[q])
    BY <1>1, OthersHave DEF Others
  <2> QED
    BY <1>1, <2>1 DEF InWork
<1> QED
  BY <1>1 DEF InWork

\* A process that has a key in a call is not at its burial.
LEMMA CallWorks ==
  ASSUME Typed, NEW k, NEW p \in Process, call[p].id # <<>>, Root(call[p].id) = k
  PROVE  InWork(k)
<1>1. Has(p, k) /\ CallFits(p)
  BY DEF Has, Typed
<1>2. ~(p \in Worker /\ worker[p].at = "dlq")
  BY <1>1 DEF CallFits
<1> QED
  BY <1>1, <1>2 DEF InWork

\* A request for a fresh key finds no record of it.
LEMMA RequestKept ==
  ASSUME Typed, NEW k \in FreshKey, KeyInv(k), Final(k), NEW p \in Producer, NEW x \in Key, Request(p, x)
  PROVE  Kept(k)
<1>0. p \in Process /\ p \notin Worker
  BY ProcessAssumption DEF Process
<1>1. /\ call'[p] = [at |-> "check", id |-> <<x>>, maxAttempts |-> MaxAttempts]
      /\ Others(p) /\ queue' = queue /\ runs' = runs /\ jobs' = jobs
  BY <1>0 DEF Request, Enqueue, Others, Typed
<1>2. call'[p].id = <<x>> /\ Root(<<x>>) = x
  BY <1>1, KeyIsId
<1>3. CASE x = k
  <2>1. ~Saved(<<k>>)
    BY <1>3 DEF Request
  <2>2. ~Settled(k)
    BY <2>1 DEF Final, Settled, RecordSays
  <2> QED
    BY <1>1, <2>2, IdleKept
<1>4. CASE x # k
  <2>1. ~Has(p, k)'
    BY <1>0, <1>2, <1>4 DEF Has
  <2>2. \A i \in Nat : Waits(i, k)' => InWork(k)
    BY <1>1 DEF Waits, InWork
  <2> QED
    BY <1>0, <1>1, <2>1, <2>2, WorkOf, IdleKept
<1> QED
  BY <1>3, <1>4

\* A request or a retry saves a record that is pending.
LEMMA EnqueueKept ==
  ASSUME Typed, NEW k \in FreshKey, KeyInv(k), Final(k), NEW p \in Process, EnqueueStep(p)
  PROVE  Kept(k)
<1>0. CallFits(p) /\ call[p] \in CallRecord
  BY DEF Typed
<1>1. CASE CheckExisting(p)
  <2>1. queue' = queue /\ runs' = runs /\ jobs' = jobs /\ call[p].at = "check"
    BY <1>1 DEF CheckExisting
  <2>2. \A i \in Nat : Waits(i, k)' => InWork(k)
    BY <2>1 DEF Waits, InWork
  <2>3. CASE Return(p)
    BY <2>1, <2>2, <2>3, ReturnLets, WorkOf, IdleKept
  <2>4. CASE call' = [call EXCEPT ![p].at = "save"] /\ UNCHANGED worker
    <3>1. Others(p) /\ call'[p].id = call[p].id
      BY <1>0, <2>4 DEF Others, Typed, CallRecord
    <3>2. call[p].id # <<>>
      BY <1>0, <2>1 DEF CallFits
    <3>3. Has(p, k)' => InWork(k)
      <4>1. ASSUME Has(p, k)' PROVE Has(p, k) /\ ~(p \in Worker /\ worker[p].at = "dlq")
        BY <1>0, <2>4, <3>1, <3>2, <4>1 DEF Has, CallFits
      <4> QED
        BY <4>1 DEF InWork
    <3> QED
      BY <2>1, <2>2, <3>1, <3>3, WorkOf, IdleKept
  <2> QED
    BY <1>1, <2>3, <2>4 DEF CheckExisting
<1>2. CASE SaveJob(p)
  <2>1. /\ queue' = queue /\ runs' = runs /\ worker' = worker
        /\ call[p].at = "save" /\ call[p].id \in AnyId /\ call[p].id # <<>>
    BY <1>0, <1>2 DEF SaveJob, CallFits, CallRecord
  <2>2. PICK x, j : /\ x \in AnyId /\ x = call[p].id /\ j.status = "pending" /\ Save(x, j)
    BY <1>2, <2>1 DEF SaveJob
  <2>3. Others(p) /\ call'[p].id = x
    BY <1>0, <1>2, <2>1, <2>2 DEF SaveJob, Others, Typed, CallRecord
  <2>4. /\ DOMAIN jobs' = DOMAIN jobs \cup {x} /\ jobs'[x] = j
        /\ \A id \in DOMAIN jobs : id # x => jobs'[id] = jobs[id]
    BY <2>2 DEF Save
  <2>5. InWork(k)' => InWork(k)
    <3>1. \A i \in Nat : Waits(i, k)' => InWork(k)
      BY <2>1 DEF Waits, InWork
    <3>2. Has(p, k)' => InWork(k)
      <4>1. ASSUME Has(p, k)' PROVE Has(p, k) /\ ~(p \in Worker /\ worker[p].at = "dlq")
        BY <1>0, <2>1, <2>2, <2>3, <4>1 DEF Has, CallFits
      <4> QED
        BY <4>1 DEF InWork
    <3> QED
      BY <2>3, <3>1, <3>2, WorkOf
  <2>6. CASE Root(x) = k
    <3>1. InWork(k)
      BY <2>1, <2>2, <2>6, CallWorks
    <3>2. \A s \in {"completed", "dead"} : ~RecordSays(k, s)
      BY <3>1 DEF Final, Settled
    <3>3. \A s \in {"completed", "dead"} : ~RecordSays(k, s)'
      BY <2>2, <2>4, <3>2 DEF RecordSays
    <3>4. Saved(<<k>>)'
      <4>1. CASE Saved(<<k>>)
        BY <2>4, <4>1 DEF Saved
      <4>2. CASE ~Saved(<<k>>)
        <5>1. p \in Producer
          BY <2>1, <2>2, <2>6, <4>2 DEF KeyInv, Backed, Has
        <5>2. PICK y \in Key : x = <<y>>
          BY <1>0, <2>1, <2>2, <5>1 DEF CallFits
        <5>3. x = <<k>>
          BY <2>6, <5>2, KeyIsId
        <5> QED
          BY <2>4, <5>3 DEF Saved
      <4> QED
        BY <4>1, <4>2
    <3> QED
      BY <2>1, <2>5, <3>2, <3>3, <3>4, QuietKept DEF SaysSame
  <2>7. CASE Root(x) # k
    <3>1. \A s \in {"completed", "dead"} : RecordSays(k, s)' <=> RecordSays(k, s)
      BY <2>4, <2>7 DEF RecordSays
    <3>2. (\E id \in DOMAIN jobs' : Root(id) = k) => Saved(<<k>>)'
      BY <2>4, <2>7 DEF Final, Saved
    <3> QED
      BY <2>1, <2>5, <3>1, <3>2, QuietKept DEF SaysSame
  <2> QED
    BY <2>6, <2>7
<1>3. CASE PushPending(p)
  <2>1. /\ queue \in Seq(AnyId) /\ queue' = Append(queue, call[p].id) /\ call[p].id \in AnyId /\ call[p].id # <<>>
        /\ Return(p) /\ runs' = runs /\ jobs' = jobs
    BY <1>0, <1>3 DEF PushPending, CallFits, CallRecord, Typed
  <2>2. ASSUME NEW i \in Nat, Waits(i, k)' PROVE InWork(k)
    <3>1. CASE i \in 1..Len(queue)
      <4>1. Waits(i, k)
        BY <2>1, <2>2, <3>1 DEF Waits
      <4> QED
        BY <4>1 DEF InWork
    <3>2. CASE i \notin 1..Len(queue)
      <4>1. Root(call[p].id) = k
        BY <2>1, <2>2, <3>2 DEF Waits
      <4> QED
        BY <2>1, <4>1, CallWorks
    <3> QED
      BY <3>1, <3>2
  <2>3. ~Has(p, k)' /\ Others(p)
    BY <2>1, ReturnLets
  <2> QED
    BY <2>1, <2>2, <2>3, WorkOf, IdleKept
<1> QED
  BY <1>1, <1>2, <1>3 DEF EnqueueStep

\* A worker that goes on with its job or lets it go.
LEMMA GoingOnKept ==
  ASSUME Typed, NEW k \in FreshKey, Final(k), NEW w \in Worker, NEW v \in WorkerRecord,
         worker' = [worker EXCEPT ![w] = v], UNCHANGED <<jobs, queue, call, runs>>,
         v.at = "idle" \/ (v.id = worker[w].id /\ worker[w].at \notin {"idle", "dlq"})
  PROVE  Kept(k)
<1>1. w \in Process /\ worker'[w] = v /\ Others(w)
  BY DEF Typed, Others, Process
<1>2. \A i \in Nat : Waits(i, k)' => InWork(k)
  BY DEF Waits, InWork
<1>3. Has(w, k)' => InWork(k)
  <2>1. CASE call[w].id # <<>> /\ Root(call[w].id) = k
    BY <1>1, <2>1, CallWorks
  <2>2. CASE v.at # "idle" /\ Root(v.id) = k
    BY <1>1, <2>2 DEF InWork, Has
  <2> QED
    BY <1>1, <2>1, <2>2 DEF Has
<1> QED
  BY <1>1, <1>2, <1>3, WorkOf, IdleKept

\* An update begins an attempt, completes the job, gives it up, or says nothing.
LEMMA UpdateKept ==
  ASSUME Typed, NEW k \in FreshKey, KeyInv(k), Final(k), NEW w \in Worker, WriteUpdate(w)
  PROVE  Kept(k)
<1> USE DEF Phases
<1>0. /\ w \in Process /\ w \notin Producer /\ CallFits(w)
      /\ worker[w] \in WorkerRecord /\ worker[w].at \in Phases
      /\ worker[w].id \in AnyId /\ worker[w].job \in AnyJob /\ worker[w].copy \in AnyJob
      /\ Saved(worker[w].id)
  <2>1. worker[w] \in WorkerRecord /\ WorkerFits(worker[w]) /\ worker[w].copy # NoJob
    BY DEF Typed, WriteUpdate
  <2> QED
    BY <2>1, ProcessAssumption DEF Process, Typed, WorkerFits, WorkerRecord
<1>1. call[w].id = <<>>
  BY <1>0 DEF CallFits
<1>2. PICK x, j : x \in AnyId /\ x = worker[w].id /\ j = Patched(w) /\ Save(x, j)
  BY <1>0 DEF WriteUpdate
<1>3. /\ DOMAIN jobs' = DOMAIN jobs /\ x \in DOMAIN jobs /\ jobs'[x] = j
      /\ \A id \in DOMAIN jobs : id # x => jobs'[id] = jobs[id]
  BY <1>0, <1>2 DEF Save, Saved
<1>4. /\ worker[w].at = "complete" <=> j.status = "completed"
      /\ worker[w].at = "bury" <=> j.status = "dead"
  BY <1>0, <1>2 DEF Patched, AnyJob
<1>5. PICK v : v = IF After(w) = "idle" THEN Idle ELSE [worker[w] EXCEPT !.at = After(w), !.copy = NoJob]
  OBVIOUS
<1>6. /\ v.at = After(w) /\ (v.at # "idle" => v.id = x)
      /\ After(w) \in {"handler", "fail", "idle", "enqueue", "bury", "dlq"}
  <2>1. After(w) \in {"handler", "fail", "idle", "enqueue", "bury", "dlq"}
    BY <1>0 DEF After
  <2> QED
    BY <1>0, <1>2, <1>5, <2>1 DEF Idle, WorkerRecord
<1>7. /\ worker'[w] = v /\ \A q \in Worker : q # w => worker'[q] = worker[q]
      /\ queue' = queue /\ dlq' = dlq
  BY <1>5 DEF WriteUpdate, Typed
<1>8. Attempt(w) \in Nat
  BY <1>0 DEF Attempt, AnyJob
<1>9. /\ \A q \in Process : q # w => call'[q] = call[q]
      /\ After(w) # "enqueue" => call'[w] = call[w]
      /\ After(w) = "enqueue" => call'[w] = [at |-> "check", id |-> RetryId(worker[w].id, Attempt(w)),
                                             maxAttempts |-> AttemptsLeft(w)]
  BY <1>0 DEF WriteUpdate, Enqueue, Typed
<1>10. call'[w].id # <<>> => After(w) = "enqueue" /\ Root(call'[w].id) = Root(x)
  BY <1>0, <1>1, <1>2, <1>8, <1>9, RetryKeepsRoot
<1>11. Others(w) /\ (Has(w, k)' => Root(x) = k)
  BY <1>6, <1>7, <1>9, <1>10 DEF Others, Has
<1>12. \A i \in Nat : Waits(i, k)' => InWork(k)
  BY <1>7 DEF Waits, InWork
<1>13. CASE Root(x) # k
  <2>1. SaysSame(k)
    BY <1>3, <1>13 DEF SaysSame, RecordSays
  <2>2. runs'[k] = runs[k]
    BY <1>2, <1>13 DEF WriteUpdate, Typed
  <2>3. (\E id \in DOMAIN jobs' : Root(id) = k) => Saved(<<k>>)'
    BY <1>3 DEF Final, Saved
  <2>4. InWork(k)' => InWork(k)
    BY <1>0, <1>11, <1>12, <1>13, WorkOf
  <2> QED
    BY <2>1, <2>2, <2>3, <2>4, QuietKept
<1>14. CASE Root(x) = k
  <2>0. k \in Key /\ runs[k] \in Nat /\ MaxAttempts \in Nat
    BY KeyAssumption, AttemptsAssumption DEF Typed
  <2>1. Has(w, k) /\ InWork(k)
    BY <1>0, <1>2, <1>14 DEF Has, InWork
  <2>2. \A s \in {"completed", "dead"} : ~RecordSays(k, s)
    BY <2>1 DEF Final, Settled
  <2>3. /\ RecordSays(k, "completed")' <=> worker[w].at = "complete"
        /\ RecordSays(k, "dead")' <=> worker[w].at = "bury"
    BY <1>3, <1>4, <1>14, <2>2 DEF RecordSays
  <2>4. WorkerAffords(w, k)
    BY <1>0, <1>2, <1>14 DEF KeyInv, Budget, Own
  <2>5. runs'[k] = IF After(w) = "handler" THEN runs[k] + 1 ELSE runs[k]
    BY <1>2, <1>14, <2>0 DEF WriteUpdate, Typed
  <2>6. After(w) = "handler" <=> worker[w].at = "start" /\ k \in HandledKey
    BY <1>0, <1>2, <1>14 DEF After
  <2>7. Saved(<<k>>)'
    BY <1>0, <1>3, <2>1 DEF KeyInv, Backed, Saved
  <2>8. worker[w].at \in {"complete", "bury"} => ~InWork(k)'
    <3> SUFFICES ASSUME worker[w].at \in {"complete", "bury"} PROVE ~InWork(k)'
      OBVIOUS
    <3>1. v.at \in {"idle", "dlq"} /\ After(w) # "enqueue"
      BY <1>6 DEF After
    <3>2. \A q \in Process : q # w => ~Has(q, k)'
      BY <1>0, <1>11, <2>1, OthersHave DEF KeyInv, Alone
    <3>3. \A i \in Nat : ~Waits(i, k)'
      BY <1>0, <1>7, <2>1 DEF KeyInv, Alone, Waits
    <3>4. Has(w, k)' => worker'[w].at = "dlq"
      BY <1>7, <1>10, <3>1 DEF Has
    <3> QED
      BY <1>0, <3>2, <3>3, <3>4 DEF InWork
  <2>9. Final(k)'
    BY <2>3, <2>7, <2>8 DEF Final, Settled
  <2>10. Outcome(k) = "open"
    BY <2>2 DEF Outcome
  <2>11. Outcome(k)' = IF worker[w].at = "complete" THEN "completed"
                       ELSE IF worker[w].at = "bury" THEN "dead" ELSE "open"
    BY <2>3 DEF Outcome
  <2>12. Promise(k)!PromiseStep
    <3>1. CASE worker[w].at = "start" /\ k \in HandledKey
      <4>1. runs[k] < MaxAttempts /\ runs'[k] = runs[k] + 1
        BY <1>0, <2>0, <2>4, <2>5, <2>6, <3>1 DEF WorkerAffords, Affords, AnyJob
      <4>2. Promise(k)!BeginAttempt
        BY <2>10, <2>11, <3>1, <4>1 DEF Promise!BeginAttempt
      <4> QED
        BY <4>2 DEF Promise!PromiseStep, Promise!PromiseNext
    <3>2. CASE worker[w].at = "complete"
      <4>1. runs[k] > 0 /\ runs'[k] = runs[k]
        BY <2>0, <2>4, <2>5, <2>6, <3>2 DEF WorkerAffords
      <4>2. Promise(k)!Complete
        BY <2>10, <2>11, <3>2, <4>1 DEF Promise!Complete
      <4> QED
        BY <4>2 DEF Promise!PromiseStep, Promise!PromiseNext
    <3>3. CASE worker[w].at = "bury"
      <4>1. (k \in HandledKey => runs[k] = MaxAttempts) /\ runs'[k] = runs[k]
        BY <1>0, <2>0, <2>4, <2>5, <2>6, <3>3 DEF WorkerAffords, Begun, AnyJob
      <4>2. Promise(k)!GiveUp
        BY <2>10, <2>11, <3>3, <4>1 DEF Promise!GiveUp
      <4> QED
        BY <4>2 DEF Promise!PromiseStep, Promise!PromiseNext
    <3>4. CASE worker[w].at \notin {"complete", "bury"} /\ ~(worker[w].at = "start" /\ k \in HandledKey)
      <4>1. runs'[k] = runs[k] /\ Outcome(k)' = Outcome(k)
        BY <2>5, <2>6, <2>10, <2>11, <3>4
      <4> QED
        BY <4>1 DEF Promise!PromiseStep, Promise!promiseVars
    <3> QED
      BY <3>1, <3>2, <3>3, <3>4
  <2> QED
    BY <2>9, <2>12 DEF Kept
<1> QED
  BY <1>13, <1>14

\* Every step of a worker.
LEMMA WorkerKept ==
  ASSUME Typed, NEW k \in FreshKey, KeyInv(k), Final(k), NEW w \in Worker, WorkerStep(w)
  PROVE  Kept(k)
<1>0. worker[w] \in WorkerRecord /\ WorkerFits(worker[w]) /\ Idle \in WorkerRecord /\ Idle.at = "idle"
  BY DEF Typed, Idle, WorkerRecord
<1>1. CASE Dequeue(w)
  <2>1. PICK v : v = [Idle EXCEPT !.at = "load", !.id = Head(queue)]
    OBVIOUS
  <2>2. /\ queue \in Seq(AnyId) /\ queue # <<>> /\ queue' = Tail(queue)
        /\ worker' = [worker EXCEPT ![w] = v] /\ call' = call /\ runs' = runs /\ jobs' = jobs
        /\ worker[w].at = "idle"
    BY <1>1, <2>1 DEF Dequeue, Typed
  <2>3. v.at = "load" /\ v.id = queue[1] /\ 1 \in 1..Len(queue)
    BY <2>1, <2>2 DEF Idle
  <2>4. w \in Process /\ worker'[w] = v /\ Others(w)
    BY <2>2 DEF Typed, Others, Process
  <2>5. \A i \in Nat : Waits(i, k)' => Waits(i + 1, k) /\ i + 1 \in Nat
    BY <2>2 DEF Waits
  <2>6. \A i \in Nat : Waits(i, k)' => InWork(k)
    BY <2>5 DEF InWork
  <2>7. Has(w, k)' => InWork(k)
    <3>1. CASE call[w].id # <<>> /\ Root(call[w].id) = k
      BY <2>4, <3>1, CallWorks
    <3>2. CASE Root(v.id) = k
      <4>1. Waits(1, k)
        BY <2>3, <3>2 DEF Waits
      <4> QED
        BY <4>1 DEF InWork
    <3> QED
      BY <2>2, <2>4, <3>1, <3>2 DEF Has
  <2> QED
    BY <2>2, <2>4, <2>6, <2>7, WorkOf, IdleKept
<1>2. CASE LoadJob(w)
  <2>1. PICK v : v = IF Saved(worker[w].id) /\ jobs[worker[w].id].status = "pending"
                     THEN [worker[w] EXCEPT !.at = "start", !.job = jobs[worker[w].id]] ELSE Idle
    OBVIOUS
  <2>2. /\ worker' = [worker EXCEPT ![w] = v] /\ worker[w].at = "load"
        /\ UNCHANGED <<jobs, queue, call, runs>>
    BY <1>2, <2>1 DEF LoadJob
  <2>3. v \in WorkerRecord /\ (v.at = "idle" \/ v.id = worker[w].id)
    <3>1. CASE Saved(worker[w].id)
      <4>1. jobs[worker[w].id] \in AnyJob
        BY <3>1 DEF Typed, Saved
      <4> QED
        BY <1>0, <2>1, <4>1 DEF WorkerRecord, Idle, Phases
    <3>2. CASE ~Saved(worker[w].id)
      BY <1>0, <2>1, <3>2
    <3> QED
      BY <3>1, <3>2
  <2> QED
    BY <2>2, <2>3, GoingOnKept
<1>3. CASE ReadForUpdate(w)
  <2>1. PICK v : v = [worker[w] EXCEPT !.copy = jobs[worker[w].id]]
    OBVIOUS
  <2>2. jobs[worker[w].id] \in AnyJob /\ worker[w].at \in Phases
    BY <1>0, <1>3 DEF ReadForUpdate, Typed, Saved, WorkerFits, Phases
  <2>3. v \in WorkerRecord /\ v.id = worker[w].id
    BY <1>0, <2>1, <2>2 DEF WorkerRecord
  <2>4. worker' = [worker EXCEPT ![w] = v] /\ UNCHANGED <<jobs, queue, call, runs>>
    BY <1>3, <2>1 DEF ReadForUpdate
  <2>5. worker[w].at \notin {"idle", "dlq"}
    BY <2>2 DEF Phases
  <2> QED
    BY <2>3, <2>4, <2>5, GoingOnKept
<1>4. CASE HandlerSucceeds(w)
  <2>1. PICK v : v = [worker[w] EXCEPT !.at = "complete"]
    OBVIOUS
  <2>2. v \in WorkerRecord /\ v.id = worker[w].id
    BY <1>0, <2>1 DEF WorkerRecord, Phases
  <2> QED
    BY <1>4, <2>1, <2>2, GoingOnKept DEF HandlerSucceeds
<1>5. CASE HandlerThrows(w)
  <2>1. PICK v : v = [worker[w] EXCEPT !.at = Caught(w), !.copy = NoJob]
    OBVIOUS
  <2>2. Caught(w) \in Phases
    BY DEF Caught, Phases
  <2>3. v \in WorkerRecord /\ v.id = worker[w].id
    BY <1>0, <2>1, <2>2 DEF WorkerRecord
  <2>4. worker' = [worker EXCEPT ![w] = v]
    BY <1>5, <2>1 DEF HandlerThrows
  <2> QED
    BY <1>5, <2>3, <2>4, GoingOnKept DEF HandlerThrows
<1>6. CASE PushDlq(w)
  BY <1>0, <1>6, GoingOnKept DEF PushDlq
<1> QED
  BY <1>1, <1>2, <1>3, <1>4, <1>5, <1>6, UpdateKept DEF WorkerStep

\* Every step of the queue.
LEMMA StepKept ==
  ASSUME QueueInv, [Next]_vars, NEW k \in FreshKey, Final(k)
  PROVE  Kept(k)
<1>0. Typed /\ KeyInv(k)
  BY DEF QueueInv
<1>1. ASSUME NEW p \in Producer, NEW x \in Key, Request(p, x) PROVE Kept(k)
  BY <1>0, <1>1, RequestKept
<1>2. ASSUME NEW p \in Process, EnqueueStep(p) PROVE Kept(k)
  BY <1>0, <1>2, EnqueueKept
<1>3. ASSUME NEW p \in Process, Die(p) PROVE Kept(k)
  <2>1. Return(p) /\ UNCHANGED <<jobs, queue, runs>>
    BY <1>3 DEF Die
  <2>2. ~Has(p, k)' /\ Others(p)
    BY <1>0, <2>1, ReturnLets
  <2>3. \A i \in Nat : Waits(i, k)' => InWork(k)
    BY <2>1 DEF Waits, InWork
  <2> QED
    BY <2>1, <2>2, <2>3, WorkOf, IdleKept
<1>4. ASSUME NEW w \in Worker, WorkerStep(w) PROVE Kept(k)
  BY <1>0, <1>4, WorkerKept
<1>5. CASE UNCHANGED vars
  <2>1. jobs' = jobs /\ runs' = runs /\ (InWork(k)' => InWork(k))
    BY <1>5 DEF vars, InWork, Waits, Has
  <2> QED
    BY <2>1, IdleKept
<1> QED
  BY <1>1, <1>2, <1>3, <1>4, <1>5 DEF Next

\* Every job of a fresh id is attempted as often as its request allowed before it
\* is given up, is completed only by an attempt, and is left alone afterwards,
\* its retries counted with it, whoever dies (worker.ts, processNextJob).
THEOREM JobPromiseKept == Spec => KeepsJobPromise
<1>1. Init => (\A k \in FreshKey : Final(k)) /\ (\A k \in FreshKey : Promise(k)!PromiseInit)
  <2> SUFFICES ASSUME Init, NEW k \in FreshKey PROVE Final(k) /\ Promise(k)!PromiseInit
    OBVIOUS
  <2>1. DOMAIN jobs = {} /\ runs[k] = 0
    BY KeyAssumption DEF Init
  <2>2. Final(k) /\ Outcome(k) = "open"
    BY <2>1 DEF Final, Settled, RecordSays, Outcome
  <2> QED
    BY <2>1, <2>2 DEF Promise!PromiseInit
<1>2. QueueInv /\ (\A k \in FreshKey : Final(k)) /\ [Next]_vars => (\A k \in FreshKey : Final(k))'
  BY StepKept DEF Kept
<1>3. QueueInv /\ (\A k \in FreshKey : Final(k)) /\ [Next]_vars =>
        [\A k \in FreshKey : Promise(k)!PromiseStep]_vars
  BY StepKept DEF Kept
<1> QED
  BY <1>1, <1>2, <1>3, QueueInvariant, PTL DEF Spec, KeepsJobPromise

-----------------------------------------------------------------------------
(* What every state of the indexer is made of *)

Paging == {"look", "save", "readList", "writeList", "cursor"}
TickRecord == [at : Paging \cup {"idle", "fetch"}, page : Seq(Nat), next : Nat, keys : SUBSET (Nat \X Nat), from : Nat]

ChainFits ==
  /\ chain \in Seq(Nat) /\ ledgerSeq \in Nat /\ cursor \in Nat /\ cursor <= ledgerSeq + 1
  /\ \A i \in DOMAIN chain : chain[i] <= ledgerSeq /\ \A j \in 1..i : chain[j] <= chain[i]
  /\ \A e \in saved : e \in Nat \X Nat /\ e[1] \in DOMAIN chain /\ e[2] <= PageLimit
  /\ listed \subseteq Nat \X Nat

\* The events of a transaction are all of one ledger.
SourceFits ==
  /\ source \in Seq(Nat) /\ Len(source) = Len(chain)
  /\ \A i \in DOMAIN chain : source[i] <= Len(chain)
  /\ \A i, j \in DOMAIN chain : source[i] = source[j] => chain[i] = chain[j]

SavedBefore(l) ==
  \A i \in DOMAIN chain :
    chain[i] < l /\ chain[i] \notin cutLedgers /\ ~MayCollide(i) => IsSaved(i)

\* An entry is saved, or another event has its key.
HasKey(e) == e \in saved \/ (e[1] \in DOMAIN chain /\ MayCollide(e[1]))

\* The events of the ledgers before l are the first b.
Starts(l, b) == b \in 0..Len(chain) /\ \A i \in DOMAIN chain : chain[i] < l <=> i <= b

\* A page as it was served: the events behind those of earlier ledgers.
Served(page, from) ==
  LET n == Len(page) IN
  /\ n > 0 /\ n <= PageLimit
  /\ \E b \in 0..Len(chain) :
       /\ Starts(from, b) /\ b + n <= Len(chain)
       /\ \A k \in 1..n : page[k] = b + k
  /\ \A j \in DOMAIN chain : j > page[n] /\ chain[j] = chain[page[n]] => chain[j] \in cutLedgers

\* What a tick has done of its page.
Worked(v) ==
  LET n == Len(v.page) IN
  /\ \A k \in 1..n : k < v.next => HasKey(<<v.page[k], k>>)
  /\ IF v.at = "cursor" THEN v.next = n + 1 ELSE v.next \in 1..n
  /\ v.at \in {"readList", "writeList"} => HasKey(<<v.page[v.next], v.next>>)

TickFits(v) ==
  /\ v \in TickRecord /\ (v.at = "fetch" => v.next = 1)
  /\ v.at # "idle" => v.from <= ledgerSeq + 1 /\ SavedBefore(v.from)
  /\ v.at \in Paging => Served(v.page, v.from) /\ Worked(v)

OneByOne ==
  /\ \A t, u \in Ticker : tick[t].at # "idle" /\ tick[u].at # "idle" => t = u
  /\ \A t \in Ticker : tick[t].at # "idle" => tick[t].from = cursor
  /\ \A t \in Ticker : tick[t].at \in Paging => \A e \in saved : e[1] <= tick[t].page[Len(tick[t].page)]
  /\ \E b \in 0..Len(chain) : Starts(cursor, b) /\ \A e \in saved : e[1] > b => e[1] = b + e[2]
  /\ \A d, e \in saved : d[1] = e[1] => d = e

IndexBase ==
  /\ ChainFits /\ SourceFits /\ SavedBefore(cursor) /\ overlapped \in BOOLEAN
  /\ tick \in [Ticker -> TickRecord] /\ \A t \in Ticker : TickFits(tick[t])
IndexInv == IndexBase /\ (~overlapped => OneByOne)

\* A nonempty set of natural numbers has a smallest element.
LEMMA SmallestNat ==
  ASSUME NEW T, T \subseteq Nat, T # {}
  PROVE  \E n \in T : \A m \in T : n <= m
<1> DEFINE Less == OpToRel(<, Nat)
<1>1. \A x, y \in Nat : <<x, y>> \in Less <=> x < y
  BY DEF OpToRel
<1>2. IsWellFoundedOn(Less, Nat)
  BY NatLessThanWellFounded, Zenon
<1> HIDE DEF Less
<1>3. PICK x \in T : \A y \in T : ~(<<y, x>> \in Less)
  BY <1>2, WFMin, Zenon
<1>4. \A y \in T : ~(y < x)
  BY <1>1, <1>3, Zenon
<1> QED
  BY <1>4

-----------------------------------------------------------------------------
(* The chain in order, and pages of it *)

\* The events of earlier ledgers come first, so a page begins behind them.
LEMMA BehindStarts ==
  ASSUME ChainFits, NEW l \in Nat
  PROVE  Starts(l, Behind(l))
<1> DEFINE n == Len(chain)
           T == {i \in 1..(n + 1) : i = n + 1 \/ ~(chain[i] < l)}
<1>1. n \in Nat /\ DOMAIN chain = 1..n /\ \A i \in 1..n : chain[i] \in Nat
  BY DEF ChainFits
<1>2. PICK m \in T : \A k \in T : m <= k
  <2>1. T \subseteq Nat /\ n + 1 \in T
    BY <1>1
  <2> QED
    BY <2>1, SmallestNat
<1>3. \A i \in 1..n : chain[i] < l <=> i <= m - 1
  <2> SUFFICES ASSUME NEW i \in 1..n PROVE chain[i] < l <=> i <= m - 1
    OBVIOUS
  <2>1. CASE i < m
    BY <1>1, <1>2, <2>1
  <2>2. CASE m <= i
    <3>1. m \in 1..i /\ ~(chain[m] < l) /\ m \in 1..n
      BY <1>1, <1>2, <2>2
    <3>2. chain[m] <= chain[i]
      BY <1>1, <3>1 DEF ChainFits
    <3> QED
      BY <1>1, <2>2, <3>1, <3>2
  <2> QED
    BY <1>1, <1>2, <2>1, <2>2
<1>4. m - 1 \in Nat /\ m - 1 <= n
  BY <1>1, <1>2
<1> HIDE DEF T, n
<1>5. {i \in DOMAIN chain : chain[i] < l} = 1..(m - 1)
  BY <1>1, <1>3, <1>4
<1>6. Behind(l) = m - 1
  <2>1. \A k \in Nat : Cardinality(1..k) = k
    BY FS_Interval
  <2> QED
    BY <1>4, <1>5, <2>1 DEF Behind
<1> QED
  BY <1>1, <1>3, <1>4, <1>6 DEF Starts, n

\* A page is the events that follow, as many as fit.
LEMMA PageIs ==
  ASSUME ChainFits, NEW l \in Nat
  PROVE  \E b \in 0..Len(chain), n \in Nat :
           /\ Starts(l, b) /\ b + n <= Len(chain) /\ n <= PageLimit
           /\ n = PageLimit \/ b + n = Len(chain)
           /\ PageOf(l) \in Seq(Nat) /\ Len(PageOf(l)) = n
           /\ \A k \in 1..n : PageOf(l)[k] = b + k
<1>1. PICK b \in 0..Len(chain) : b = Behind(l) /\ Starts(l, b)
  BY BehindStarts DEF Starts
<1>2. Len(chain) \in Nat /\ PageLimit \in Nat
  BY IndexerAssumption DEF ChainFits
<1>3. PICK n \in Nat : n = IF Len(chain) - b < PageLimit THEN Len(chain) - b ELSE PageLimit
  BY <1>1, <1>2
<1>4. PageOf(l) = [i \in 1..n |-> b + i]
  BY <1>1, <1>3 DEF PageOf
<1>5. PICK q : q = [i \in 1..n |-> b + i]
  OBVIOUS
<1>6. q \in Seq(Nat) /\ Len(q) = n /\ \A k \in 1..n : q[k] = b + k
  BY <1>1, <1>2, <1>5
<1>7. b + n <= Len(chain) /\ n <= PageLimit /\ (n = PageLimit \/ b + n = Len(chain))
  BY <1>1, <1>2, <1>3
<1> QED
  BY <1>1, <1>4, <1>5, <1>6, <1>7

-----------------------------------------------------------------------------
(* Nothing that was served or saved is taken back *)

Grown ==
  /\ chain' \in Seq(Nat) /\ Len(chain) <= Len(chain')
  /\ \A i \in DOMAIN chain : chain'[i] = chain[i]
  /\ \A i \in DOMAIN chain' : i > Len(chain) => chain'[i] > ledgerSeq
  /\ ledgerSeq' \in Nat /\ ledgerSeq <= ledgerSeq'
  /\ cutLedgers \subseteq cutLedgers'
  /\ \A i \in DOMAIN chain : MayCollide(i) => MayCollide(i)'
  /\ \A e \in saved : e \in saved' \/ MayCollide(e[1])'

\* What a transaction brought stays with it.
LEMMA CollisionsStay ==
  ASSUME NEW n \in Nat, n = Len(chain), DOMAIN chain = 1..n, 1..n \subseteq DOMAIN chain',
         \A i \in 1..n : source'[i] = source[i], overlapped => overlapped'
  PROVE  \A i \in DOMAIN chain : MayCollide(i) => MayCollide(i)'
  BY DEF MayCollide

LEMMA BeforeGrows ==
  ASSUME ChainFits, Grown, NEW l \in Nat, l <= ledgerSeq + 1
  PROVE  /\ SavedBefore(l) => SavedBefore(l)'
         /\ \A b : Starts(l, b) => Starts(l, b)'
<1>1. Len(chain) \in Nat /\ Len(chain') \in Nat /\ DOMAIN chain = 1..Len(chain) /\ DOMAIN chain' = 1..Len(chain')
  BY DEF ChainFits, Grown
<1>2. \A i \in DOMAIN chain' : chain'[i] \in Nat /\ (chain'[i] < l => i \in DOMAIN chain)
  <2>1. \A i \in DOMAIN chain' : chain'[i] \in Nat /\ i \in Nat
    BY <1>1 DEF Grown
  <2>2. \A i \in DOMAIN chain' : i \notin DOMAIN chain => chain'[i] > ledgerSeq
    BY <1>1 DEF Grown
  <2>3. ledgerSeq \in Nat
    BY DEF ChainFits
  <2> QED
    BY <2>1, <2>2, <2>3
<1>3. ASSUME SavedBefore(l)
      PROVE  SavedBefore(l)'
  <2> SUFFICES ASSUME NEW i \in DOMAIN chain', chain'[i] < l, chain'[i] \notin cutLedgers', ~MayCollide(i)'
               PROVE  IsSaved(i)'
    BY DEF SavedBefore
  <2>1. i \in DOMAIN chain /\ chain[i] < l /\ chain[i] \notin cutLedgers /\ ~MayCollide(i)
    BY <1>2 DEF Grown
  <2>2. PICK e \in saved : e[1] = i
    BY <1>3, <2>1 DEF SavedBefore, IsSaved
  <2>3. e \in saved'
    <3>1. e \in saved' \/ MayCollide(e[1])'
      BY DEF Grown
    <3> QED
      BY <2>2, <3>1
  <2> QED
    BY <2>2, <2>3 DEF IsSaved
<1>4. ASSUME NEW b, Starts(l, b)
      PROVE  Starts(l, b)'
  <2>1. b \in 0..Len(chain')
    BY <1>1, <1>4 DEF Starts, Grown
  <2>2. \A i \in DOMAIN chain' : chain'[i] < l <=> i <= b
    <3> SUFFICES ASSUME NEW i \in DOMAIN chain' PROVE chain'[i] < l <=> i <= b
      OBVIOUS
    <3>1. CASE i \in DOMAIN chain
      BY <1>4, <3>1 DEF Starts, Grown
    <3>2. CASE i \notin DOMAIN chain
      BY <1>1, <1>2, <1>4, <3>2 DEF Starts
    <3> QED
      BY <3>1, <3>2
  <2> QED
    BY <2>1, <2>2 DEF Starts
<1> QED
  BY <1>3, <1>4

LEMMA ServedGrows ==
  ASSUME ChainFits, Grown, NEW page \in Seq(Nat), NEW from \in Nat, from <= ledgerSeq + 1, Served(page, from)
  PROVE  Served(page, from)'
<1>1. PICK n \in Nat : n = Len(page)
  OBVIOUS
<1>2. PICK b \in 0..Len(chain) : /\ Starts(from, b) /\ b + n <= Len(chain)
                                 /\ \A k \in 1..n : page[k] = b + k
  BY <1>1 DEF Served
<1>3. n > 0 /\ n <= PageLimit
  BY <1>1 DEF Served
<1>4. /\ Len(chain) \in Nat /\ Len(chain') \in Nat /\ Len(chain) <= Len(chain')
      /\ DOMAIN chain = 1..Len(chain) /\ DOMAIN chain' = 1..Len(chain')
  BY DEF ChainFits, Grown
<1>5. Starts(from, b)' /\ b \in 0..Len(chain') /\ b + n <= Len(chain')
  BY <1>2, <1>4, BeforeGrows
<1>6. PICK l \in DOMAIN chain : l = page[n]
  BY <1>2, <1>3, <1>4
<1>7. ASSUME NEW j \in DOMAIN chain', j > l, chain'[j] = chain'[l]
      PROVE  chain'[j] \in cutLedgers'
  <2>1. chain'[l] = chain[l] /\ chain[l] <= ledgerSeq /\ ledgerSeq \in Nat /\ chain[l] \in Nat
    <3>1. chain'[l] = chain[l]
      BY DEF Grown
    <3>2. chain[l] <= ledgerSeq /\ ledgerSeq \in Nat /\ chain[l] \in Nat
      BY DEF ChainFits
    <3> QED
      BY <3>1, <3>2
  <2>2. j \in DOMAIN chain
    <3>1. j \notin DOMAIN chain => chain'[j] > ledgerSeq
      BY <1>4, <1>7 DEF Grown
    <3> QED
      BY <1>7, <2>1, <3>1
  <2>3. chain[j] = chain[l]
    BY <1>7, <2>1, <2>2 DEF Grown
  <2> QED
    BY <1>1, <1>6, <1>7, <2>2, <2>3 DEF Served, Grown
<1> QED
  BY <1>1, <1>2, <1>3, <1>5, <1>6, <1>7 DEF Served

LEMMA HasGrows ==
  ASSUME ChainFits, Grown, NEW e, HasKey(e)
  PROVE  HasKey(e)'
<1>1. e \in saved => e[1] \in DOMAIN chain
  BY DEF ChainFits
<1>2. DOMAIN chain \subseteq DOMAIN chain'
  <2>1. Len(chain) \in Nat /\ Len(chain') \in Nat /\ DOMAIN chain = 1..Len(chain) /\ DOMAIN chain' = 1..Len(chain')
    BY DEF ChainFits, Grown
  <2> QED
    BY <2>1 DEF Grown
<1>3. CASE e \in saved
  BY <1>1, <1>2, <1>3 DEF HasKey, Grown
<1>4. CASE e[1] \in DOMAIN chain /\ MayCollide(e[1])
  <2>1. PICK i \in DOMAIN chain : i = e[1] /\ MayCollide(i)
    BY <1>4
  <2>2. MayCollide(i)'
    BY <2>1 DEF Grown
  <2> QED
    BY <1>2, <2>1, <2>2 DEF HasKey
<1> QED
  BY <1>3, <1>4 DEF HasKey

LEMMA FitsGrow ==
  ASSUME ChainFits, Grown, NEW v, TickFits(v)
  PROVE  TickFits(v)'
<1>1. v \in TickRecord /\ v.from \in Nat /\ v.page \in Seq(Nat)
  BY DEF TickFits, TickRecord
<1>2. v.at # "idle" => v.from <= ledgerSeq' + 1 /\ SavedBefore(v.from)'
  <2>1. v.at # "idle" => v.from <= ledgerSeq + 1 /\ SavedBefore(v.from)
    BY DEF TickFits
  <2>2. v.from <= ledgerSeq + 1 => v.from <= ledgerSeq' + 1
    BY <1>1 DEF ChainFits, Grown
  <2> QED
    BY <1>1, <2>1, <2>2, BeforeGrows
<1>3. ASSUME v.at \in Paging
      PROVE  Served(v.page, v.from)' /\ Worked(v)'
  <2>1. Served(v.page, v.from) /\ Worked(v) /\ v.from <= ledgerSeq + 1
    BY <1>3 DEF TickFits, Paging
  <2>2. Served(v.page, v.from)'
    BY <1>1, <2>1, ServedGrows
  <2>3. ASSUME NEW k
        PROVE  HasKey(<<v.page[k], k>>) => HasKey(<<v.page[k], k>>)'
    <3>1. PICK e : e = <<v.page[k], k>>
      OBVIOUS
    <3>2. HasKey(e) => HasKey(e)'
      BY HasGrows
    <3> QED
      BY <3>1, <3>2
  <2>4. Worked(v)'
    BY <2>1, <2>3 DEF Worked
  <2> QED
    BY <2>2, <2>4
<1> QED
  BY <1>1, <1>2, <1>3 DEF TickFits

\* A tick's step that takes nothing back keeps what the other ticks have.
LEMMA TickMovesOn ==
  ASSUME IndexBase, Grown, NEW t \in Ticker, NEW v, TickFits(v)', tick' = [tick EXCEPT ![t] = v],
         ChainFits', SourceFits', SavedBefore(cursor)', overlapped' \in BOOLEAN
  PROVE  IndexBase'
<1>1. tick \in [Ticker -> TickRecord] /\ v \in TickRecord /\ ChainFits
  BY DEF IndexBase, TickFits
<1>2. tick' \in [Ticker -> TickRecord]
  BY <1>1
<1>3. ASSUME NEW u \in Ticker
      PROVE  TickFits(tick[u])'
  <2>1. PICK w : w = tick[u] /\ TickFits(w)
    BY DEF IndexBase
  <2>2. TickFits(w)'
    BY <1>1, <2>1, FitsGrow
  <2>3. PICK x : x = tick'[u]
    OBVIOUS
  <2>4. x = v \/ x = w
    BY <1>1, <2>1, <2>3
  <2>5. TickFits(x)'
    BY <2>2, <2>4
  <2> QED
    BY <2>3, <2>5
<1> QED
  BY <1>2, <1>3 DEF IndexBase

\* What a tick does to its page when an event of it is saved.
EntrySaved(v) == HasKey(<<v.page[v.next], v.next>>)
GoneOn(v) == [v EXCEPT !.at = IF v.next = Len(v.page) THEN "cursor" ELSE "look", !.next = v.next + 1]
LEMMA GoesOn ==
  ASSUME NEW v, v \in TickRecord, v.at \in {"look", "writeList"}, NEW w, w = GoneOn(v)
  PROVE  TickFits(v)' /\ EntrySaved(v)' => TickFits(w)'
<1>1. v.page \in Seq(Nat) /\ v.next \in Nat
  BY DEF TickRecord
<1>2. PICK n \in Nat : n = Len(v.page)
  BY <1>1
<1>3. PICK x \in Paging : x = IF v.next = Len(v.page) THEN "cursor" ELSE "look"
  BY DEF Paging
<1>4. PICK m \in Nat : m = v.next + 1
  BY <1>1
<1>5. w = [v EXCEPT !.at = x, !.next = m]
  BY <1>3, <1>4 DEF GoneOn
<1>6. w \in TickRecord /\ w.page = v.page /\ w.from = v.from /\ w.next = m /\ w.at = x
  BY <1>5 DEF TickRecord
<1>7. \A k \in 1..n : k < m => k < v.next \/ k = v.next
  BY <1>1, <1>4
<1>8. v.next \in 1..n => IF x = "cursor" THEN m = n + 1 ELSE m \in 1..n
  BY <1>1, <1>2, <1>3, <1>4
<1>9. x \notin {"readList", "writeList", "fetch"} /\ v.at \in Paging /\ v.at # "cursor" /\ v.at # "idle"
  BY <1>3 DEF Paging
<1>10. ASSUME Worked(v)', EntrySaved(v)'
       PROVE  Worked(w)'
  BY <1>2, <1>6, <1>7, <1>8, <1>9, <1>10 DEF Worked, EntrySaved
<1>11. ASSUME TickFits(v)', EntrySaved(v)'
       PROVE  TickFits(w)'
  <2>1. Served(v.page, v.from)' /\ Worked(v)' /\ v.from <= ledgerSeq' + 1 /\ SavedBefore(v.from)'
    BY <1>9, <1>11 DEF TickFits
  <2> QED
    BY <1>6, <1>9, <1>10, <1>11, <2>1 DEF TickFits
<1> QED
  BY <1>11

LEMMA StaysAt ==
  ASSUME NEW v, TickFits(v)', v.at \in Paging \ {"cursor"}, NEW x \in {"save", "readList", "writeList"},
         x # "save" => EntrySaved(v)', NEW k \in SUBSET (Nat \X Nat),
         NEW w, w \in {[v EXCEPT !.at = x], [v EXCEPT !.at = x, !.keys = k]}
  PROVE  TickFits(w)'
<1>1. v \in TickRecord
  BY DEF TickFits
<1>2. w \in TickRecord /\ w.page = v.page /\ w.from = v.from /\ w.next = v.next /\ w.at = x
  BY <1>1 DEF TickRecord, Paging
<1>3. Served(v.page, v.from)' /\ Worked(v)' /\ v.from <= ledgerSeq' + 1 /\ SavedBefore(v.from)'
  BY DEF TickFits, Paging
<1>4. Worked(w)'
  BY <1>2, <1>3 DEF Worked, Paging, EntrySaved
<1> QED
  BY <1>2, <1>3, <1>4 DEF TickFits

LEMMA IdleFits == TickFits(IdleTick)' /\ IdleTick.at = "idle"
<1>1. IdleTick \in TickRecord /\ IdleTick.at = "idle" /\ IdleTick.at \notin Paging
  BY DEF IdleTick, TickRecord, Paging
<1> QED
  BY <1>1 DEF TickFits

-----------------------------------------------------------------------------
(* Each step keeps it *)

\* Initially nothing is served or saved.
LEMMA IndexStart == IndexInit => IndexInv
<1> SUFFICES ASSUME IndexInit PROVE IndexInv
  OBVIOUS
<1>1. chain = <<>> /\ DOMAIN chain = {} /\ Len(chain) = 0
  BY DEF IndexInit
<1>2. ChainFits /\ SourceFits
  BY <1>1 DEF IndexInit, ChainFits, SourceFits
<1>3. IdleTick \in TickRecord /\ IdleTick.at = "idle" /\ IdleTick.at \notin Paging
  BY DEF IdleTick, TickRecord, Paging
<1>4. \A t \in Ticker : TickFits(tick[t])
  BY <1>3 DEF IndexInit, TickFits
<1>5. IndexBase
  BY <1>1, <1>2, <1>3, <1>4 DEF IndexInit, IndexBase, SavedBefore
<1>6. OneByOne
  <2>1. Starts(cursor, 0) /\ 0 \in 0..Len(chain)
    BY <1>1 DEF Starts
  <2> QED
    BY <1>3, <2>1 DEF IndexInit, OneByOne
<1> QED
  BY <1>5, <1>6 DEF IndexInv

\* What a step that serves nothing keeps.
LEMMA SameChainGrows ==
  ASSUME ChainFits, UNCHANGED <<chain, source, ledgerSeq>>, cutLedgers \subseteq cutLedgers',
         overlapped => overlapped', \A e \in saved : e \in saved' \/ MayCollide(e[1])'
  PROVE  Grown
<1>1. \A i \in DOMAIN chain : MayCollide(i) => MayCollide(i)'
  BY DEF MayCollide
<1>2. \A i \in DOMAIN chain' : ~(i > Len(chain))
  BY DEF ChainFits
<1> QED
  BY <1>1, <1>2 DEF ChainFits, Grown

LEMMA CloseBase ==
  ASSUME IndexBase, NEW n \in 1..2, NEW together \in BOOLEAN, CloseLedger(n, together)
  PROVE  IndexBase' /\ Grown
<1>1. ChainFits /\ SourceFits /\ Len(chain) \in Nat /\ ledgerSeq \in Nat
  BY DEF IndexBase, ChainFits
<1>2. PICK q : q = [i \in 1..n |-> ledgerSeq + 1]
  OBVIOUS
<1>3. q \in Seq(Nat) /\ Len(q) = n /\ \A i \in 1..n : q[i] = ledgerSeq + 1
  BY <1>1, <1>2
<1>4. chain' = chain \o q /\ ledgerSeq' = ledgerSeq + 1 /\ UNCHANGED <<cursor, saved, listed, tick, cutLedgers, overlapped>>
  BY <1>2 DEF CloseLedger
<1>11. /\ source \in Seq(Nat) /\ source' \in Seq(Nat) /\ Len(source) = Len(chain) /\ Len(source') = Len(chain) + n
       /\ \A i \in 1..Len(chain) : source'[i] = source[i]
       /\ \A i \in (Len(chain) + 1)..(Len(chain) + n) :
            source'[i] \in (Len(chain) + 1)..(Len(chain) + n)
  <2>1. PICK r : r = [i \in 1..n |-> Len(chain) + (IF together THEN 1 ELSE i)]
    OBVIOUS
  <2>2. r \in Seq(Nat) /\ Len(r) = n /\ \A i \in 1..n : r[i] \in (Len(chain) + 1)..(Len(chain) + n)
    BY <1>1, <2>1
  <2>3. source' = source \o r
    BY <2>1 DEF CloseLedger
  <2>4. source \in Seq(Nat) /\ Len(source) = Len(chain)
    BY <1>1 DEF SourceFits
  <2>5. /\ source \o r \in Seq(Nat) /\ Len(source \o r) = Len(source) + n
        /\ \A i \in 1..Len(source) : (source \o r)[i] = source[i]
    BY <2>2, <2>4
  <2>6. ASSUME NEW i \in (Len(chain) + 1)..(Len(chain) + n)
        PROVE  (source \o r)[i] \in (Len(chain) + 1)..(Len(chain) + n)
    <3>1. i - Len(chain) \in 1..n /\ i \in 1..(Len(source) + n) /\ i > Len(source)
      BY <1>1, <2>4, <2>6
    <3>2. (source \o r)[i] = r[i - Len(source)]
      BY <2>2, <2>4, <3>1
    <3> QED
      BY <2>2, <2>4, <3>1, <3>2
  <2> QED
    BY <2>3, <2>4, <2>5, <2>6
<1>5. /\ chain' \in Seq(Nat) /\ Len(chain') = Len(chain) + n
      /\ \A i \in 1..Len(chain) : chain'[i] = chain[i]
      /\ \A i \in (Len(chain) + 1)..(Len(chain) + n) : chain'[i] = ledgerSeq + 1
  <2>1. chain \in Seq(Nat)
    BY <1>1 DEF ChainFits
  <2>2. /\ chain \o q \in Seq(Nat) /\ Len(chain \o q) = Len(chain) + n
        /\ \A i \in 1..Len(chain) : (chain \o q)[i] = chain[i]
    BY <1>3, <2>1
  <2>3. ASSUME NEW i \in (Len(chain) + 1)..(Len(chain) + n)
        PROVE  (chain \o q)[i] = ledgerSeq + 1
    <3>1. i - Len(chain) \in 1..n /\ i \in 1..(Len(chain) + n) /\ i > Len(chain)
      BY <1>1, <2>3
    <3>2. (chain \o q)[i] = q[i - Len(chain)]
      BY <1>3, <2>1, <3>1
    <3> QED
      BY <1>3, <3>1, <3>2
  <2> QED
    BY <1>4, <2>2, <2>3
<1>6. DOMAIN chain = 1..Len(chain) /\ DOMAIN chain' = 1..(Len(chain) + n)
      /\ \A i \in DOMAIN chain' : i \in DOMAIN chain \/ i \in (Len(chain) + 1)..(Len(chain) + n)
  BY <1>1, <1>5 DEF ChainFits
<1>7. Grown
  <2>1. \A i \in DOMAIN chain : MayCollide(i) => MayCollide(i)'
    <3>1. PICK m \in Nat : m = Len(chain)
      BY <1>1
    <3>2. DOMAIN chain = 1..m /\ 1..m \subseteq DOMAIN chain'
      BY <1>6, <3>1
    <3>3. \A i \in 1..m : source'[i] = source[i]
      BY <1>11, <3>1
    <3> QED
      BY <1>4, <3>1, <3>2, <3>3, CollisionsStay
  <2> QED
    BY <1>1, <1>4, <1>5, <1>6, <2>1 DEF Grown
<1>12. SourceFits'
  <2>1. Len(source') = Len(chain') /\ source' \in Seq(Nat)
    BY <1>5, <1>11
  <2>2. PICK m \in Nat : m = Len(chain)
    BY <1>1
  <2>3. \A i \in DOMAIN chain' : i \in 1..m \/ i \in (m + 1)..(m + n)
    BY <1>6, <2>2
  <2>4. \A i \in 1..m : source'[i] = source[i] /\ source[i] <= m /\ source[i] \in Nat
    <3>1. \A i \in DOMAIN chain : source[i] <= Len(chain)
      BY <1>1 DEF SourceFits
    <3>2. DOMAIN chain = 1..m /\ source \in Seq(Nat) /\ Len(source) = m
      BY <1>6, <1>11, <2>2
    <3>3. \A i \in 1..m : source'[i] = source[i]
      BY <1>11, <2>2
    <3> QED
      BY <2>2, <3>1, <3>2, <3>3
  <2>5. \A i \in (m + 1)..(m + n) : source'[i] \in (m + 1)..(m + n) /\ chain'[i] = ledgerSeq + 1
    BY <1>5, <1>11, <2>2
  <2>6. \A i, j \in 1..m : source[i] = source[j] => chain'[i] = chain'[j]
    <3>1. \A i, j \in DOMAIN chain : source[i] = source[j] => chain[i] = chain[j]
      BY <1>1 DEF SourceFits
    <3>2. DOMAIN chain = 1..m /\ \A i \in 1..m : chain'[i] = chain[i]
      BY <1>5, <1>6, <2>2
    <3> QED
      BY <3>1, <3>2
  <2>7. \A i \in DOMAIN chain' : source'[i] <= Len(chain')
    BY <1>5, <2>2, <2>3, <2>4, <2>5
  <2>8. \A i \in 1..m, j \in (m + 1)..(m + n) : source'[i] # source'[j]
    BY <2>4, <2>5
  <2>9. \A i, j \in DOMAIN chain' : source'[i] = source'[j] => chain'[i] = chain'[j]
    BY <2>3, <2>4, <2>5, <2>6, <2>8
  <2> QED
    BY <2>1, <2>7, <2>9 DEF SourceFits
<1>8. ChainFits'
  <2>1. \A i \in DOMAIN chain' : chain'[i] <= ledgerSeq' /\ (i \notin DOMAIN chain => chain'[i] = ledgerSeq + 1)
    BY <1>1, <1>4, <1>5, <1>6 DEF ChainFits
  <2>2. ASSUME NEW i \in DOMAIN chain', NEW j \in 1..i
        PROVE  chain'[j] <= chain'[i]
    <3>1. j \in DOMAIN chain'
      BY <1>1, <1>6
    <3>2. CASE i \in DOMAIN chain
      <4>1. j \in DOMAIN chain
        BY <1>1, <1>6, <3>2
      <4> QED
        BY <1>1, <1>5, <1>6, <3>2, <4>1 DEF ChainFits
    <3>3. CASE i \notin DOMAIN chain
      BY <1>4, <2>1, <3>1, <3>3
    <3> QED
      BY <3>2, <3>3
  <2>3. \A e \in saved' : e \in Nat \X Nat /\ e[1] \in DOMAIN chain' /\ e[2] <= PageLimit
    BY <1>1, <1>4, <1>6 DEF ChainFits
  <2>4. cursor' \in Nat /\ cursor' <= ledgerSeq' + 1 /\ ledgerSeq' \in Nat /\ listed' \subseteq Nat \X Nat
    BY <1>1, <1>4 DEF ChainFits
  <2> QED
    BY <1>5, <2>1, <2>2, <2>3, <2>4 DEF ChainFits
<1>9. SavedBefore(cursor)'
  <2>1. PICK c \in Nat : c = cursor /\ c <= ledgerSeq + 1 /\ SavedBefore(c)
    BY <1>1 DEF IndexBase, ChainFits
  <2>2. SavedBefore(c)'
    BY <1>1, <1>7, <2>1, BeforeGrows
  <2> QED
    BY <1>4, <2>1, <2>2
<1>10. ASSUME NEW u \in Ticker
       PROVE  TickFits(tick[u])'
  <2>1. PICK w : w = tick[u] /\ TickFits(w)
    BY DEF IndexBase
  <2>2. TickFits(w)'
    BY <1>1, <1>7, <2>1, FitsGrow
  <2> QED
    BY <1>4, <2>1, <2>2
<1> QED
  BY <1>4, <1>7, <1>8, <1>9, <1>10, <1>12 DEF IndexBase

\* The chain and the cursor as they were, with more events saved, or others of
\* their transactions.
LEMMA ChainStays ==
  ASSUME IndexBase, UNCHANGED <<chain, source, ledgerSeq, cursor>>, cutLedgers \subseteq cutLedgers',
         overlapped => overlapped', \A e \in saved : e \in saved' \/ MayCollide(e[1])',
         \A e \in saved' \ saved : e \in Nat \X Nat /\ e[1] \in DOMAIN chain /\ e[2] <= PageLimit,
         listed' \subseteq Nat \X Nat
  PROVE  ChainFits' /\ SourceFits' /\ SavedBefore(cursor)' /\ Grown
<1>1. ChainFits /\ SourceFits /\ Grown
  BY SameChainGrows DEF IndexBase
<1>2. ChainFits' /\ SourceFits'
  BY <1>1 DEF ChainFits, SourceFits
<1>3. SavedBefore(cursor)'
  <2>1. PICK c \in Nat : c = cursor /\ c <= ledgerSeq + 1 /\ SavedBefore(c)
    BY <1>1 DEF IndexBase, ChainFits
  <2>2. SavedBefore(c)' /\ cursor' = c
    BY <1>1, <2>1, BeforeGrows
  <2> QED
    BY <2>1, <2>2
<1> QED
  BY <1>1, <1>2, <1>3

LEMMA ReadBase ==
  ASSUME IndexBase, NEW t \in Ticker, ReadCursor(t)
  PROVE  IndexBase'
<1>1. PICK v : v = [IdleTick EXCEPT !.at = "fetch", !.from = cursor]
  OBVIOUS
<1>2. /\ tick' = [tick EXCEPT ![t] = v] /\ UNCHANGED <<chain, source, ledgerSeq, cursor, saved, listed, cutLedgers>>
      /\ overlapped' \in BOOLEAN /\ (overlapped => overlapped') /\ listed \subseteq Nat \X Nat
  BY <1>1 DEF ReadCursor, IndexBase, ChainFits
<1>3. ChainFits' /\ SourceFits' /\ SavedBefore(cursor)' /\ Grown
  BY <1>2, ChainStays
<1>4. v \in TickRecord /\ v.at = "fetch" /\ v.next = 1 /\ v.from = cursor
  <2>1. cursor \in Nat
    BY DEF IndexBase, ChainFits
  <2>2. v.at = "fetch" /\ v.page = <<>> /\ v.next = 1 /\ v.keys = {} /\ v.from = cursor
    BY <1>1 DEF IdleTick
  <2>3. v = [at |-> "fetch", page |-> <<>>, next |-> 1, keys |-> {}, from |-> cursor]
    BY <1>1 DEF IdleTick
  <2> QED
    BY <2>1, <2>2, <2>3 DEF TickRecord, Paging
<1>5. v.from = cursor' /\ cursor' <= ledgerSeq' + 1
  BY <1>2, <1>3, <1>4 DEF ChainFits
<1>6. SavedBefore(v.from)'
  BY <1>3, <1>5
<1>7. TickFits(v)'
  BY <1>4, <1>5, <1>6 DEF TickFits, Paging
<1> QED
  BY <1>2, <1>3, <1>7, TickMovesOn

\* The page that an answered request brought.
LEMMA FetchServes ==
  ASSUME IndexBase, NEW l \in Nat, NEW page, page = PageOf(l), page # <<>>, UNCHANGED chain,
         \A j \in DOMAIN chain : chain[j] = chain[page[Len(page)]] /\ j > page[Len(page)] => chain[j] \in cutLedgers'
  PROVE  page \in Seq(Nat) /\ Served(page, l)'
<1>1. PICK b \in 0..Len(chain), n \in Nat :
           /\ Starts(l, b) /\ b + n <= Len(chain) /\ n <= PageLimit
           /\ page \in Seq(Nat) /\ Len(page) = n
           /\ \A k \in 1..n : page[k] = b + k
  BY PageIs DEF IndexBase
<1>2. n > 0
  BY <1>1
<1>3. Starts(l, b)' /\ b \in 0..Len(chain')
  BY <1>1 DEF Starts
<1> QED
  BY <1>1, <1>2, <1>3 DEF Served

LEMMA FetchBase ==
  ASSUME IndexBase, NEW t \in Ticker, Fetch(t)
  PROVE  IndexBase'
<1>1. PICK old : old = tick[t] /\ TickFits(old) /\ old \in TickRecord /\ old.at = "fetch"
  BY DEF Fetch, IndexBase, TickFits
<1>2. old.from \in Nat
  BY <1>1 DEF TickRecord
<1>3. PICK page : /\ page \in {<<>>, PageOf(old.from)}
                  /\ tick' = [tick EXCEPT ![t] = IF page = <<>> THEN IdleTick
                                                 ELSE [tick[t] EXCEPT !.at = "look", !.page = page]]
                  /\ cutLedgers' = cutLedgers \cup
                       {chain[i] : i \in {j \in DOMAIN chain : /\ page # <<>>
                                                                /\ chain[j] = chain[page[Len(page)]]
                                                                /\ j > page[Len(page)]}}
  BY <1>1 DEF Fetch
<1>4. UNCHANGED <<chain, source, ledgerSeq, cursor, saved, listed, overlapped>> /\ listed \subseteq Nat \X Nat
  BY DEF Fetch, IndexBase, ChainFits
<1>5. cutLedgers \subseteq cutLedgers'
  BY <1>3
<1>6. ChainFits' /\ SourceFits' /\ SavedBefore(cursor)' /\ Grown /\ overlapped' \in BOOLEAN
  BY <1>4, <1>5, ChainStays DEF IndexBase
<1>7. CASE page = <<>>
  <2>1. tick' = [tick EXCEPT ![t] = IdleTick]
    BY <1>3, <1>7
  <2> QED
    BY <1>6, <2>1, IdleFits, TickMovesOn
<1>8. CASE page # <<>>
  <2>1. PICK v : v = [old EXCEPT !.at = "look", !.page = page]
    OBVIOUS
  <2>2. tick' = [tick EXCEPT ![t] = v]
    BY <1>1, <1>3, <1>8, <2>1
  <2>3. \A j \in DOMAIN chain : chain[j] = chain[page[Len(page)]] /\ j > page[Len(page)] => chain[j] \in cutLedgers'
    BY <1>3, <1>8
  <2>4. page = PageOf(old.from)
    BY <1>3, <1>8
  <2>5. page \in Seq(Nat) /\ Served(page, old.from)'
    BY <1>2, <1>4, <1>8, <2>3, <2>4, FetchServes
  <2>6. v \in TickRecord /\ v.at = "look" /\ v.page = page /\ v.from = old.from /\ v.next = old.next
    BY <1>1, <2>1, <2>5 DEF TickRecord, Paging
  <2>7. old.from <= ledgerSeq' + 1 /\ SavedBefore(old.from)'
    <3>1. TickFits(old)'
      BY <1>1, <1>6, FitsGrow DEF IndexBase
    <3> QED
      BY <1>1, <3>1 DEF TickFits
  <2>8. Worked(v)'
    <3>1. old.next = 1
      BY <1>1 DEF TickFits
    <3>2. Len(page) \in Nat /\ Len(page) > 0
      BY <2>5 DEF Served
    <3>3. \A k \in 1..Len(page) : ~(k < 1)
      BY <3>2
    <3> QED
      BY <2>6, <3>1, <3>2, <3>3 DEF Worked
  <2>9. TickFits(v)'
    BY <2>5, <2>6, <2>7, <2>8 DEF TickFits
  <2> QED
    BY <1>6, <2>2, <2>9, TickMovesOn
<1> QED
  BY <1>7, <1>8

\* An event of a page, with its position, as a tick has it in hand.
LEMMA EntryFits ==
  ASSUME IndexBase, NEW t \in Ticker, NEW v, v = tick[t], v.at \in Paging \ {"cursor"}
  PROVE  /\ TickFits(v) /\ v \in TickRecord /\ Entry(t) = <<v.page[v.next], v.next>>
         /\ Entry(t) \in Nat \X Nat /\ Entry(t)[1] \in DOMAIN chain /\ Entry(t)[2] <= PageLimit
         /\ v.at \in {"readList", "writeList"} => HasKey(Entry(t))
         /\ EventKey(Entry(t)) \in Nat \X Nat
<1>1. TickFits(v) /\ v \in TickRecord /\ Entry(t) = <<v.page[v.next], v.next>>
  BY DEF IndexBase, TickFits, Entry
<1>2. Served(v.page, v.from) /\ Worked(v)
  BY <1>1 DEF TickFits, Paging
<1>3. PICK n \in Nat : n = Len(v.page)
  BY <1>1 DEF TickRecord
<1>4. n <= PageLimit /\ v.next \in 1..n
  BY <1>2, <1>3 DEF Served, Worked, Paging
<1>5. PICK b \in 0..Len(chain) : b + n <= Len(chain) /\ \A k \in 1..n : v.page[k] = b + k
  BY <1>2, <1>3 DEF Served
<1>6. v.page[v.next] = b + v.next
  BY <1>4, <1>5
<1>7. Len(chain) \in Nat /\ DOMAIN chain = 1..Len(chain) /\ PageLimit \in Nat
  BY IndexerAssumption DEF IndexBase, ChainFits
<1>8. v.page[v.next] \in 1..Len(chain) /\ v.page[v.next] \in Nat /\ v.next \in Nat /\ v.next <= PageLimit
  BY <1>4, <1>5, <1>6, <1>7
<1>9. v.at \in {"readList", "writeList"} => HasKey(Entry(t))
  BY <1>1, <1>2 DEF Worked
<1>10. EventKey(Entry(t)) \in Nat \X Nat
  <2>1. source[v.page[v.next]] \in Nat
    BY <1>7, <1>8 DEF IndexBase, SourceFits
  <2>2. EventKey(<<v.page[v.next], v.next>>) = <<source[v.page[v.next]], v.next>>
    BY DEF EventKey
  <2> QED
    BY <1>1, <1>8, <2>1, <2>2
<1> QED
  BY <1>1, <1>7, <1>8, <1>9, <1>10

LEMMA OneStart ==
  ASSUME ChainFits, NEW l, NEW b, NEW c, Starts(l, b), Starts(l, c)
  PROVE  b = c
<1>1. Len(chain) \in Nat /\ DOMAIN chain = 1..Len(chain)
  BY DEF ChainFits
<1>2. b \in 0..Len(chain) /\ c \in 0..Len(chain)
  BY DEF Starts
<1>3. \A i \in 1..Len(chain) : i <= b <=> i <= c
  BY <1>1 DEF Starts
<1>4. CASE b < c
  <2>1. c \in 1..Len(chain) /\ ~(c <= b)
    BY <1>1, <1>2, <1>4
  <2> QED
    BY <1>2, <1>3, <2>1
<1>5. CASE c < b
  <2>1. b \in 1..Len(chain) /\ ~(b <= c)
    BY <1>1, <1>2, <1>5
  <2> QED
    BY <1>2, <1>3, <2>1
<1> QED
  BY <1>2, <1>4, <1>5

\* Who finds the key taken finds the event itself, unless ticks overlap: the
\* events of its transaction lie behind the cursor as it does.
LEMMA KeyTaken ==
  ASSUME IndexInv, NEW t \in Ticker, tick[t].at \in Paging \ {"cursor"},
         NEW e \in saved, EventKey(e) = EventKey(Entry(t)), e # Entry(t)
  PROVE  MayCollide(e[1]) /\ MayCollide(Entry(t)[1])
<1>1. PICK v : v = tick[t]
  OBVIOUS
<1>2. /\ TickFits(v) /\ v \in TickRecord /\ Entry(t) = <<v.page[v.next], v.next>>
      /\ Entry(t) \in Nat \X Nat /\ Entry(t)[1] \in DOMAIN chain
  BY <1>1, EntryFits DEF IndexInv
<1>3. PICK i \in DOMAIN chain, k \in Nat : Entry(t) = <<i, k>> /\ i = v.page[v.next] /\ k = v.next
  BY <1>2
<1>4. PICK j \in DOMAIN chain, m \in Nat : e = <<j, m>>
  BY DEF IndexInv, IndexBase, ChainFits
<1>5. source[i] = source[j] /\ k = m /\ i # j
  BY <1>3, <1>4 DEF EventKey
<1>6. ASSUME ~overlapped
      PROVE  FALSE
  <2>1. OneByOne /\ ChainFits /\ SourceFits
    BY <1>6 DEF IndexInv, IndexBase
  <2>2. Served(v.page, v.from) /\ Worked(v) /\ v.from = cursor
    BY <1>1, <1>2, <2>1 DEF TickFits, Paging, OneByOne
  <2>3. PICK n \in Nat : n = Len(v.page)
    BY <1>2 DEF TickRecord
  <2>4. PICK b \in 0..Len(chain) : Starts(cursor, b) /\ \A x \in 1..n : v.page[x] = b + x
    BY <2>2, <2>3 DEF Served
  <2>5. k \in 1..n /\ i = b + k
    BY <1>1, <1>3, <2>2, <2>3, <2>4 DEF Worked
  <2>6. PICK c \in 0..Len(chain) : Starts(cursor, c) /\ \A d \in saved : d[1] > c => d[1] = c + d[2]
    BY <2>1 DEF OneByOne
  <2>7. b = c
    BY <2>1, <2>4, <2>6, OneStart
  <2>8. e[1] = j /\ e[2] = k
    BY <1>4, <1>5
  <2>9. ~(j > b)
    BY <1>5, <2>5, <2>6, <2>7, <2>8
  <2>10. chain[i] = chain[j]
    BY <1>5, <2>1 DEF SourceFits
  <2>11. i \in Nat /\ j \in Nat /\ b \in Nat
    BY <2>1 DEF ChainFits
  <2>12. j <= b /\ ~(i <= b)
    BY <2>5, <2>9, <2>11
  <2> QED
    BY <2>4, <2>10, <2>12 DEF Starts
<1> QED
  BY <1>3, <1>4, <1>5, <1>6 DEF MayCollide, IndexInv, IndexBase

LEMMA LookBase ==
  ASSUME IndexInv, NEW t \in Ticker, LookForEvent(t)
  PROVE  IndexBase'
<1>1. PICK v : v = tick[t] /\ v.at = "look"
  BY DEF LookForEvent
<1>2. TickFits(v) /\ v \in TickRecord /\ Entry(t) = <<v.page[v.next], v.next>>
  BY <1>1, EntryFits DEF Paging, IndexInv
<1>3. UNCHANGED <<chain, source, ledgerSeq, cursor, saved, listed, cutLedgers, overlapped>> /\ listed \subseteq Nat \X Nat
  BY DEF LookForEvent, IndexInv, IndexBase, ChainFits
<1>4. ChainFits' /\ SourceFits' /\ SavedBefore(cursor)' /\ Grown /\ overlapped' \in BOOLEAN
  BY <1>3, ChainStays DEF IndexInv, IndexBase
<1>5. TickFits(v)'
  BY <1>2, <1>4, FitsGrow DEF IndexInv, IndexBase
<1>6. CASE Under(EventKey(Entry(t))) # {}
  <2>1. PICK w : w = GoneOn(v) /\ tick' = [tick EXCEPT ![t] = w]
    BY <1>1, <1>6 DEF LookForEvent, Advance, GoneOn
  <2>2. EntrySaved(v)'
    <3>1. PICK e \in saved : EventKey(e) = EventKey(Entry(t))
      BY <1>6 DEF Under
    <3>2. e # Entry(t) => MayCollide(Entry(t)[1])
      BY <1>1, <3>1, KeyTaken DEF Paging
    <3>3. PICK d : d = Entry(t)
      OBVIOUS
    <3>4. HasKey(d)
      <4>1. d[1] \in DOMAIN chain
        BY <1>1, <3>3, EntryFits DEF Paging, IndexInv
      <4> QED
        BY <3>1, <3>2, <3>3, <4>1 DEF HasKey
    <3>5. HasKey(d)'
      BY <1>4, <3>4, HasGrows DEF IndexInv, IndexBase
    <3> QED
      BY <1>2, <3>3, <3>5 DEF EntrySaved
  <2>3. TickFits(w)'
    BY <1>1, <1>2, <1>5, <2>1, <2>2, GoesOn
  <2> QED
    BY <1>4, <2>1, <2>3, TickMovesOn DEF IndexInv
<1>7. CASE Under(EventKey(Entry(t))) = {}
  <2>1. PICK w : w = [v EXCEPT !.at = "save"] /\ tick' = [tick EXCEPT ![t] = w]
    BY <1>1, <1>7 DEF LookForEvent
  <2>2. v.at \in Paging \ {"cursor"} /\ {} \in SUBSET (Nat \X Nat)
    BY <1>1 DEF Paging
  <2>3. TickFits(w)'
    BY <1>5, <2>1, <2>2, StaysAt
  <2> QED
    BY <1>4, <2>1, <2>3, TickMovesOn DEF IndexInv
<1> QED
  BY <1>6, <1>7

LEMMA SaveBase ==
  ASSUME IndexInv, NEW t \in Ticker, SaveEvent(t)
  PROVE  IndexBase'
<1>1. PICK v : v = tick[t] /\ v.at = "save"
  BY DEF SaveEvent
<1>2. /\ TickFits(v) /\ v \in TickRecord /\ Entry(t) = <<v.page[v.next], v.next>>
      /\ Entry(t) \in Nat \X Nat /\ Entry(t)[1] \in DOMAIN chain /\ Entry(t)[2] <= PageLimit
  BY <1>1, EntryFits DEF Paging, IndexInv
<1>3. /\ UNCHANGED <<chain, source, ledgerSeq, cursor, listed, cutLedgers, overlapped>> /\ listed \subseteq Nat \X Nat
      /\ saved' = (saved \ Under(EventKey(Entry(t)))) \cup {Entry(t)}
  BY DEF SaveEvent, IndexInv, IndexBase, ChainFits
<1>4. ChainFits' /\ SourceFits' /\ SavedBefore(cursor)' /\ Grown /\ overlapped' \in BOOLEAN
  <2>1. \A e \in saved' \ saved : e = Entry(t)
    BY <1>3
  <2>2. ASSUME NEW e \in saved, e \notin saved'
        PROVE  MayCollide(e[1])'
    <3>1. EventKey(e) = EventKey(Entry(t)) /\ e # Entry(t)
      BY <1>3, <2>2 DEF Under
    <3>2. MayCollide(e[1])
      BY <1>1, <3>1, KeyTaken DEF Paging
    <3> QED
      BY <1>3, <3>2 DEF MayCollide
  <2> QED
    BY <1>2, <1>3, <2>1, <2>2, ChainStays DEF IndexInv, IndexBase
<1>5. TickFits(v)' /\ EntrySaved(v)'
  <2>1. TickFits(v)'
    BY <1>2, <1>4, FitsGrow DEF IndexInv, IndexBase
  <2>2. Entry(t) \in saved' /\ v.page[v.next] = Entry(t)[1] /\ v.next = Entry(t)[2]
    BY <1>2, <1>3
  <2> QED
    BY <1>2, <2>1, <2>2 DEF EntrySaved, HasKey
<1>6. PICK w : w = [v EXCEPT !.at = "readList"] /\ tick' = [tick EXCEPT ![t] = w]
  BY <1>1 DEF SaveEvent
<1>7. v.at \in Paging \ {"cursor"} /\ {} \in SUBSET (Nat \X Nat)
  BY <1>1 DEF Paging
<1>8. TickFits(w)'
  BY <1>5, <1>6, <1>7, StaysAt
<1> QED
  BY <1>4, <1>6, <1>8, TickMovesOn DEF IndexInv

LEMMA ListBase ==
  ASSUME IndexBase, NEW t \in Ticker, ReadProductKeys(t) \/ WriteProductKeys(t)
  PROVE  IndexBase'
<1>1. PICK v : v = tick[t] /\ v.at \in {"readList", "writeList"}
  BY DEF ReadProductKeys, WriteProductKeys
<1>2. /\ TickFits(v) /\ v \in TickRecord /\ Entry(t) = <<v.page[v.next], v.next>>
      /\ EventKey(Entry(t)) \in Nat \X Nat /\ HasKey(Entry(t))
  BY <1>1, EntryFits DEF Paging
<1>3. UNCHANGED <<chain, source, ledgerSeq, cursor, saved, cutLedgers, overlapped>>
  BY DEF ReadProductKeys, WriteProductKeys
<1>4. listed \subseteq Nat \X Nat /\ v.keys \subseteq Nat \X Nat
  BY <1>2 DEF IndexBase, ChainFits, TickRecord
<1>5. listed' \subseteq Nat \X Nat
  BY <1>1, <1>2, <1>4 DEF ReadProductKeys, WriteProductKeys
<1>6. ChainFits' /\ SourceFits' /\ SavedBefore(cursor)' /\ Grown /\ overlapped' \in BOOLEAN
  BY <1>3, <1>5, ChainStays DEF IndexBase
<1>7. TickFits(v)' /\ EntrySaved(v)'
  <2>1. PICK d : d = Entry(t)
    OBVIOUS
  <2>2. HasKey(d)'
    BY <1>2, <1>6, <2>1, HasGrows DEF IndexBase
  <2>3. TickFits(v)'
    BY <1>2, <1>6, FitsGrow DEF IndexBase
  <2> QED
    BY <1>2, <2>1, <2>2, <2>3 DEF EntrySaved
<1>8. CASE ReadProductKeys(t)
  <2>1. PICK w : w = [v EXCEPT !.at = "writeList", !.keys = listed] /\ tick' = [tick EXCEPT ![t] = w]
    BY <1>1, <1>8 DEF ReadProductKeys
  <2>2. v.at \in Paging \ {"cursor"} /\ listed \in SUBSET (Nat \X Nat)
    BY <1>1, <1>4 DEF Paging
  <2>3. TickFits(w)'
    BY <1>7, <2>1, <2>2, StaysAt
  <2> QED
    BY <1>6, <2>1, <2>3, TickMovesOn
<1>9. CASE WriteProductKeys(t)
  <2>1. PICK w : w = GoneOn(v) /\ tick' = [tick EXCEPT ![t] = w]
    BY <1>1, <1>9 DEF WriteProductKeys, Advance, GoneOn
  <2>2. v.at \in {"look", "writeList"}
    BY <1>1, <1>9 DEF WriteProductKeys
  <2>3. TickFits(w)'
    BY <1>2, <1>7, <2>1, <2>2, GoesOn
  <2> QED
    BY <1>6, <2>1, <2>3, TickMovesOn
<1> QED
  BY <1>8, <1>9

LEMMA SetBase ==
  ASSUME IndexBase, NEW t \in Ticker, SetCursor(t)
  PROVE  IndexBase'
<1>1. PICK v : v = tick[t] /\ v.at = "cursor" /\ v \in TickRecord /\ TickFits(v)
  BY DEF SetCursor, IndexBase, TickFits
<1>2. Served(v.page, v.from) /\ Worked(v) /\ v.from <= ledgerSeq + 1 /\ SavedBefore(v.from)
  BY <1>1 DEF TickFits, Paging
<1>3. PICK n \in Nat : n = Len(v.page) /\ n > 0 /\ v.next = n + 1 /\ \A k \in 1..n : HasKey(<<v.page[k], k>>)
  <2>1. PICK n \in Nat : n = Len(v.page)
    BY <1>1 DEF TickRecord
  <2>2. n > 0 /\ v.next = n + 1 /\ \A k \in 1..n : k < v.next => HasKey(<<v.page[k], k>>)
    BY <1>1, <1>2, <2>1 DEF Served, Worked
  <2>3. \A k \in 1..n : k < n + 1
    OBVIOUS
  <2> QED
    BY <2>1, <2>2, <2>3
<1>4. PICK b \in 0..Len(chain) : Starts(v.from, b) /\ b + n <= Len(chain) /\ \A k \in 1..n : v.page[k] = b + k
  BY <1>2, <1>3 DEF Served
<1>5. Len(chain) \in Nat /\ DOMAIN chain = 1..Len(chain) /\ b + n \in DOMAIN chain /\ v.page[n] = b + n
  <2>1. chain \in Seq(Nat)
    BY DEF IndexBase, ChainFits
  <2>2. Len(chain) \in Nat /\ DOMAIN chain = 1..Len(chain)
    BY <2>1
  <2> QED
    BY <1>3, <1>4, <2>2
<1>6. PICK last \in Nat : last = chain[b + n] /\ last <= ledgerSeq /\ ledgerSeq \in Nat
  BY <1>5 DEF IndexBase, ChainFits
<1>7. /\ UNCHANGED <<chain, source, ledgerSeq, saved, listed, cutLedgers, overlapped>>
      /\ tick' = [tick EXCEPT ![t] = IdleTick] /\ cursor' = last + 1
  BY <1>1, <1>3, <1>5, <1>6 DEF SetCursor, CursorBehind, LastLedger
<1>8. ChainFits' /\ SourceFits'
  <2>1. ChainFits'
    BY <1>6, <1>7, SMTT(20) DEF IndexBase, ChainFits
  <2>2. SourceFits'
    BY <1>7 DEF IndexBase, SourceFits
  <2> QED
    BY <2>1, <2>2
<1>9. Grown
  BY <1>7, SameChainGrows DEF IndexBase
<1>10. SavedBefore(cursor)'
  <2> SUFFICES ASSUME NEW i \in DOMAIN chain, chain[i] < last + 1, chain[i] \notin cutLedgers, ~MayCollide(i)
               PROVE  IsSaved(i)
    BY <1>7 DEF SavedBefore, MayCollide, IsSaved
  <2>1. CASE i <= b
    BY <1>2, <1>4, <2>1 DEF Starts, SavedBefore
  <2>2. CASE i > b /\ i <= b + n
    <3>1. i - b \in 1..n /\ v.page[i - b] = b + (i - b) /\ b + (i - b) = i
      BY <1>4, <1>5, <2>2
    <3>2. HasKey(<<v.page[i - b], i - b>>) /\ v.page[i - b] = i
      BY <1>3, <3>1
    <3>3. HasKey(<<i, i - b>>) /\ <<i, i - b>>[1] = i
      BY <3>2
    <3> QED
      BY <3>3 DEF HasKey, IsSaved
  <2>3. CASE i > b + n
    <3>1. chain[b + n] <= chain[i] /\ chain[i] \in Nat
      <4>1. b + n \in 1..i /\ i \in DOMAIN chain
        BY <1>3, <1>4, <1>5, <2>3
      <4> QED
        BY <4>1 DEF IndexBase, ChainFits
    <3>2. chain[i] = last
      BY <1>6, <3>1
    <3> QED
      BY <1>2, <1>3, <1>5, <1>6, <2>3, <3>2 DEF Served
  <2> QED
    BY <1>5, <2>1, <2>2, <2>3
<1> QED
  BY <1>7, <1>8, <1>9, <1>10, IdleFits, TickMovesOn DEF IndexBase

LEMMA DeathBase ==
  ASSUME IndexBase, NEW t \in Ticker, TickDies(t)
  PROVE  IndexBase'
<1>1. /\ UNCHANGED <<chain, source, ledgerSeq, cursor, saved, listed, cutLedgers, overlapped>> /\ listed \subseteq Nat \X Nat
      /\ tick' = [tick EXCEPT ![t] = IdleTick]
  BY DEF TickDies, IndexBase, ChainFits
<1>2. ChainFits' /\ SourceFits' /\ SavedBefore(cursor)' /\ Grown
  BY <1>1, ChainStays
<1> QED
  BY <1>1, <1>2, IdleFits, TickMovesOn DEF IndexBase

-----------------------------------------------------------------------------
(* Ticks one by one: an event comes at the same position of every page     *)
(* from the same cursor.                                                   *)

\* A tick that goes on with its page, or ends, changes none of this.
LEMMA GoesOnAlone ==
  ASSUME IndexBase, OneByOne, NEW t \in Ticker, NEW w, tick' = [tick EXCEPT ![t] = w],
         w.at # "idle" => tick[t].at # "idle" /\ w.from = tick[t].from,
         w.at \in Paging => tick[t].at \in Paging /\ w.page = tick[t].page,
         UNCHANGED <<chain, saved, cursor>>
  PROVE  OneByOne'
<1>1. \A u \in Ticker : tick'[u] = IF u = t THEN w ELSE tick[u]
  BY DEF IndexBase
<1>2. \A u \in Ticker : tick'[u].at # "idle" => tick[u].at # "idle" /\ tick'[u].from = tick[u].from
  BY <1>1
<1>3. \A u \in Ticker : tick'[u].at \in Paging => tick[u].at \in Paging /\ tick'[u].page = tick[u].page
  BY <1>1
<1>4. \A u, x \in Ticker : tick'[u].at # "idle" /\ tick'[x].at # "idle" => u = x
  BY <1>2 DEF OneByOne
<1>5. \A u \in Ticker : tick'[u].at # "idle" => tick'[u].from = cursor'
  BY <1>2 DEF OneByOne
<1>6. \A u \in Ticker : tick'[u].at \in Paging =>
        \A e \in saved' : e[1] <= tick'[u].page[Len(tick'[u].page)]
  BY <1>3 DEF OneByOne
<1>7. /\ \E b \in 0..Len(chain') : Starts(cursor, b)' /\ \A e \in saved' : e[1] > b => e[1] = b + e[2]
      /\ \A d, e \in saved' : d[1] = e[1] => d = e
  <2>1. PICK b \in 0..Len(chain) : Starts(cursor, b) /\ \A e \in saved : e[1] > b => e[1] = b + e[2]
    BY DEF OneByOne
  <2>2. Starts(cursor, b)'
    BY <2>1 DEF Starts
  <2> QED
    BY <2>1, <2>2 DEF OneByOne
<1> QED
  BY <1>4, <1>5, <1>6, <1>7 DEF OneByOne

LEMMA CloseAlone ==
  ASSUME IndexBase, OneByOne, NEW n \in 1..2, NEW together \in BOOLEAN, CloseLedger(n, together)
  PROVE  OneByOne'
<1>1. UNCHANGED <<cursor, saved, tick>>
  BY DEF CloseLedger
<1>2. ChainFits /\ Grown /\ cursor \in Nat /\ cursor <= ledgerSeq + 1
  BY CloseBase DEF IndexBase, ChainFits
<1>3. PICK b \in 0..Len(chain) : Starts(cursor, b) /\ \A e \in saved : e[1] > b => e[1] = b + e[2]
  BY DEF OneByOne
<1>4. PICK c \in Nat : c = cursor
  BY <1>2
<1>5. Starts(c, b)'
  BY <1>2, <1>3, <1>4, BeforeGrows
<1>6. Starts(cursor, b)' /\ b \in 0..Len(chain')
  <2>1. cursor' = c
    BY <1>1, <1>4
  <2> QED
    BY <1>5, <2>1 DEF Starts
<1> QED
  BY <1>1, <1>3, <1>6 DEF OneByOne

LEMMA ReadAlone ==
  ASSUME IndexBase, ~overlapped => OneByOne, NEW t \in Ticker, ReadCursor(t), ~overlapped'
  PROVE  OneByOne'
<1>1. OneByOne /\ \A u \in Ticker : tick[u].at = "idle"
  BY DEF ReadCursor
<1>2. PICK v : v = [IdleTick EXCEPT !.at = "fetch", !.from = cursor]
  OBVIOUS
<1>3. tick' = [tick EXCEPT ![t] = v] /\ UNCHANGED <<chain, saved, cursor>> /\ v.at = "fetch" /\ v.from = cursor
  BY <1>2 DEF ReadCursor, IdleTick
<1>4. \A u \in Ticker : tick'[u] = IF u = t THEN v ELSE tick[u]
  BY <1>3 DEF IndexBase
<1>5. \A u \in Ticker : tick'[u].at # "idle" => u = t /\ tick'[u].from = cursor'
  BY <1>1, <1>3, <1>4
<1>6. \A u \in Ticker : tick'[u].at \notin Paging
  BY <1>1, <1>3, <1>4 DEF Paging
<1>7. /\ \E b \in 0..Len(chain') : Starts(cursor, b)' /\ \A e \in saved' : e[1] > b => e[1] = b + e[2]
      /\ \A d, e \in saved' : d[1] = e[1] => d = e
  <2>1. PICK b \in 0..Len(chain) : Starts(cursor, b) /\ \A e \in saved : e[1] > b => e[1] = b + e[2]
    BY <1>1 DEF OneByOne
  <2>2. Starts(cursor, b)'
    BY <1>3, <2>1 DEF Starts
  <2> QED
    BY <1>1, <1>3, <2>1, <2>2 DEF OneByOne
<1> QED
  BY <1>5, <1>6, <1>7 DEF OneByOne

\* All saved before lies before the end of a page that starts at the cursor.
LEMMA FetchAlone ==
  ASSUME IndexBase, OneByOne, NEW t \in Ticker, Fetch(t)
  PROVE  OneByOne'
<1>1. UNCHANGED <<chain, saved, cursor>> /\ tick[t].at = "fetch"
  BY DEF Fetch
<1>2. PICK page : /\ page \in {<<>>, PageOf(tick[t].from)}
                  /\ tick' = [tick EXCEPT ![t] = IF page = <<>> THEN IdleTick
                                                 ELSE [tick[t] EXCEPT !.at = "look", !.page = page]]
  BY DEF Fetch
<1>3. CASE page = <<>>
  <2>1. tick' = [tick EXCEPT ![t] = IdleTick] /\ IdleTick.at = "idle" /\ IdleTick.at \notin Paging
    BY <1>2, <1>3 DEF IdleTick, Paging
  <2> QED
    BY <1>1, <2>1, GoesOnAlone
<1>4. CASE page # <<>>
  <2>1. PICK w : w = [tick[t] EXCEPT !.at = "look", !.page = page]
    OBVIOUS
  <2>2. tick[t] \in TickRecord /\ tick[t].from = cursor /\ cursor \in Nat /\ page = PageOf(cursor)
    BY <1>1, <1>2, <1>4 DEF IndexBase, OneByOne, ChainFits
  <2>3. w.at = "look" /\ w.page = page /\ w.from = cursor
    BY <2>1, <2>2 DEF TickRecord
  <2>4. \A u \in Ticker : tick'[u] = IF u = t THEN w ELSE tick[u]
    BY <1>2, <1>4, <2>1 DEF IndexBase
  <2>5. PICK b \in 0..Len(chain), n \in Nat :
           /\ Starts(cursor, b) /\ b + n <= Len(chain)
           /\ n = PageLimit \/ b + n = Len(chain)
           /\ page \in Seq(Nat) /\ Len(page) = n
           /\ \A k \in 1..n : page[k] = b + k
    BY <2>2, PageIs DEF IndexBase
  <2>6. PICK c \in 0..Len(chain) : Starts(cursor, c) /\ \A e \in saved : e[1] > c => e[1] = c + e[2]
    BY DEF OneByOne
  <2>7. Len(chain) \in Nat /\ DOMAIN chain = 1..Len(chain)
    BY DEF IndexBase, ChainFits
  <2>8. n \in Nat /\ b \in Nat /\ n > 0
    <3>1. page \in Seq(Nat) /\ page # <<>>
      BY <1>4, <2>5
    <3>2. Len(page) > 0
      BY <3>1
    <3>3. n > 0
      BY <2>5, <3>2
    <3> QED
      BY <2>7, <3>3
  <2>9. \A e \in saved : e[1] > b => e[1] = b + e[2]
    <3>1. b = c
      BY <2>5, <2>6, OneStart DEF IndexBase
    <3> QED
      BY <2>6, <3>1
  <2>10. ASSUME NEW e \in saved
        PROVE  e[1] <= page[Len(page)]
    <3>1. e[1] \in Nat /\ e[2] \in Nat /\ e[1] <= Len(chain) /\ e[2] <= PageLimit /\ PageLimit \in Nat
      BY <2>7, IndexerAssumption DEF IndexBase, ChainFits
    <3>2. e[1] > b => e[1] = b + e[2]
      BY <2>9
    <3>3. page[Len(page)] = b + n
      <4>1. n \in 1..n /\ Len(page) = n
        BY <2>5, <2>8
      <4> QED
        BY <2>5, <4>1
    <3>4. e[1] <= b + n
      <4>1. CASE e[1] > b /\ n = PageLimit
        BY <2>8, <3>1, <3>2, <4>1
      <4>2. CASE b + n = Len(chain)
        BY <3>1, <4>2
      <4>3. CASE ~(e[1] > b)
        BY <2>8, <3>1, <4>3
      <4> QED
        BY <2>5, <4>1, <4>2, <4>3
    <3> QED
      BY <3>3, <3>4
  <2>11. \A u \in Ticker : tick'[u].at # "idle" => u = t /\ tick'[u].from = cursor'
    BY <1>1, <2>3, <2>4 DEF OneByOne
  <2>12. \A u \in Ticker : tick'[u].at \in Paging => \A e \in saved' : e[1] <= tick'[u].page[Len(tick'[u].page)]
    <3>1. \A u \in Ticker : tick'[u].at \in Paging => tick'[u] = w
      BY <2>4, <2>11 DEF Paging
    <3> QED
      BY <1>1, <2>3, <2>10, <3>1
  <2>13. \E d \in 0..Len(chain') : Starts(cursor, d)' /\ \A e \in saved' : e[1] > d => e[1] = d + e[2]
    <3>1. Starts(cursor, c)'
      BY <1>1, <2>6 DEF Starts
    <3> QED
      BY <1>1, <2>6, <3>1
  <2> QED
    BY <1>1, <2>11, <2>12, <2>13 DEF OneByOne
<1> QED
  BY <1>3, <1>4

\* The event saved comes where the page has it, and so does one with its index.
LEMMA SaveAlone ==
  ASSUME IndexBase, OneByOne, NEW t \in Ticker, SaveEvent(t)
  PROVE  OneByOne'
<1>1. PICK v : v = tick[t] /\ v.at = "save"
  BY DEF SaveEvent
<1>2. /\ TickFits(v) /\ v \in TickRecord /\ Entry(t) = <<v.page[v.next], v.next>>
      /\ Entry(t) \in Nat \X Nat
  BY <1>1, EntryFits DEF Paging
<1>3. UNCHANGED <<chain, cursor>> /\ saved' \subseteq saved \cup {Entry(t)}
  BY DEF SaveEvent
<1>4. PICK w : w = [v EXCEPT !.at = "readList"] /\ tick' = [tick EXCEPT ![t] = w]
  BY <1>1 DEF SaveEvent
<1>5. w.at = "readList" /\ w.page = v.page /\ w.from = v.from
  BY <1>2, <1>4 DEF TickRecord
<1>6. \A u \in Ticker : tick'[u] = IF u = t THEN w ELSE tick[u]
  BY <1>4 DEF IndexBase
<1>7. Served(v.page, v.from) /\ Worked(v) /\ v.from = cursor
  BY <1>1, <1>2 DEF TickFits, Paging, OneByOne
<1>8. PICK n \in Nat : n = Len(v.page)
  BY <1>2 DEF TickRecord
<1>9. PICK b \in 0..Len(chain) : Starts(cursor, b) /\ \A k \in 1..n : v.page[k] = b + k
  BY <1>7, <1>8 DEF Served
<1>10. PICK c \in 0..Len(chain) : Starts(cursor, c) /\ \A e \in saved : e[1] > c => e[1] = c + e[2]
  BY DEF OneByOne
<1>11. b = c
  BY <1>9, <1>10, OneStart DEF IndexBase
<1>12. v.next \in 1..n /\ n > 0
  BY <1>1, <1>7, <1>8 DEF Worked, Served
<1>13. PICK i \in Nat, k \in 1..n : Entry(t) = <<i, k>> /\ i = b + k /\ v.page[n] = b + n
  BY <1>2, <1>9, <1>12
<1>14. \A e \in saved' : e \in saved \/ e = <<i, k>>
  BY <1>3, <1>13
<1>15. Len(chain) \in Nat /\ \A e \in saved : e \in Nat \X Nat
  BY DEF IndexBase, ChainFits
<1>16. \E d \in 0..Len(chain') : Starts(cursor, d)' /\ \A e \in saved' : e[1] > d => e[1] = d + e[2]
  <2>1. Starts(cursor, c)'
    BY <1>3, <1>10 DEF Starts
  <2>2. <<i, k>>[1] = c + <<i, k>>[2]
    BY <1>11, <1>13
  <2> QED
    BY <1>3, <1>10, <1>14, <2>1, <2>2
<1>17. \A d, e \in saved' : d[1] = e[1] => d = e
  <2>1. ASSUME NEW e \in saved, e[1] = i
        PROVE  e = <<i, k>>
    <3>1. e[1] > c
      BY <1>11, <1>13, <2>1
    <3>2. e[2] \in Nat /\ e[1] = c + e[2] /\ e = <<e[1], e[2]>>
      BY <1>10, <1>15, <3>1
    <3>3. e[2] = k
      BY <1>11, <1>13, <2>1, <3>2
    <3> QED
      BY <2>1, <3>2, <3>3
  <2>2. \A d, e \in saved : d[1] = e[1] => d = e
    BY DEF OneByOne
  <2> QED
    BY <1>14, <2>1, <2>2
<1>18. \A u \in Ticker : tick'[u].at # "idle" => u = t /\ tick'[u].from = cursor'
  BY <1>1, <1>3, <1>5, <1>6, <1>7 DEF OneByOne
<1>19. \A u \in Ticker : tick'[u].at \in Paging => \A e \in saved' : e[1] <= tick'[u].page[Len(tick'[u].page)]
  <2>1. \A u \in Ticker : tick'[u].at \in Paging => tick'[u] = w
    BY <1>6, <1>18 DEF Paging
  <2>2. \A e \in saved : e[1] <= v.page[n]
    BY <1>1, <1>8 DEF OneByOne, Paging
  <2>3. <<i, k>>[1] <= v.page[n]
    BY <1>13
  <2> QED
    BY <1>5, <1>8, <1>14, <2>1, <2>2, <2>3
<1> QED
  BY <1>16, <1>17, <1>18, <1>19 DEF OneByOne

\* Behind the new cursor lies all that was saved.
LEMMA SetAlone ==
  ASSUME IndexBase, OneByOne, NEW t \in Ticker, SetCursor(t)
  PROVE  OneByOne'
<1>1. PICK v : v = tick[t] /\ v.at = "cursor" /\ TickFits(v) /\ v \in TickRecord
  BY DEF SetCursor, IndexBase, TickFits
<1>2. PICK n \in Nat : n = Len(v.page) /\ n > 0
  BY <1>1 DEF TickFits, Served, TickRecord, Paging
<1>3. PICK b \in 0..Len(chain) : b + n <= Len(chain) /\ \A k \in 1..n : v.page[k] = b + k
  BY <1>1, <1>2 DEF TickFits, Served, Paging
<1>4. chain \in Seq(Nat) /\ Len(chain) \in Nat /\ DOMAIN chain = 1..Len(chain)
  BY DEF IndexBase, ChainFits
<1>5. PICK l \in DOMAIN chain : l = v.page[n]
  <2>1. n \in 1..n /\ b \in Nat /\ b + n \in Nat
    BY <1>2, <1>4
  <2>2. v.page[n] = b + n
    BY <1>3, <2>1
  <2>3. b + n \in 1..Len(chain)
    BY <1>2, <1>3, <1>4, <2>1
  <2> QED
    BY <1>4, <2>2, <2>3
<1>6. /\ UNCHANGED <<chain, saved>> /\ tick' = [tick EXCEPT ![t] = IdleTick]
      /\ cursor' = chain[l] + 1 /\ chain[l] \in Nat
  BY <1>1, <1>2, <1>4, <1>5 DEF SetCursor, CursorBehind, LastLedger
<1>7. \A e \in saved : e[1] <= l /\ e[1] \in DOMAIN chain /\ chain[e[1]] < chain[l] + 1
  <2> SUFFICES ASSUME NEW e \in saved
               PROVE  e[1] <= l /\ e[1] \in DOMAIN chain /\ chain[e[1]] < chain[l] + 1
    OBVIOUS
  <2>1. e[1] <= l /\ e[1] \in DOMAIN chain
    BY <1>1, <1>2, <1>5 DEF OneByOne, Paging, IndexBase, ChainFits
  <2>2. e[1] \in 1..l
    BY <1>4, <2>1
  <2>3. chain[e[1]] <= chain[l] /\ chain[e[1]] \in Nat
    BY <1>4, <2>1, <2>2 DEF IndexBase, ChainFits
  <2> QED
    BY <1>6, <2>1, <2>3
<1>8. PICK m \in Nat : m = chain[l] + 1
  BY <1>6
<1>9. PICK c \in 0..Len(chain) : Starts(m, c)
  BY PageIs DEF IndexBase
<1>10. \A e \in saved : ~(e[1] > c)
  <2>1. \A e \in saved : e[1] <= c
    BY <1>7, <1>8, <1>9 DEF Starts
  <2>2. \A e \in saved : e[1] \in Nat
    BY DEF IndexBase, ChainFits
  <2> QED
    BY <2>1, <2>2
<1>11. \E d \in 0..Len(chain') : Starts(cursor, d)' /\ \A e \in saved' : e[1] > d => e[1] = d + e[2]
  <2>1. Starts(cursor, c)'
    BY <1>6, <1>8, <1>9 DEF Starts
  <2> QED
    BY <1>6, <1>10, <2>1
<1>12. \A u \in Ticker : tick'[u].at = "idle"
  <2>1. \A u \in Ticker : u # t => tick[u].at = "idle"
    BY <1>1 DEF OneByOne
  <2> QED
    BY <1>6, <2>1 DEF IndexBase, IdleTick
<1>13. \A u \in Ticker : tick'[u].at \notin Paging
  BY <1>12 DEF Paging
<1> QED
  BY <1>6, <1>11, <1>12, <1>13 DEF OneByOne
LEMMA LookAlone ==
  ASSUME IndexBase, OneByOne, NEW t \in Ticker, LookForEvent(t)
  PROVE  OneByOne'
<1>1. PICK v : v = tick[t] /\ v.at = "look" /\ v.at \in Paging /\ v \in TickRecord
  BY DEF LookForEvent, IndexBase, Paging
<1>2. UNCHANGED <<chain, saved, cursor>>
  BY DEF LookForEvent
<1>3. PICK w : /\ tick' = [tick EXCEPT ![t] = w]
               /\ w = GoneOn(v) \/ w = [v EXCEPT !.at = "save"]
  BY <1>1 DEF LookForEvent, Advance, GoneOn
<1>4. w.page = v.page /\ w.from = v.from /\ v.at # "idle"
  BY <1>1, <1>3 DEF TickRecord, GoneOn
<1> QED
  BY <1>1, <1>2, <1>3, <1>4, GoesOnAlone

LEMMA ListAlone ==
  ASSUME IndexBase, OneByOne, NEW t \in Ticker, ReadProductKeys(t) \/ WriteProductKeys(t)
  PROVE  OneByOne'
<1>1. PICK v : v = tick[t] /\ v.at \in {"readList", "writeList"} /\ v.at \in Paging /\ v \in TickRecord
  BY DEF ReadProductKeys, WriteProductKeys, IndexBase, Paging
<1>2. UNCHANGED <<chain, saved, cursor>>
  BY DEF ReadProductKeys, WriteProductKeys
<1>3. PICK w : /\ tick' = [tick EXCEPT ![t] = w]
               /\ w = GoneOn(v) \/ w = [v EXCEPT !.at = "writeList", !.keys = listed]
  BY <1>1, ZenonT(40) DEF ReadProductKeys, WriteProductKeys, Advance, GoneOn
<1>4. w.page = v.page /\ w.from = v.from /\ v.at # "idle"
  BY <1>1, <1>3 DEF TickRecord, GoneOn
<1> QED
  BY <1>1, <1>2, <1>3, <1>4, GoesOnAlone

LEMMA DeathAlone ==
  ASSUME IndexBase, OneByOne, NEW t \in Ticker, TickDies(t)
  PROVE  OneByOne'
<1>1. UNCHANGED <<chain, saved, cursor>> /\ tick' = [tick EXCEPT ![t] = IdleTick]
  BY DEF TickDies
<1>2. IdleTick.at = "idle" /\ IdleTick.at \notin Paging
  BY DEF IdleTick, Paging
<1> QED
  BY <1>1, <1>2, GoesOnAlone

\* The invariant speaks of nothing else.
LEMMA IndexStays ==
  ASSUME IndexInv, UNCHANGED indexVars
  PROVE  IndexInv'
<1>1. /\ UNCHANGED <<chain, source, ledgerSeq, cursor, saved, listed, cutLedgers, overlapped, tick>>
  BY DEF indexVars
<1>2. ChainFits' /\ SourceFits' /\ SavedBefore(cursor)' /\ Grown
  BY <1>1, ChainStays DEF IndexInv, IndexBase, ChainFits
<1>3. \A t \in Ticker : TickFits(tick[t])'
  <2> SUFFICES ASSUME NEW t \in Ticker PROVE TickFits(tick[t])'
    OBVIOUS
  <2>1. PICK v : v = tick[t]
    OBVIOUS
  <2>2. TickFits(v)'
    BY <1>2, <2>1, FitsGrow DEF IndexInv, IndexBase
  <2>3. tick'[t] = v
    BY <1>1, <2>1
  <2> QED
    BY <1>1, <2>2, <2>3 DEF TickFits
<1>4. IndexBase'
  BY <1>1, <1>2, <1>3 DEF IndexInv, IndexBase
<1>5. OneByOne => OneByOne'
  BY <1>1 DEF OneByOne, Starts
<1> QED
  BY <1>1, <1>4, <1>5 DEF IndexInv

\* Every step keeps the invariant.
LEMMA IndexKeeps ==
  ASSUME IndexInv, [IndexNext]_indexVars
  PROVE  IndexInv'
<1>1. ASSUME NEW n \in 1..2, NEW together \in BOOLEAN, CloseLedger(n, together)
      PROVE  IndexInv'
  <2>1. UNCHANGED overlapped
    BY <1>1 DEF CloseLedger
  <2> QED
    BY <1>1, <2>1, CloseBase, CloseAlone DEF IndexInv
<1>2. ASSUME NEW t \in Ticker, ReadCursor(t)
      PROVE  IndexInv'
  BY <1>2, ReadBase, ReadAlone DEF IndexInv
<1>3. ASSUME NEW t \in Ticker, Fetch(t)
      PROVE  IndexInv'
  <2>1. UNCHANGED overlapped
    BY <1>3 DEF Fetch
  <2> QED
    BY <1>3, <2>1, FetchBase, FetchAlone DEF IndexInv
<1>4. ASSUME NEW t \in Ticker, LookForEvent(t)
      PROVE  IndexInv'
  <2>1. UNCHANGED overlapped
    BY <1>4 DEF LookForEvent
  <2> QED
    BY <1>4, <2>1, LookBase, LookAlone DEF IndexInv
<1>5. ASSUME NEW t \in Ticker, SaveEvent(t)
      PROVE  IndexInv'
  <2>1. UNCHANGED overlapped
    BY <1>5 DEF SaveEvent
  <2> QED
    BY <1>5, <2>1, SaveBase, SaveAlone DEF IndexInv
<1>6. ASSUME NEW t \in Ticker, ReadProductKeys(t) \/ WriteProductKeys(t)
      PROVE  IndexInv'
  <2>1. UNCHANGED overlapped
    BY <1>6 DEF ReadProductKeys, WriteProductKeys
  <2> QED
    BY <1>6, <2>1, ListBase, ListAlone DEF IndexInv
<1>7. ASSUME NEW t \in Ticker, SetCursor(t)
      PROVE  IndexInv'
  <2>1. UNCHANGED overlapped
    BY <1>7 DEF SetCursor
  <2> QED
    BY <1>7, <2>1, SetBase, SetAlone DEF IndexInv
<1>8. ASSUME NEW t \in Ticker, TickDies(t)
      PROVE  IndexInv'
  <2>1. UNCHANGED overlapped
    BY <1>8 DEF TickDies
  <2> QED
    BY <1>8, <2>1, DeathBase, DeathAlone DEF IndexInv
<1>9. ASSUME UNCHANGED indexVars
      PROVE  IndexInv'
  BY <1>9, IndexStays
<1> QED
  BY <1>1, <1>2, <1>3, <1>4, <1>5, <1>6, <1>7, <1>8, <1>9 DEF IndexNext, TickStep

-----------------------------------------------------------------------------
(* Both tasks of the cron job *)

LEMMA BackgroundInvariant == BackgroundSpec => [](QueueInv /\ IndexInv)
<1>1. BackgroundInit => QueueInv /\ IndexInv
  BY QueueStart, IndexStart DEF BackgroundInit
<1>2. QueueInv /\ IndexInv /\ [BackgroundNext]_backgroundVars => (QueueInv /\ IndexInv)'
  <2> SUFFICES ASSUME QueueInv, IndexInv, [BackgroundNext]_backgroundVars
               PROVE  QueueInv' /\ IndexInv'
    OBVIOUS
  <2>1. [Next]_vars /\ [IndexNext]_indexVars
    BY DEF BackgroundNext, backgroundVars
  <2> QED
    BY <2>1, QueueStep, IndexKeeps
<1> QED
  BY <1>1, <1>2, PTL DEF BackgroundSpec

\* Every event of a ledger the cursor has left is saved, whatever ticks overlap
\* or die, unless a page ended inside that ledger or, once ticks have overlapped,
\* another event of its transaction can have taken its key: what the worker may
\* rely on when it moves the cursor (indexerWorker.ts:77, 108-120;
\* eventIndex.ts:32-34, 43-44).
THEOREM NothingMissed == BackgroundSpec => []NothingMissedBehindCursor
<1>1. QueueInv /\ IndexInv => NothingMissedBehindCursor
  BY DEF IndexInv, IndexBase, SavedBefore, NothingMissedBehindCursor
<1> QED
  BY <1>1, BackgroundInvariant, PTL

\* Ticks that do not overlap index an event once, however many of them die:
\* its position in the page, part of its key, comes back the same
\* (indexerWorker.ts:6, 77; eventIndex.ts:32-34).
THEOREM IndexedOnce == BackgroundSpec => []IndexedOnceUnlessTicksOverlap
<1>1. QueueInv /\ IndexInv => IndexedOnceUnlessTicksOverlap
  BY DEF IndexInv, OneByOne, IndexedOnceUnlessTicksOverlap
<1> QED
  BY <1>1, BackgroundInvariant, PTL
=============================================================================
