------------------------------- MODULE JobQueue -------------------------------
(***************************************************************************)
(* src/frontend/lib/jobs: a queue of background jobs in a Redis-like store *)
(* and the workers that drain it.  Each `await` on the store is a step of  *)
(* its own, so producers and workers of concurrent requests interleave     *)
(* between any two of them; a request may also die at any await (process   *)
(* killed, or a store error nobody catches).                               *)
(***************************************************************************)
EXTENDS Naturals, Sequences, FiniteSets

CONSTANTS
  Key,          \* ids callers enqueue under
  FreshKey,     \* those generated by enqueue (time and random), used once
  HandledKey,   \* those whose job type has a registered handler
  Producer,     \* requests that enqueue one job each
  Worker,       \* concurrent drains of the queue
  MaxAttempts,  \* options.maxAttempts ?? 3
  MaxFaults,    \* bound: keys requests die with
  NoJob

ASSUME KeyAssumption == FreshKey \subseteq Key /\ HandledKey \subseteq Key
ASSUME ProcessAssumption == Producer \cap Worker = {}
ASSUME AttemptsAssumption == MaxAttempts \in Nat \ {0} /\ MaxFaults \in Nat

VARIABLES
  jobs,    \* jobs:<id>, the job records saved so far
  queue,   \* queue:pending
  dlq,     \* queue:dlq
  call,    \* the enqueue call each process is in
  worker,  \* the processNextJob call each worker is in
  runs,    \* history: attempts started, per key
  lost     \* history: keys a request had in hand when it died

vars == <<jobs, queue, dlq, call, worker, runs, lost>>

-----------------------------------------------------------------------------
\* A retry is enqueued under `${id}-retry-${attempts}`: an id is a caller's key
\* and the attempt numbers appended to it.
Id == {<<k>> \o s : k \in Key, s \in UNION {[1..n -> 1..MaxAttempts] : n \in 0..(MaxAttempts - 1)}}
SameId(id, attempts) == id        \* faulty variant: the retry keeps the id
RetryId(id, attempts) == Append(id, attempts)
Root(id) == Head(id)

Status == {"pending", "running", "completed", "failed", "dead"}
Job == [status : Status, attempts : 0..MaxAttempts, maxAttempts : 1..MaxAttempts]

Process == Producer \cup Worker
NoCall(at) == [at |-> at, id |-> <<>>, maxAttempts |-> 0]
Idle == [at |-> "idle", id |-> <<>>, job |-> NoJob, copy |-> NoJob]

Init ==
  /\ jobs = [id \in {} |-> NoJob]
  /\ queue = <<>>
  /\ dlq = <<>>
  /\ call = [p \in Process |-> NoCall(IF p \in Producer THEN "ready" ELSE "done")]
  /\ worker = [w \in Worker |-> Idle]
  /\ runs = [k \in Key |-> 0]
  /\ lost = {}

Saved(id) == id \in DOMAIN jobs
Save(id, job) == jobs' = [i \in DOMAIN jobs \cup {id} |-> IF i = id THEN job ELSE jobs[i]]

-----------------------------------------------------------------------------
(* enqueue, called by a producer and, for a retry, by a worker *)

Enqueue(p, id, max) ==
  call' = [call EXCEPT ![p] = [at |-> "check", id |-> id, maxAttempts |-> max]]

\* The call returns; a worker has nothing left to do after its retry.
Return(p) ==
  /\ call' = [call EXCEPT ![p] = NoCall("done")]
  /\ worker' = [w \in Worker |-> IF w = p THEN Idle ELSE worker[w]]

Request(p, k) ==
  /\ call[p].at = "ready"
  /\ k \in FreshKey =>
       ~Saved(<<k>>) /\ \A q \in Producer : call[q].id # <<k>>
  /\ Enqueue(p, <<k>>, MaxAttempts)
  /\ UNCHANGED <<jobs, queue, dlq, worker, runs, lost>>

CheckExisting(p) ==
  /\ call[p].at = "check"
  /\ IF Saved(call[p].id)
     THEN Return(p)
     ELSE call' = [call EXCEPT ![p].at = "save"] /\ UNCHANGED worker
  /\ UNCHANGED <<jobs, queue, dlq, runs, lost>>

SaveJob(p) ==
  /\ call[p].at = "save"
  /\ Save(call[p].id, [status |-> "pending", attempts |-> 0,
                       maxAttempts |-> call[p].maxAttempts])
  /\ call' = [call EXCEPT ![p].at = "push"]
  /\ UNCHANGED <<queue, dlq, worker, runs, lost>>

PushPending(p) ==
  /\ call[p].at = "push"
  /\ queue' = Append(queue, call[p].id)
  /\ Return(p)
  /\ UNCHANGED <<jobs, dlq, runs, lost>>

-----------------------------------------------------------------------------
(* processNextJob *)

PeekPending(w) ==                 \* faulty variant: reads the head, leaves it
  /\ worker[w].at = "idle"
  /\ queue # <<>>
  /\ worker' = [worker EXCEPT ![w] = [Idle EXCEPT !.at = "load", !.id = Head(queue)]]
  /\ UNCHANGED <<jobs, queue, dlq, call, runs, lost>>
Dequeue(w) ==
  /\ worker[w].at = "idle"
  /\ queue # <<>>
  /\ queue' = Tail(queue)
  /\ worker' = [worker EXCEPT ![w] = [Idle EXCEPT !.at = "load", !.id = Head(queue)]]
  /\ UNCHANGED <<jobs, dlq, call, runs, lost>>

\* A job that is not pending any more is skipped.
LoadJob(w) ==
  /\ worker[w].at = "load"
  /\ LET id == worker[w].id IN
     worker' = [worker EXCEPT ![w] =
                  IF Saved(id) /\ jobs[id].status = "pending"
                  THEN [@ EXCEPT !.at = "start", !.job = jobs[id]]
                  ELSE Idle]
  /\ UNCHANGED <<jobs, queue, dlq, call, runs, lost>>

\* updateJob reads the record, merges the patch of the present phase and
\* writes the whole of it back.
Phases == {"start", "complete", "retry", "fail", "bury"}
Attempt(w) == worker[w].job.attempts + 1

Patched(w) ==
  LET copy == worker[w].copy IN
  CASE worker[w].at = "start" ->
         [copy EXCEPT !.status = "running", !.attempts = Attempt(w)]
    [] worker[w].at = "complete" -> [copy EXCEPT !.status = "completed"]
    [] worker[w].at = "retry" ->
         [copy EXCEPT !.status = "pending", !.attempts = Attempt(w)]
    [] worker[w].at = "fail" -> [copy EXCEPT !.status = "failed"]
    [] worker[w].at = "bury" -> [copy EXCEPT !.status = "dead"]

ReadForUpdate(w) ==
  /\ worker[w].at \in Phases
  /\ worker[w].copy = NoJob
  /\ worker' = [worker EXCEPT ![w].copy = jobs[worker[w].id]]
  /\ UNCHANGED <<jobs, queue, dlq, call, runs, lost>>

\* Where processNextJob goes after the update of a phase.
After(w) ==
  CASE worker[w].at = "start" ->
         IF Root(worker[w].id) \in HandledKey THEN "handler" ELSE "fail"
    [] worker[w].at = "complete" -> "idle"
    [] worker[w].at = "retry" -> "enqueue"
    [] worker[w].at = "fail" -> "bury"
    [] worker[w].at = "bury" -> "dlq"

\* The attempts a retry may still use.
AttemptsLeft(w) == worker[w].job.maxAttempts - Attempt(w)

WriteUpdate(w) ==
  /\ worker[w].copy # NoJob
  /\ Save(worker[w].id, Patched(w))
  /\ worker' = [worker EXCEPT ![w] =
                  IF After(w) = "idle" THEN Idle
                  ELSE [@ EXCEPT !.at = After(w), !.copy = NoJob]]
  /\ IF After(w) = "enqueue"
     THEN Enqueue(w, RetryId(worker[w].id, Attempt(w)), AttemptsLeft(w))
     ELSE UNCHANGED call
  /\ runs' = IF After(w) = "handler"
             THEN [runs EXCEPT ![Root(worker[w].id)] = @ + 1] ELSE runs
  /\ UNCHANGED <<queue, dlq, lost>>

HandlerSucceeds(w) ==
  /\ worker[w].at = "handler"
  /\ worker' = [worker EXCEPT ![w].at = "complete"]
  /\ UNCHANGED <<jobs, queue, dlq, call, runs, lost>>

\* The catch block: bury the job or give it another attempt.
ExhaustedEarly(w) == Attempt(w) + 1 >= worker[w].job.maxAttempts   \* faulty variant
Exhausted(w) == Attempt(w) >= worker[w].job.maxAttempts

Caught(w) == IF Exhausted(w) THEN "fail" ELSE "retry"

\* The handler throws, or the store does while the completion is recorded: that
\* update is inside the same try, so the attempt counts as failed.
HandlerThrows(w) ==
  /\ worker[w].at \in {"handler", "complete"}
  /\ worker' = [worker EXCEPT ![w].at = Caught(w), ![w].copy = NoJob]
  /\ UNCHANGED <<jobs, queue, dlq, call, runs, lost>>

PushDlq(w) ==
  /\ worker[w].at = "dlq"
  /\ dlq' = Append(dlq, worker[w].id)
  /\ worker' = [worker EXCEPT ![w] = Idle]
  /\ UNCHANGED <<jobs, queue, call, runs, lost>>

-----------------------------------------------------------------------------
\* The ids a process has in hand.
InHand(p) ==
  (IF call[p].id = <<>> THEN {} ELSE {call[p].id})
  \cup (IF p \in Worker /\ worker[p].at # "idle" THEN {worker[p].id} ELSE {})

\* The request dies, with whatever it had in hand; the next tick of the cron
\* starts the worker afresh.
Die(p) ==
  /\ Cardinality(lost) < MaxFaults
  /\ InHand(p) # {}
  /\ \E id \in InHand(p) : lost' = lost \cup {Root(id)}
  /\ Return(p)
  /\ UNCHANGED <<jobs, queue, dlq, runs>>

EnqueueStep(p) == CheckExisting(p) \/ SaveJob(p) \/ PushPending(p)

WorkerStep(w) ==
  \/ Dequeue(w)
  \/ LoadJob(w)
  \/ ReadForUpdate(w)
  \/ WriteUpdate(w)
  \/ HandlerSucceeds(w)
  \/ HandlerThrows(w)
  \/ PushDlq(w)

Next ==
  \/ \E p \in Producer, k \in Key : Request(p, k)
  \/ \E p \in Process : EnqueueStep(p) \/ Die(p)
  \/ \E w \in Worker : WorkerStep(w)

\* A request that lives gets its answers from the store and ends, and the cron
\* keeps calling the worker: every process that can step does.  Nothing says
\* how a handler ends, and nothing makes a request die.
Fairness ==
  /\ \A p \in Process : WF_vars(EnqueueStep(p))
  /\ \A w \in Worker : WF_vars(WorkerStep(w))

Spec == Init /\ [][Next]_vars /\ Fairness

-----------------------------------------------------------------------------
TypeOK ==
  /\ DOMAIN jobs \subseteq Id
  /\ \A id \in DOMAIN jobs : jobs[id] \in Job
  /\ queue \in Seq(Id)
  /\ dlq \in Seq(Id)
  /\ call \in [Process -> [at : {"ready", "check", "save", "push", "done"},
                           id : Id \cup {<<>>}, maxAttempts : 0..MaxAttempts]]
  /\ worker \in [Worker -> [at : Phases \cup {"idle", "load", "handler", "enqueue", "dlq"},
                            id : Id \cup {<<>>}, job : Job \cup {NoJob},
                            copy : Job \cup {NoJob}]]
  /\ runs \in [Key -> Nat]
  /\ lost \subseteq Key

\* How many places hold a job of key k: the queue, the dead-letter queue and
\* the processes.
Places(k) ==
  Cardinality({i \in 1..Len(queue) : Root(queue[i]) = k})
  + Cardinality({i \in 1..Len(dlq) : Root(dlq[i]) = k})
  + Cardinality({p \in Process : \E id \in InHand(p) : Root(id) = k})

\* A job enqueued under a fresh id is at any time in one place at most: no two
\* workers have it or one of its retries in hand, it is not both waiting and
\* being worked on, and nothing of it is left once it is in the dead-letter
\* queue (processNextJob with its retries, moveToDlq).
OnePlace == \A k \in FreshKey : Places(k) <= 1

\* The attempts of a job and of all its retries together never exceed the
\* maxAttempts of the enqueue call.  A consequence of KeepsJobPromise, below.
AttemptsBounded == \A k \in FreshKey : runs[k] <= MaxAttempts

\* What the records of a job and its retries say of it.
RecordSays(k, status) == \E id \in DOMAIN jobs : Root(id) = k /\ jobs[id].status = status
Outcome(k) ==
  IF RecordSays(k, "completed") THEN "completed"
  ELSE IF RecordSays(k, "dead") THEN "dead" ELSE "open"

Promise(k) ==
  INSTANCE JobPromise WITH
    Allowed <- MaxAttempts, Handled <- k \in HandledKey,
    attempts <- runs[k], outcome <- Outcome(k)

\* The queue keeps the promise to every job of a fresh id, its retries counted
\* with it: this is \A k : Promise(k)!PromiseSpec with the quantifier moved inside
\* the box (worker.ts, processNextJob).
KeepsJobPromise ==
  /\ \A k \in FreshKey : Promise(k)!PromiseInit
  /\ [][\A k \in FreshKey : Promise(k)!PromiseStep]_vars

Settled(k) == RecordSays(k, "completed") \/ RecordSays(k, "dead")

\* A job that was saved is completed or dead in the end, itself or in one of
\* its retries, whoever else works on the queue, unless a request died with it.
SavedJobsSettle ==
  \A k \in Key : Saved(<<k>>) ~> (Settled(k) \/ k \in lost)

-----------------------------------------------------------------------------
(* A statement of the documentation that the code does not keep *)

\* ASYNC_JOBS.md: a second enqueue with the same idempotency key does not
\* enqueue again, so no id waits twice.
IdempotentEnqueue ==
  \A i, j \in 1..Len(queue) : queue[i] = queue[j] => i = j
=============================================================================
