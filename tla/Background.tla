------------------------------ MODULE Background ------------------------------
(***************************************************************************)
(* The work a cron job calls for, minute by minute: POST /api/jobs/process *)
(* drains the job queue, and POST /api/v1/indexer/tick queues the job that *)
(* runs a tick of the indexer.  To the queue a handler is only what ends   *)
(* well or throws, and their keys in the store are disjoint, so a          *)
(* behaviour exercises one of them: the other stays as it began.           *)
(***************************************************************************)
EXTENDS JobQueue, Indexer

CONSTANT Task     \* the work an instance exercises

VARIABLE task

backgroundVars == <<vars, indexVars, task>>

BackgroundInit == task \in Task /\ Init /\ IndexInit

BackgroundNext ==
  /\ UNCHANGED task
  /\ \/ task = "jobs" /\ Next /\ UNCHANGED indexVars
     \/ task = "index" /\ IndexNext /\ UNCHANGED vars

\* Where the other task is exercised, Fairness asks nothing: no request has begun,
\* so no step of the job queue is enabled.
BackgroundSpec ==
  /\ BackgroundInit /\ [][BackgroundNext]_backgroundVars
  /\ Fairness
  /\ \A t \in Ticker :
       /\ WF_indexVars(task = "index" /\ TickStep(t))
       /\ SF_indexVars(task = "index" /\ FetchAnswered(t))
=============================================================================
