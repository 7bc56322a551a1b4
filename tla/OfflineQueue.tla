----------------------------- MODULE OfflineQueue -----------------------------
(***************************************************************************)
(* src/frontend/lib/offlineQueue.ts with its users: AddEventForm queues an *)
(* event while its tab is offline, SyncStatusBanner sends the queue when   *)
(* its tab comes back or a button is pressed.  Tabs share localStorage but *)
(* not the window event that refreshes a banner, and may be closed at any  *)
(* moment.  A tab's turn between two awaits is one step.                   *)
(* A dispatch is a write of the live client, which is tried again after a  *)
(* timeout while the attempt runs on, and answers once the node has the    *)
(* transaction, whatever the node makes of it.                             *)
(***************************************************************************)
EXTENDS Naturals, Sequences, SequencesExt

CONSTANTS
  Tab,
  Operation,     \* events users fill in while offline
  Refused,       \* those whose transactions the node refuses
  DispatchAttempts,   \* attempts of a write (2)
  MaxToggles, MaxSyncs, MaxCloses   \* bounds

ASSUME OfflineAssumption == DispatchAttempts \in Nat \ {0} /\ Refused \subseteq Operation

VARIABLES
  stored,    \* localStorage 'supply-link:offline-queue'
  tab,       \* what each tab holds
  sent,      \* transactions handed to the node, of each operation
  queued,    \* history: operations that were stored
  excused,   \* history: operations dispatched again for a reason named below
  toggles, syncs, closes

offlineVars == <<stored, tab, sent, queued, excused, toggles, syncs, closes>>

\* formOnline is read once, when the form mounts; loops are the running handleSync;
\* late are the attempts that timed out before they handed their transaction over.
OpenTab == [isOnline |-> TRUE, formOnline |-> TRUE, queue |-> <<>>, syncState |-> "idle",
            timers |-> 0, loops |-> <<>>, late |-> [o \in Operation |-> 0]]

\* filter, as a recursive function
Without(ops, o) ==
  LET kept[n \in 0..Len(ops)] ==
        IF n = 0 THEN <<>>
        ELSE IF ops[n] = o THEN kept[n - 1] ELSE Append(kept[n - 1], ops[n])
  IN kept[Len(ops)]
Refresh(t, ops) == [tab EXCEPT ![t].queue = ops]

\* AddEventForm.onSubmit while offline; save ignores a full localStorage.
Enqueue(t, o) ==
  /\ ~tab[t].formOnline /\ o \notin queued
  /\ \/ stored' = Append(stored, o) /\ queued' = queued \cup {o}
     \/ UNCHANGED <<stored, queued>>
  /\ tab' = Refresh(t, stored')
  /\ UNCHANGED <<sent, excused, toggles, syncs, closes>>

\* handleSync starts a loop over the queue the banner shows.
Starts(b) ==
  IF ~b.isOnline \/ b.queue = <<>> THEN b
  ELSE [b EXCEPT !.syncState = "syncing",
                 !.loops = Append(@, [left |-> b.queue, at |-> "send", conflict |-> FALSE,
                                      tries |-> 0, handed |-> FALSE])]

\* The effect on isOnline syncs only if the banner is idle.
GoOnline(t) ==
  /\ ~tab[t].isOnline /\ syncs < MaxSyncs
  /\ syncs' = syncs + 1
  /\ tab' = [tab EXCEPT ![t] =
       LET b == [@ EXCEPT !.isOnline = TRUE]
       IN IF b.syncState = "idle" THEN Starts(b) ELSE b]
  /\ UNCHANGED <<stored, sent, queued, excused, toggles, closes>>
GoOffline(t) ==
  /\ tab[t].isOnline /\ toggles < MaxToggles
  /\ tab' = [tab EXCEPT ![t].isOnline = FALSE]
  /\ toggles' = toggles + 1
  /\ UNCHANGED <<stored, sent, queued, excused, syncs, closes>>

\* "Sync now" and "Retry"
PressSync(t) ==
  /\ tab[t].isOnline /\ tab[t].syncState \in {"idle", "error"}
  /\ tab[t].queue # <<>>
  /\ syncs < MaxSyncs /\ syncs' = syncs + 1
  /\ tab' = [tab EXCEPT ![t] = Starts(@)]
  /\ UNCHANGED <<stored, sent, queued, excused, toggles, closes>>

Current(t, l) == Head(tab[t].loops[l].left)
SetLoop(t, l, r) == tab' = [tab EXCEPT ![t].loops[l] = r]
BeingSent(o) ==
  \E t \in Tab : \E l \in DOMAIN tab[t].loops :
    tab[t].loops[l].at = "answer" /\ Current(t, l) = o

\* dispatchOperation begins the write: tries counts its attempts, handed says
\* whether the one that is awaited has handed its transaction over.  An operation
\* is excused when the loop's copy of the queue is out of date: another loop has
\* dispatched it or is at it.
Dispatch(t, l) ==
  /\ tab[t].loops[l].at = "send" /\ tab[t].loops[l].left # <<>>
  /\ LET o == Current(t, l) IN
       excused' = IF o \notin ToSet(stored) \/ BeingSent(o) THEN excused \cup {o} ELSE excused
  /\ SetLoop(t, l, [tab[t].loops[l] EXCEPT !.at = "answer", !.tries = 1, !.handed = FALSE])
  /\ UNCHANGED <<stored, sent, queued, toggles, syncs, closes>>

\* sendTransaction; the node's verdict is in its answer, which nobody looks at.
Send(o) ==
  /\ sent' = [sent EXCEPT ![o] = @ + 1]
  /\ UNCHANGED <<stored, queued, excused, toggles, syncs, closes>>
HandOver(t, l) ==
  /\ tab[t].loops[l].at = "answer" /\ ~tab[t].loops[l].handed
  /\ Send(Current(t, l))
  /\ SetLoop(t, l, [tab[t].loops[l] EXCEPT !.handed = TRUE])
LateHandOver(t, o) ==
  /\ tab[t].late[o] > 0
  /\ Send(o)
  /\ tab' = [tab EXCEPT ![t].late[o] = @ - 1]

\* The attempt fails or times out; one that had not handed over may run on.
AttemptEnds(t, l) ==
  LET b == tab[t] IN
  {b.late} \cup (IF b.loops[l].handed THEN {}
                 ELSE {[b.late EXCEPT ![Current(t, l)] = @ + 1]})

\* withRetry begins the next attempt.
RetryDispatch(t, l) ==
  /\ tab[t].loops[l].at = "answer" /\ tab[t].loops[l].tries < DispatchAttempts
  /\ \E late \in AttemptEnds(t, l) :
       tab' = [tab EXCEPT ![t] = [tab[t] EXCEPT !.late = late,
         !.loops[l] = [tab[t].loops[l] EXCEPT !.tries = @ + 1, !.handed = FALSE]]]
  /\ UNCHANGED <<stored, sent, queued, excused, toggles, syncs, closes>>

\* The hash is there once the transaction is handed over, refused or not.
DequeueHead(o) == IF stored = <<>> THEN stored ELSE Tail(stored)  \* faulty variant
Dequeue(o) == Without(stored, o)
AnswerOk(t, l) ==
  /\ tab[t].loops[l].at = "answer" /\ tab[t].loops[l].handed
  /\ stored' = Dequeue(Current(t, l))
  /\ tab' = [tab EXCEPT ![t] = [tab[t] EXCEPT !.queue = stored',
       !.loops[l] = [tab[t].loops[l] EXCEPT !.at = "send", !.left = Tail(@)]]]
  /\ UNCHANGED <<sent, queued, excused, toggles, syncs, closes>>

\* A permanent error ends the dispatch at once, another one after the last attempt.
\* The operation stays stored: it is excused if an attempt was handed over or may be.
AnswerError(t, l) ==
  /\ tab[t].loops[l].at = "answer"
  /\ \E late \in AttemptEnds(t, l) :
       LET o == Current(t, l) IN
       /\ tab' = [tab EXCEPT ![t] = [tab[t] EXCEPT !.late = late,
            !.loops[l] = [tab[t].loops[l] EXCEPT
               !.at = "send", !.left = Tail(@), !.conflict = TRUE]]]
       /\ excused' = IF sent[o] > 0 \/ late[o] > 0 THEN excused \cup {o} ELSE excused
  /\ UNCHANGED <<stored, sent, queued, toggles, syncs, closes>>

\* The loop ends; a timer puts the banner back to idle, whatever it shows by then.
EndSync(t, l) ==
  /\ tab[t].loops[l].at = "send" /\ tab[t].loops[l].left = <<>>
  /\ tab' = [tab EXCEPT ![t].loops = RemoveAt(@, l), ![t].timers = @ + 1,
       ![t].syncState = IF tab[t].loops[l].conflict THEN "error" ELSE "success"]
  /\ UNCHANGED <<stored, sent, queued, excused, toggles, syncs, closes>>
TimerFires(t) ==
  /\ tab[t].timers > 0
  /\ tab' = [tab EXCEPT ![t].timers = @ - 1, ![t].syncState = "idle"]
  /\ UNCHANGED <<stored, sent, queued, excused, toggles, syncs, closes>>

\* The tab is closed and opened again: its loops and attempts die with it, the banner
\* loads the queue but does not sync, and a write on its way is answered to nobody.
CloseTab(t) ==
  /\ closes < MaxCloses /\ closes' = closes + 1
  /\ excused' = excused \cup {o \in Operation : sent[o] > 0 /\
       \E l \in DOMAIN tab[t].loops : tab[t].loops[l].at = "answer" /\ Current(t, l) = o}
  /\ tab' = [tab EXCEPT ![t] = [OpenTab EXCEPT
       !.isOnline = tab[t].isOnline, !.formOnline = tab[t].isOnline, !.queue = stored]]
  /\ UNCHANGED <<stored, sent, queued, toggles, syncs>>

OfflineInit ==
  /\ stored = <<>> /\ sent = [o \in Operation |-> 0] /\ queued = {} /\ excused = {}
  /\ tab \in [Tab -> {OpenTab, [OpenTab EXCEPT !.isOnline = FALSE, !.formOnline = FALSE]}]
  /\ toggles = 0 /\ syncs = 0 /\ closes = 0

OfflineNext ==
  \E t \in Tab :
    \/ \E o \in Operation : Enqueue(t, o) \/ LateHandOver(t, o)
    \/ GoOnline(t) \/ GoOffline(t) \/ PressSync(t) \/ TimerFires(t) \/ CloseTab(t)
    \/ \E l \in DOMAIN tab[t].loops :
         \/ Dispatch(t, l) \/ HandOver(t, l) \/ RetryDispatch(t, l)
         \/ AnswerOk(t, l) \/ AnswerError(t, l) \/ EndSync(t, l)

-----------------------------------------------------------------------------
\* A stored operation waits in the storage until a transaction of it was handed to
\* the node, and no more transactions of it are than one dispatch makes attempts,
\* unless the dispatch came from an out-of-date queue, ran beside another loop or
\* followed one that ended without an answer of success: tabs rewrite one list,
\* loops overlap, attempts run on, tabs close (offlineQueue.ts:32-44;
\* SyncStatusBanner.tsx:75-103; resilience.ts:79-104).
QueuedIsKeptUntilHanded ==
  \A o \in queued :
    /\ o \in ToSet(stored) \/ sent[o] > 0
    /\ sent[o] > DispatchAttempts => o \in excused

\* What the banner says at SyncStatusBanner.tsx:133, where an operation is synced
\* once the node has accepted a transaction of it: "All queued operations synced
\* successfully".
Synced == {o \in Operation \ Refused : sent[o] > 0}
SuccessMeansSynced ==
  \A t \in Tab : tab[t].isOnline /\ tab[t].syncState = "success" =>
    queued \subseteq ToSet(stored) \cup Synced
=============================================================================
