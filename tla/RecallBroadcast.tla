---------------------------- MODULE RecallBroadcast ----------------------------
(***************************************************************************)
(* src/frontend/lib/services/recallBroadcastService.ts, its routes, and    *)
(* the panel components/products/RecallBroadcastChannel.tsx.  The server   *)
(* answers each request in one step (collections are synchronous and kept  *)
(* by reference); the panel's requests travel and their answers arrive in  *)
(* any order, or never.  resolveBroadcast and cancelBroadcast are called   *)
(* from nowhere, so a broadcast stays active.  Beside it, and sharing no   *)
(* state with it, src/frontend/lib/recall/escalation.ts and its routes: an *)
(* escalation goes through the stages one PATCH at a time, in an audit     *)
(* trail, and collects the stakeholders that were notified; each route     *)
(* runs to its end without an await after its body is parsed, and the      *)
(* escalations, kept by reference, are numbered here.                      *)
(***************************************************************************)
EXTENDS Naturals, Sequences, FiniteSets

CONSTANTS
  Stakeholder, PANEL,            \* PANEL: the stakeholder id of the panel ('default')
  Lists,                         \* lists of stakeholders that are entered
  RecalledProduct, EscalationActor, Notified,   \* of escalations: products, actors, stakeholders
  MaxBroadcasts, MaxFlying, MaxEscalations      \* bounds

ASSUME BroadcastAssumption == PANEL \in Stakeholder /\ Lists \subseteq Seq(Stakeholder)

VARIABLES
  broadcasts,     \* stakeholders and broadcastLog of each, by number
  notifications,  \* of each stakeholder, as stored
  panel,          \* state of the component: cards and notifications shown, loading
  flying          \* requests of the panel, and answers to it, on their way

VARIABLE escalations

broadcastVars == <<broadcasts, notifications, panel, flying>>

FirstOf(seq, Test(_)) ==
  CHOOSE i \in DOMAIN seq : Test(seq[i]) /\ \A j \in 1..(i - 1) : ~Test(seq[j])

\* initiateBroadcast: each stakeholder of the list, repeated ones again, gets a
\* notification and an entry of the log.
Notice(b) == [broadcast |-> b, acknowledged |-> FALSE]
Times(s, list) == Cardinality({i \in DOMAIN list : list[i] = s})
FirstLog(list) == [i \in DOMAIN list |-> [stakeholder |-> list[i], status |-> "delivered"]]
InitiateBroadcast(list) ==
  /\ Len(broadcasts) < MaxBroadcasts
  /\ broadcasts' = Append(broadcasts, FirstLog(list))
  /\ notifications' = [s \in Stakeholder |->
       notifications[s] \o [i \in 1..Times(s, list) |-> Notice(Len(broadcasts) + 1)]]

\* acknowledgeNotification: the first notification of the broadcast, and the
\* first entry of the stakeholder in its log
MarkEveryEntry(log, s) ==                                       \* faulty variant
  [i \in DOMAIN log |->
    IF log[i].stakeholder = s THEN [log[i] EXCEPT !.status = "acknowledged"] ELSE log[i]]
MarkEntry(log, s) ==
  [log EXCEPT ![FirstOf(log, LAMBDA e : e.stakeholder = s)].status = "acknowledged"]
IsNotified(s, b) == \E i \in DOMAIN notifications[s] : notifications[s][i].broadcast = b
AcknowledgeNotification(s, b) ==
  /\ IsNotified(s, b)
  /\ notifications' =
       [notifications EXCEPT ![s][FirstOf(notifications[s],
          LAMBDA n : n.broadcast = b)].acknowledged = TRUE]
  /\ broadcasts' = [broadcasts EXCEPT ![b] = MarkEntry(@, s)]

\* Other clients of the routes
ApiStep ==
  /\ \/ \E list \in Lists : InitiateBroadcast(list)
     \/ \E s \in Stakeholder, b \in DOMAIN broadcasts : AcknowledgeNotification(s, b)
  /\ UNCHANGED <<panel, flying>>

-----------------------------------------------------------------------------
Send(m) == Cardinality(flying) < MaxFlying /\ flying' = flying \cup {m}
Ask(k, x) == [kind |-> k, arg |-> x, answered |-> FALSE, ok |-> FALSE, data |-> <<>>]
Answered(m, ok, x) == [m EXCEPT !.answered = TRUE, !.ok = ok, !.data = x]

\* useEffect on mount, loadNotifications after an answer
LoadBroadcasts == Ask("broadcasts", 0)
LoadNotifications == Ask("notifications", 0)

\* handleInitiateBroadcast with a complete form: the button is off while it is
\* loading (an incomplete form, like a failure, shows a message, left out)
InitiateOffered == ~panel.loading
PressInitiate(list) ==
  /\ InitiateOffered
  /\ Send(Ask("initiate", list))
  /\ panel' = [panel EXCEPT !.loading = TRUE]
  /\ UNCHANGED <<broadcasts, notifications>>

\* The button stands beside a notification shown as not acknowledged.
AcknowledgeOffered(b) == \E i \in DOMAIN panel.notices : panel.notices[i] = Notice(b)
PressAcknowledgeAhead(b) ==                                     \* faulty variant
  /\ AcknowledgeOffered(b)
  /\ Send(Ask("acknowledge", b))
  /\ panel' = [panel EXCEPT !.notices =
       [i \in DOMAIN @ |-> IF @[i] = Notice(b) THEN [@[i] EXCEPT !.acknowledged = TRUE] ELSE @[i]]]
  /\ UNCHANGED <<broadcasts, notifications>>
PressAcknowledge(b) ==
  /\ AcknowledgeOffered(b)
  /\ Send(Ask("acknowledge", b))
  /\ UNCHANGED <<broadcasts, notifications, panel>>

\* The routes answer a request of the panel: a broadcast goes out as it is then,
\* its log included.
Card(b, log) == [broadcast |-> b, log |-> log]
Reply(m, ok, data) == flying' = (flying \ {m}) \cup {Answered(m, ok, data)} /\ UNCHANGED panel
GetBroadcasts(m) ==
  /\ m.kind = "broadcasts"
  /\ Reply(m, TRUE, [b \in DOMAIN broadcasts |-> Card(b, broadcasts[b])])
  /\ UNCHANGED <<broadcasts, notifications>>
GetNotifications(m) ==
  /\ m.kind = "notifications" /\ Reply(m, TRUE, notifications[PANEL])
  /\ UNCHANGED <<broadcasts, notifications>>
PostBroadcast(m) ==
  /\ m.kind = "initiate" /\ InitiateBroadcast(m.arg)
  /\ Reply(m, TRUE, Card(Len(broadcasts) + 1, FirstLog(m.arg)))
PostAcknowledgement(m) ==
  /\ m.kind = "acknowledge" /\ AcknowledgeNotification(PANEL, m.arg) /\ Reply(m, TRUE, <<>>)

\* A request that is refused (rate limit, key, product) changes nothing.
Refuse(m) == Reply(m, FALSE, <<>>) /\ UNCHANGED <<broadcasts, notifications>>

\* An answer arrives: a list replaces the one that is shown, a new broadcast
\* goes in front, and a success loads the notifications anew, never the cards,
\* which keep the log they came with.
Shows(m) ==
  CASE m.kind = "broadcasts" /\ m.ok -> [panel EXCEPT !.shown = m.data]
    [] m.kind = "notifications" /\ m.ok -> [panel EXCEPT !.notices = m.data]
    [] m.kind = "initiate" /\ m.ok -> [panel EXCEPT !.shown = <<m.data>> \o @, !.loading = FALSE]
    [] m.kind = "initiate" /\ ~m.ok -> [panel EXCEPT !.loading = FALSE]
    [] OTHER -> panel
TakeAnswer(m) ==
  /\ m.answered
  /\ panel' = Shows(m)
  /\ flying' = (flying \ {m}) \cup
       (IF m.ok /\ m.kind \in {"initiate", "acknowledge"} THEN {LoadNotifications} ELSE {})
  /\ UNCHANGED <<broadcasts, notifications>>

BroadcastInit ==
  /\ broadcasts = <<>> /\ notifications = [s \in Stakeholder |-> <<>>]
  /\ panel = [shown |-> <<>>, notices |-> <<>>, loading |-> FALSE]
  /\ flying = {LoadBroadcasts, LoadNotifications}

BroadcastNext ==
  \/ ApiStep
  \/ \E list \in Lists : PressInitiate(list)
  \/ \E b \in DOMAIN broadcasts : PressAcknowledge(b)
  \/ \E m \in flying :
       \/ TakeAnswer(m)
       \/ /\ ~m.answered
          /\ \/ GetBroadcasts(m) \/ GetNotifications(m) \/ PostBroadcast(m)
             \/ PostAcknowledgement(m) \/ Refuse(m)

-----------------------------------------------------------------------------
STAGE_ORDER ==
  <<"initiated", "under_review", "stakeholders_notified", "regulatory_filed", "resolved">>

IsTerminalStage(s) == s = "resolved"

NextStage(s) ==
  LET i == CHOOSE k \in DOMAIN STAGE_ORDER : STAGE_ORDER[k] = s IN STAGE_ORDER[i + 1]

\* createEscalation, advanceEscalation, addNotifiedStakeholder
CreateEscalation(p, a) ==
  [product |-> p, stage |-> "initiated", trail |-> <<<<"initiated", a>>>>,
   notified |-> {}, resolved |-> FALSE]
AdvanceEscalation(e, a) ==
  [e EXCEPT !.stage = NextStage(e.stage),
            !.trail = Append(@, <<NextStage(e.stage), a>>),
            !.resolved = IsTerminalStage(NextStage(e.stage))]
AddNotified(e, who) == [e EXCEPT !.notified = @ \cup who]

\* POST, with the stakeholders the request names
PostEscalation(p, a, who) ==
  /\ Len(escalations) < MaxEscalations
  /\ escalations' = Append(escalations, AddNotified(CreateEscalation(p, a), who))

\* PATCH; a resolved escalation answers 409
PatchEscalation(i, a, who) ==
  /\ ~IsTerminalStage(escalations[i].stage)
  /\ escalations' = [escalations EXCEPT ![i] = AddNotified(AdvanceEscalation(@, a), who)]

\* GET of the list, of one escalation
ListEscalations(p) == SelectSeq(escalations, LAMBDA e : e.product = p)

EscalationInit == escalations = <<>>

EscalationNext ==
  \E a \in EscalationActor, who \in SUBSET Notified :
    \/ \E p \in RecalledProduct : PostEscalation(p, a, who)
    \/ \E i \in DOMAIN escalations : PatchEscalation(i, a, who)

-----------------------------------------------------------------------------
\* On the server, the log of a broadcast counts as many acknowledgements of each
\* stakeholder as that stakeholder has acknowledged notifications of it, repeated
\* stakeholders included: a card made from the log now and the statistics, which
\* count notifications, would agree (recallBroadcastService.ts:116-141, 159-176).
\* A card on the panel may be older: see PanelShowsTruth.
BroadcastLogAgrees ==
  \A b \in DOMAIN broadcasts, s \in Stakeholder :
    Cardinality({i \in DOMAIN notifications[s] :
        notifications[s][i] = [broadcast |-> b, acknowledged |-> TRUE]}) =
    Cardinality({i \in DOMAIN broadcasts[b] :
        broadcasts[b][i] = [stakeholder |-> s, status |-> "acknowledged"]})

\* Whatever the order answers arrive in, what the panel shows as acknowledged is
\* acknowledged and what it shows was sent.  Cards and notifications may lag
\* behind the server, the cards behind the notifications too, as an
\* acknowledgement does not load them anew; they are never ahead of it
\* (RecallBroadcastChannel.tsx:49-131, 305-315).
PanelShowsTruth ==
  /\ \A i \in DOMAIN panel.shown :
       LET card == panel.shown[i]
       IN  /\ card.broadcast \in DOMAIN broadcasts
           /\ Len(card.log) = Len(broadcasts[card.broadcast])
           /\ \A k \in DOMAIN card.log :
                LET entry == broadcasts[card.broadcast][k]
                IN  /\ card.log[k].stakeholder = entry.stakeholder
                    /\ card.log[k].status = "acknowledged" => entry.status = "acknowledged"
  /\ \A i \in DOMAIN panel.notices :
       /\ i \in DOMAIN notifications[PANEL]
       /\ panel.notices[i].broadcast = notifications[PANEL][i].broadcast
       /\ panel.notices[i].acknowledged => notifications[PANEL][i].acknowledged
=============================================================================
