---------------------------- MODULE EmergencyAlerts ----------------------------
(***************************************************************************)
(* src/frontend/lib/services/emergencyAlerts.ts, its routes, and the       *)
(* banner components/products/EmergencyAlertBanner.tsx, which shows the    *)
(* alerts a page was given: a copy that ages while the alerts change.      *)
(* markDelivered and markDeliveryFailed are called from nowhere: entries   *)
(* of the delivery log stay pending, and an acknowledgement, which changes *)
(* delivered entries only, leaves them so.                                 *)
(***************************************************************************)
EXTENDS Naturals, Sequences, FiniteSets

CONSTANTS
  Severity, Recipient, Channel,
  CRITICAL,         \* the severity that cannot be dismissed
  MaxAlerts         \* bound

VARIABLES
  alerts,      \* by number: severity, status, deliveryLog, acknowledgedBy
  given,       \* alerts the banner was rendered with
  dismissed    \* alerts whose banner was dismissed

alertVars == <<alerts, given, dismissed>>

NoOne == "noOne"

\* createAlert: the log begins with a pending entry for each recipient and channel.
CreateAlert(sev, recipients, channels) ==
  /\ Len(alerts) < MaxAlerts
  /\ alerts' = Append(alerts,
       [severity |-> sev, status |-> "active", acknowledgedBy |-> NoOne,
        deliveryLog |-> {[recipient |-> r, channel |-> c, status |-> "pending"] :
                          r \in recipients, c \in channels}])
  /\ UNCHANGED <<given, dismissed>>

Acknowledgeable(a) == a.status \in {"active", "resolved"}       \* faulty variant
IsActive(a) == a.status = "active"
AcknowledgedLog(log, r) ==
  {IF d.recipient = r /\ d.status = "delivered" THEN [d EXCEPT !.status = "acknowledged"] ELSE d : d \in log}
AcknowledgeAlert(i, r) ==
  /\ IsActive(alerts[i])
  /\ alerts' = [alerts EXCEPT ![i] =
       [@ EXCEPT !.status = "acknowledged", !.acknowledgedBy = r,
                 !.deliveryLog = AcknowledgedLog(alerts[i].deliveryLog, r)]]
  /\ UNCHANGED <<given, dismissed>>

\* from any status
ResolveAlert(i) ==
  /\ alerts' = [alerts EXCEPT ![i].status = "resolved"]
  /\ UNCHANGED <<given, dismissed>>
CancelAlert(i) ==
  /\ alerts' = [alerts EXCEPT ![i].status = "cancelled"]
  /\ UNCHANGED <<given, dismissed>>

ListActiveAlerts == {i \in DOMAIN alerts : alerts[i].status = "active"}

\* getAlertStats
GetAlertStats ==
  [total |-> Len(alerts),
   active |-> Cardinality(ListActiveAlerts),
   critical |-> Cardinality({i \in ListActiveAlerts : alerts[i].severity = CRITICAL}),
   acknowledged |-> Cardinality({i \in DOMAIN alerts : alerts[i].status = "acknowledged"}),
   resolved |-> Cardinality({i \in DOMAIN alerts : alerts[i].status = "resolved"})]

\* The routes: POST names at least one channel, PATCH acknowledges or resolves.
PostAlert == \E sev \in Severity, rs \in SUBSET Recipient, cs \in SUBSET Channel \ {{}} :
  CreateAlert(sev, rs, cs)
PatchAlert(i) == ResolveAlert(i) \/ \E r \in Recipient : AcknowledgeAlert(i, r)
DeleteAlert(i) == CancelAlert(i)

-----------------------------------------------------------------------------
\* The page renders the banner with the alerts it just read.
RenderBanner ==
  /\ given # alerts
  /\ given' = alerts
  /\ UNCHANGED <<alerts, dismissed>>

\* SingleAlertBanner: the dismiss button of an alert that is not critical
Shown == {i \in DOMAIN given : given[i].status = "active" /\ i \notin dismissed}
Dismiss(i) ==
  /\ i \in Shown /\ given[i].severity # CRITICAL
  /\ dismissed' = dismissed \cup {i}
  /\ UNCHANGED <<alerts, given>>

AlertInit == alerts = <<>> /\ given = <<>> /\ dismissed = {}

AlertNext ==
  \/ PostAlert
  \/ \E i \in DOMAIN alerts : PatchAlert(i) \/ DeleteAlert(i)
  \/ RenderBanner
  \/ \E i \in DOMAIN given : Dismiss(i)

\* An alert that was acknowledged, resolved or cancelled is never active again,
\* and one that was resolved or cancelled is not acknowledged afterwards: a late
\* acknowledgement of a stale banner has no effect (emergencyAlerts.ts:144-186).
AlertsMoveForward ==
  [][\A i \in DOMAIN alerts :
       /\ alerts'[i].status = "active" => alerts[i].status = "active"
       /\ alerts'[i].status = "acknowledged" => alerts[i].status \in {"active", "acknowledged"}
    ]_alertVars
=============================================================================
