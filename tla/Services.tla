------------------------------- MODULE Services -------------------------------
(***************************************************************************)
(* The services of src/frontend/lib that keep state of their own beside    *)
(* the routes and panels that use them.  No one of them calls another, so  *)
(* a behaviour exercises one: the others stay as they began.               *)
(***************************************************************************)
EXTENDS CircuitBreaker, RecallBroadcast, EmergencyAlerts,
        Insurance, ProductRecords

CONSTANT Service     \* the services an instance exercises

VARIABLE service

servicesVars == <<breakerVars, probeVars, escalations, broadcastVars, alertVars,
                  insuranceVars, asked, recordVars, service>>

Init ==
  /\ BreakerInit /\ ProbeInit /\ EscalationInit /\ BroadcastInit
  /\ AlertInit /\ InsuranceInit /\ RecordsInit
  /\ service \in Service
  /\ QuoteInit /\ (service # "premium" => asked = CHOOSE r \in RiskProfile : TRUE)

Only(s) ==
  /\ service = s /\ UNCHANGED service
  /\ s # "breaker" => UNCHANGED breakerVars
  /\ s # "probe" => UNCHANGED probeVars
  /\ s # "escalation" => UNCHANGED escalations
  /\ s # "broadcast" => UNCHANGED broadcastVars
  /\ s # "alerts" => UNCHANGED alertVars
  /\ s # "insurance" => UNCHANGED insuranceVars
  /\ s # "premium" => UNCHANGED asked
  /\ s # "records" => UNCHANGED recordVars

Next ==
  \/ Only("breaker") /\ BreakerNext
  \/ Only("probe") /\ ProbeNext
  \/ Only("escalation") /\ EscalationNext
  \/ Only("broadcast") /\ BroadcastNext
  \/ Only("alerts") /\ AlertNext
  \/ Only("insurance") /\ InsuranceNext
  \/ Only("premium") /\ Quote
  \/ Only("records") /\ RecordsNext

Spec == Init /\ [][Next]_servicesVars
=============================================================================
