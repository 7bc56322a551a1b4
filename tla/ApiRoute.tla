------------------------------- MODULE ApiRoute -------------------------------
(***************************************************************************)
(* src/frontend/lib/api/handler.ts, defineRoute: a request passes the rate *)
(* limiter, the authentication of its key and, on a write route, the cache *)
(* of idempotent answers, before and after its handler.  An early refusal  *)
(* is the end of the request.                                              *)
(* The limiter also serves the public routes, which go no further, and the *)
(* sequence numbers of events are claimed by handlers of their own.        *)
(***************************************************************************)
EXTENDS RateLimit, Idempotency, EventSequence

CONSTANT Focus     \* which part of the API the instance exercises

VARIABLE focus

routeVars == <<limitVars, keyVars, idemVars, seqVars, focus>>

Protected == <<keyVars, idemVars>>

\* Rate limiting, then authentication: a limited request does not authenticate.
RequestArrives(c, id, e, k, t) ==
  /\ auth[c].at = "none"
  /\ ApplyRateLimit(id, e)
  /\ IF Grants(id, e)
     THEN AuthBegins(c, k, t) /\ UNCHANGED <<keyRecord, keyList, usage, admin>>
     ELSE UNCHANGED keyVars
  /\ UNCHANGED idemVars

\* An admitted write goes through withIdempotency.
EntersIdempotency(c, ik, b) ==
  /\ auth[c].at = "admitted"
  /\ CallArrives(c, ik, b)
  /\ UNCHANGED <<limitVars, keyVars>>

Handles(c) ==
  /\ \/ ReplayOrConflict(c) \/ RunHandler(c) \/ StoreAnswer(c)
     \/ \E code \in Codes : HandlerAnswers(c, code)
  /\ UNCHANGED <<limitVars, keyVars>>

KeysMove ==
  /\ AdminStep \/ \E c \in Call : AuthStep(c) \/ CountUsage(c)
  /\ UNCHANGED <<limitVars, idemVars>>

RouteStep ==
  \/ \E c \in Call :
       \/ \E id \in Caller, e \in Endpoint, k \in Key, t \in Tier : RequestArrives(c, id, e, k, t)
       \/ \E ik \in IdemKey, b \in Body : EntersIdempotency(c, ik, b)
       \/ Handles(c)
  \/ KeysMove
  \/ \E ik \in IdemKey : RecordExpires(ik) /\ UNCHANGED <<limitVars, keyVars>>

LimiterStep ==
  /\ \/ \E id \in Caller : UnblockIp(id)
     \/ ClearIpReputation
     \/ \E id \in Caller, e \in Endpoint : ApplyRateLimit(id, e)
     \/ LimitTick
  /\ UNCHANGED Protected

Init ==
  /\ LimitInit /\ KeysInit /\ IdemInit /\ SeqInit
  /\ focus \in Focus

Next ==
  /\ \/ focus = "route" /\ RouteStep /\ UNCHANGED seqVars
     \/ focus = "limiter" /\ LimiterStep /\ UNCHANGED seqVars
     \/ focus = "sequence" /\ SeqNext /\ UNCHANGED <<limitVars, Protected>>
  /\ UNCHANGED focus

Spec == Init /\ [][Next]_routeVars

-----------------------------------------------------------------------------
\* Every part holds values of its type: the windows hold times, the counted
\* requests of a key stay within its tier's limit, calls are at known steps.
TypeOK == LimitTypeOK /\ KeysTypeOK /\ IdemTypeOK
=============================================================================
