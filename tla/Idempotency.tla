------------------------------ MODULE Idempotency ------------------------------
(***************************************************************************)
(* src/frontend/lib/api/idempotency.ts, withIdempotency: one answer per    *)
(* Idempotency-Key, cached in the memory of the process.  Requests that    *)
(* are served at the same time interleave where the handler, the hashing   *)
(* and the copying of the response are awaited.                            *)
(***************************************************************************)
EXTENDS ApiKeys

CONSTANTS
  IdemKey,    \* values of the header
  Body,       \* request bodies, told apart by their hash (SHA-256)
  NoRecord

VARIABLES
  cache,      \* the store: per key the body and status it was answered with
  call,       \* what each request is doing
  answered,   \* history: keys whose caller has got an answer of its handler that is cached
  reruns      \* history: requests whose handler began although their key was answered

idemVars == <<cache, call, answered, reruns>>

\* 2xx, 4xx, and 5xx or an exception (an invalid body is one, in defineRoute).
Codes == {"ok", "refused", "failed"}
CacheRecord == [body : Body, code : Codes \ {"failed"}, expired : BOOLEAN]
ASSUME IdemAssumption == NoRecord \notin CacheRecord

NotCalled == [at |-> "ready", key |-> NoRecord, body |-> NoRecord, code |-> "none"]

Doing(c, at) == call[c].at = at
Continue(c, at) == call' = [call EXCEPT ![c].at = at]

CallArrives(c, k, b) ==
  /\ Doing(c, "ready")
  /\ call' = [call EXCEPT ![c] = [at |-> "lookup", key |-> k, body |-> b, code |-> "none"]]
  /\ UNCHANGED <<cache, answered, reruns>>

LiveOnceExpired(k) == cache[k] # NoRecord /\ cache[k].expired    \* faulty variant
Live(k) == cache[k] # NoRecord /\ ~cache[k].expired

\* A live record answers the call: with its response, or with a conflict when
\* the body differs.
ReplayOrConflict(c) ==
  /\ Doing(c, "lookup")
  /\ Live(call[c].key)
  /\ call' = [call EXCEPT ![c].at = "done",
                          ![c].code = IF cache[call[c].key].body = call[c].body
                                      THEN cache[call[c].key].code ELSE "refused"]
  /\ UNCHANGED <<cache, answered, reruns>>

Run(c) ==
  /\ reruns' = IF call[c].key \in answered THEN reruns \cup {c} ELSE reruns
  /\ Continue(c, "handler")

RunHandler(c) ==
  /\ Doing(c, "lookup")
  /\ ~Live(call[c].key)
  /\ cache' = [cache EXCEPT ![call[c].key] = NoRecord]
  /\ Run(c)
  /\ UNCHANGED answered

Prune == [k \in IdemKey |-> IF Live(k) THEN cache[k] ELSE NoRecord]

\* A response of 500 and above is returned as it is; any other is cached.
HandlerAnswers(c, code) ==
  /\ Doing(c, "handler")
  /\ IF code = "failed"
     THEN /\ call' = [call EXCEPT ![c].at = "done", ![c].code = code]
          /\ UNCHANGED cache
     ELSE /\ call' = [call EXCEPT ![c].at = "store", ![c].code = code]
          /\ cache' = Prune
  /\ UNCHANGED <<answered, reruns>>

StoreAnswer(c) ==
  /\ Doing(c, "store")
  /\ cache' = [cache EXCEPT ![call[c].key] =
                 [body |-> call[c].body, code |-> call[c].code, expired |-> FALSE]]
  /\ answered' = answered \cup {call[c].key}
  /\ Continue(c, "done")
  /\ UNCHANGED reruns

\* The time to live of a record (a day) runs out: its key is new again.
RecordExpires(k) ==
  /\ Live(k)
  /\ cache' = [cache EXCEPT ![k].expired = TRUE]
  /\ answered' = answered \ {k}
  /\ UNCHANGED <<call, reruns>>

IdemInit ==
  /\ cache = [k \in IdemKey |-> NoRecord]
  /\ call = [c \in Call |-> NotCalled]
  /\ answered = {} /\ reruns = {}

IdemNext ==
  \/ \E c \in Call :
       \/ \E k \in IdemKey, b \in Body : CallArrives(c, k, b)
       \/ ReplayOrConflict(c) \/ RunHandler(c) \/ StoreAnswer(c)
       \/ \E code \in Codes : HandlerAnswers(c, code)
  \/ \E k \in IdemKey : RecordExpires(k)

IdemTypeOK ==
  /\ cache \in [IdemKey -> CacheRecord \cup {NoRecord}]
  /\ \A c \in Call : call[c].at \in {"ready", "lookup", "handler", "store", "done"}

-----------------------------------------------------------------------------
\* Once a request was answered under a key (below 500), its handler does not
\* run again for that key until the record expires, whatever other requests
\* with the key overlapped it (idempotency.ts:92-142).
AnsweredIsNotRerun == reruns = {}
=============================================================================
