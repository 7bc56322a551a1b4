------------------------------- MODULE RateLimit -------------------------------
(***************************************************************************)
(* src/frontend/lib/api/rateLimit.ts: the sliding-window limiter in front  *)
(* of the API routes (a short window and a burst window per endpoint and   *)
(* caller) and the reputation that blocks a caller refused too often.      *)
(* applyRateLimit runs without an await, so a request is one step.         *)
(***************************************************************************)
EXTENDS Integers, Sequences, FiniteSets

CONSTANTS
  Caller,          \* identities getClientIp derives
  Endpoint,
  Limit, Window, BurstLimit, BurstWindow,             \* RateLimitConfig
  BlockThreshold, ViolationWindow, BlockDuration,     \* ReputationConfig
  MaxTime, MaxRequests, MaxLifts                      \* bounds

ASSUME RateLimitAssumption ==
  {Limit, Window, BurstLimit, BurstWindow, BlockThreshold, ViolationWindow, BlockDuration} \subseteq Nat

VARIABLES
  limitNow,    \* Date.now()
  slots,       \* store: times of the requests let through a window
  reputation,  \* ipReputation
  limitLog     \* history: per caller what each request got and when

limitVars == <<limitNow, slots, reputation, limitLog>>

Size(w) == IF w = "burst" THEN BurstWindow ELSE Window
Most(w) == IF w = "burst" THEN BurstLimit ELSE Limit
Slot == Endpoint \X {"short", "burst"} \X Caller

\* filter, as a recursive function
Since(times, size) ==
  LET kept[n \in 0..Len(times)] ==
        IF n = 0 THEN <<>>
        ELSE IF limitNow - times[n] < size THEN Append(kept[n - 1], times[n]) ELSE kept[n - 1]
  IN kept[Len(times)]

RoomForOneMore(s) == Len(Since(slots[s], Size(s[2]))) <= Most(s[2])         \* faulty variant
Room(s) == Len(Since(slots[s], Size(s[2]))) < Most(s[2])

Take(old, s) == [old EXCEPT ![s] = Append(Since(old[s], Size(s[2])), limitNow)]

NoReputation == [violations |-> <<>>, blockedUntil |-> 0]
IsBlocked(id) == reputation[id].blockedUntil > limitNow

ViolationsOfShorterWindow(id) ==   \* faulty variant
  Append(Since(reputation[id].violations, ViolationWindow - 1), limitNow)
Violations(id) == Append(Since(reputation[id].violations, ViolationWindow), limitNow)

RecordViolation(id) ==
  LET violations == Violations(id) IN
  reputation' = [reputation EXCEPT ![id] =
    [violations |-> violations,
     blockedUntil |-> IF Len(violations) >= BlockThreshold THEN limitNow + BlockDuration
                      ELSE reputation[id].blockedUntil]]

Log(id, what, e) ==
  limitLog' = [limitLog EXCEPT ![id] = Append(@, [what |-> what, on |-> e, at |-> limitNow])]

Grants(id, e) == ~IsBlocked(id) /\ Room(<<e, "short", id>>) /\ Room(<<e, "burst", id>>)

\* A refused burst has already taken its place in the short window.
ApplyRateLimit(id, e) ==
  /\ Len(limitLog[id]) < MaxRequests
  /\ \/ /\ IsBlocked(id)
        /\ Log(id, "blocked", e)
        /\ UNCHANGED <<slots, reputation>>
     \/ /\ ~IsBlocked(id) /\ ~Room(<<e, "short", id>>)
        /\ RecordViolation(id) /\ Log(id, "refused", e)
        /\ UNCHANGED slots
     \/ /\ ~IsBlocked(id) /\ Room(<<e, "short", id>>) /\ ~Room(<<e, "burst", id>>)
        /\ slots' = Take(slots, <<e, "short", id>>)
        /\ RecordViolation(id) /\ Log(id, "refused", e)
     \/ /\ Grants(id, e)
        /\ slots' = Take(Take(slots, <<e, "short", id>>), <<e, "burst", id>>)
        /\ Log(id, "granted", e)
        /\ UNCHANGED reputation
  /\ UNCHANGED limitNow

Lifts(id) == Len(SelectSeq(limitLog[id], LAMBDA r : r.what \in {"lifted", "cleared"}))

UnblockIp(id) ==
  /\ Lifts(id) < MaxLifts
  /\ reputation' = [reputation EXCEPT ![id].blockedUntil = 0]
  /\ Log(id, "lifted", "none")
  /\ UNCHANGED <<limitNow, slots>>

\* Every caller's at once.
ClearIpReputation ==
  /\ \A id \in Caller : Lifts(id) < MaxLifts
  /\ reputation' = [id \in Caller |-> NoReputation]
  /\ limitLog' = [id \in Caller |->
       Append(limitLog[id], [what |-> "cleared", on |-> "none", at |-> limitNow])]
  /\ UNCHANGED <<limitNow, slots>>

LimitTick == limitNow < MaxTime /\ limitNow' = limitNow + 1 /\ UNCHANGED <<slots, reputation, limitLog>>

LimitInit ==
  /\ limitNow = 1
  /\ slots = [s \in Slot |-> <<>>]
  /\ reputation = [id \in Caller |-> NoReputation]
  /\ limitLog = [id \in Caller |-> <<>>]

LimitTypeOK ==
  /\ slots \in [Slot -> Seq(1..MaxTime)]
  /\ \A id \in Caller : reputation[id].blockedUntil \in 0..(MaxTime + BlockDuration)

-----------------------------------------------------------------------------
\* In any window, ending at any moment, an endpoint lets a caller through at
\* most as often as the window allows, the short and the burst one, although
\* refused bursts take places and the stored times are pruned only on success
\* (rateLimit.ts:332-349, 412-438).
Granted(log, e, w, end) ==
  {i \in DOMAIN log : /\ log[i].what = "granted" /\ log[i].on = e
                      /\ log[i].at <= end /\ end - log[i].at < Size(w)}
GrantsFitEveryWindow ==
  \A id \in Caller, e \in Endpoint, w \in {"short", "burst"}, end \in 1..limitNow :
    Cardinality(Granted(limitLog[id], e, w, end)) <= Most(w)

\* Counted over every endpoint, refusals that reach the threshold within the
\* violation window shut the caller out for the whole block, unless an admin
\* lifts it (rateLimit.ts:167-203).
Refusals(log, i) ==
  {k \in 1..i : /\ log[k].what = "refused"
                /\ log[i].at - log[k].at < ViolationWindow
                /\ \A m \in k..i : log[m].what # "cleared"}
BlockHolds ==
  \A id \in Caller : LET log == limitLog[id] IN
    \A j \in DOMAIN log : \A i \in 1..(j - 1) :
      (/\ log[i].what = "refused" /\ Cardinality(Refusals(log, i)) >= BlockThreshold
       /\ log[j].at < log[i].at + BlockDuration
       /\ \A k \in i..j : log[k].what \notin {"lifted", "cleared"})
        => log[j].what = "blocked"
=============================================================================
