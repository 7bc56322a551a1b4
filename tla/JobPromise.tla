------------------------------ MODULE JobPromise ------------------------------
(***************************************************************************)
(* What a queued job is promised, without saying how: it is attempted at   *)
(* most as often as its request allowed, if anything handles it at all;    *)
(* it is completed by an attempt, or given up when no attempt is left;     *)
(* and nothing happens to it afterwards.                                   *)
(***************************************************************************)
EXTENDS Naturals

CONSTANTS
  Allowed,     \* attempts the request allowed
  Handled      \* its type has a handler

VARIABLES attempts, outcome

promiseVars == <<attempts, outcome>>

PromiseInit == attempts = 0 /\ outcome = "open"

BeginAttempt ==
  /\ outcome = "open" /\ Handled /\ attempts < Allowed
  /\ attempts' = attempts + 1
  /\ UNCHANGED outcome

Complete ==
  /\ outcome = "open" /\ attempts > 0
  /\ outcome' = "completed"
  /\ UNCHANGED attempts

GiveUp ==
  /\ outcome = "open" /\ (Handled => attempts = Allowed)
  /\ outcome' = "dead"
  /\ UNCHANGED attempts

PromiseNext == BeginAttempt \/ Complete \/ GiveUp

PromiseStep == PromiseNext \/ UNCHANGED promiseVars

PromiseSpec == PromiseInit /\ [][PromiseNext]_promiseVars
=============================================================================
