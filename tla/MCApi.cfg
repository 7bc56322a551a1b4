\* Two requests of one caller over one key and one idempotency key; six requests
\* to the limiter over five units of time; two sequence claims.
SPECIFICATION Spec
CONSTANTS
  Caller = {"ip"}
  Endpoint = {"products", "events"}
  Limit = 2
  Window = 3
  BurstLimit = 1
  BurstWindow = 1
  BlockThreshold = 2
  ViolationWindow = 2
  BlockDuration = 2
  MaxTime = 5
  MaxRequests = 6
  MaxLifts = 1
  Key = {"k1"}
  Admin = {"a1"}
  Call = {"c1", "c2"}
  Tier = {1, 2}
  RequestsPerWindow = 1
  NoKey = NoKey
  IdemKey = {"i1"}
  Body = {"b1", "b2"}
  NoRecord = NoRecord
  Claimant = {p1, p2}
  MaxSeq = 3
  MaxResets = 1
  Focus = {"route", "limiter", "sequence"}
INVARIANTS GrantsFitEveryWindow BlockHolds RevokedIsRefused AnsweredIsNotRerun NoSkippedNumber
CHECK_DEADLOCK FALSE
