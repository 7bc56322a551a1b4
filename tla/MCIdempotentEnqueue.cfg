SPECIFICATION Spec
CONSTANTS
  Key = {fresh, shared, orphan}
  FreshKey = {fresh, orphan}
  HandledKey = {fresh, shared}
  Producer = {p1, p2}
  Worker = {w1, w2}
  MaxAttempts = 3
  MaxFaults = 0
  NoJob = NoJob
CHECK_DEADLOCK FALSE
INVARIANT IdempotentEnqueue
