SPECIFICATION BackgroundSpec
CONSTANTS
  Key = {fresh, shared, orphan}
  FreshKey = {fresh, orphan}
  HandledKey = {fresh, shared}
  Producer = {p1, p2}
  Worker = {w1, w2}
  MaxAttempts = 3
  MaxFaults = 1
  NoJob = NoJob
  Ticker = {t1, t2}
  PageLimit = 3
  MaxEvents = 4
  MaxDeaths = 1
  MaxCrowd = 3
  Task = {"jobs", "index"}
INVARIANTS
  OnePlace
  NothingMissedBehindCursor
  IndexedOnceUnlessTicksOverlap
PROPERTIES
  KeepsJobPromise
  SavedJobsSettle
  EventuallyIndexed
CHECK_DEADLOCK FALSE
