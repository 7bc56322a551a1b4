SPECIFICATION StoresSpec
CONSTANTS
  ProductId = {p1}
  Address = {a1, a2}
  NoAddress = NoAddress
  NoProduct = NoProduct
  NoEscrow = NoEscrow
  Signatures = {1, 2}
  EventTypes = {1, 2}
  ExpirationWindow = 0
  MaxTime = 0
  MaxNonce = 2
  MaxActors = 1
  MaxBatch = 2
  MaxIndex = 2
  MaxPending = 2
  MaxEvents = 2
CHECK_DEADLOCK FALSE
SYMMETRY Symmetry
INVARIANTS
  ApprovedEventsConserved
  NoReplayedEntry
  LifecycleRecordedOnce
