SPECIFICATION ApprovalSpec
CONSTANTS
  ProductId = {p1}
  Address = {a1, a2, a3}
  NoAddress = NoAddress
  NoProduct = NoProduct
  NoEscrow = NoEscrow
  Signatures = {3}
  EventTypes = {1, 2}
  ExpirationWindow = 0
  MaxTime = 1
  MaxNonce = 2
  MaxActors = 2
  MaxBatch = 2
  MaxIndex = 1
  MaxPending = 2
  MaxEvents = 1
CHECK_DEADLOCK FALSE
SYMMETRY Symmetry
INVARIANT PendingQueueSound
PROPERTIES
  PendingLeavesByApprovalOrExpiry
  PendingChangesOnlyBySignedApproval
  ImplementsApprovalLedger
