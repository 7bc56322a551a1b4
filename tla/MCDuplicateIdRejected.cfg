SPECIFICATION Spec
CONSTANTS
  ProductId = {p1}
  Address = {a1, a2}
  NoAddress = NoAddress
  NoProduct = NoProduct
  NoEscrow = NoEscrow
  Signatures = {1, 2}
  EventTypes = {1}
  ExpirationWindow = 0
  MaxTime = 0
  MaxNonce = 3
  MaxActors = 2
  MaxBatch = 1
  MaxIndex = 2
  MaxPending = 1
  MaxEvents = 1
CHECK_DEADLOCK FALSE
PROPERTY DuplicateIdRejected
