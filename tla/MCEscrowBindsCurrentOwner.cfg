SPECIFICATION Spec
CONSTANTS
  ProductId = {p1}
  Address = {a1, a2, a3}
  NoAddress = NoAddress
  NoProduct = NoProduct
  NoEscrow = NoEscrow
  Signatures = {1, 2}
  EventTypes = {1}
  ExpirationWindow = 0
  MaxTime = 0
  MaxNonce = 1
  MaxActors = 1
  MaxBatch = 1
  MaxIndex = 1
  MaxPending = 1
  MaxEvents = 1
CHECK_DEADLOCK FALSE
PROPERTY EscrowBindsCurrentOwner
