\* A server, one connection to it and one from the host share two slots.
CONSTANTS
  o1 = o1  i1 = i1  i2 = i2
  Outgoing = {o1}
  Incoming = {i1}
  NumSockets = 2
  Window = 1
  Chunk = 2
  TxQueue = 2
  SlowQueue = 2
  MaxBytes = 2
  MaxFailures = 1
SPECIFICATION Spec
INVARIANTS TypeOK CreditConserved StreamIsWhole OnlyOwnBytes OpenMeansOpen SlotHasOwner
