\* Two clients of one server, one after the other on the same slot; nothing fails.
CONSTANTS
  o1 = o1  i1 = i1  i2 = i2
  Outgoing = {}
  Incoming = {i1, i2}
  NumSockets = 2
  Window = 1
  Chunk = 2
  TxQueue = 2
  SlowQueue = 2
  MaxBytes = 2
  MaxFailures = 0
SPECIFICATION Spec
SYMMETRY Symmetry
INVARIANT Lossless
