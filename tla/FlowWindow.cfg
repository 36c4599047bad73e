\* Three threads; together their frames overflow the ring.
CONSTANTS
  t1 = t1  t2 = t2  t3 = t3
  Threads = {t1, t2, t3}
  Sizes = {1, 3}
  PingSize = 1
  MaxInflight = 4
  BurstWindow = 4
  Ring = 7
  MaxCalls = 4
SPECIFICATION Spec
SYMMETRY Symmetry
INVARIANTS TypeOK ReservedIsLive WaiterIsNotAlone OverrunHasCause
