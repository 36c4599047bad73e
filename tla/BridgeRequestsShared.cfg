\* Two threads share a table with a single number: one of them finds it full,
\* and answers come late, out of order or not at all.
CONSTANTS
  t1 = t1  t2 = t2  t3 = t3
  ping = ping  scan = scan  tx = tx
  Threads = {t1, t2}
  NSeq = 1
  Cmds = {ping, scan, tx}
  NonIdempotent = {tx}
  SlowCmds = {scan}
  PingCmd = ping
  MaxRetries = 1
  SlowDepth = 1
  MaxCalls = 2
  MaxFaults = 1
SPECIFICATION Spec
SYMMETRY Symmetry
INVARIANTS TypeOK SlotHeld ForeignReplyIsLate ExecutedAtMost DeadMeansPingFailed
