\* A late answer is taken for the answer of the next user of its number.
CONSTANTS
  t1 = t1  t2 = t2  t3 = t3
  ping = ping  scan = scan  tx = tx
  Threads = {t1, t2}
  NSeq = 2
  Cmds = {ping, scan}
  NonIdempotent = {}
  SlowCmds = {scan}
  PingCmd = ping
  MaxRetries = 0
  SlowDepth = 1
  MaxCalls = 3
  MaxFaults = 0
SPECIFICATION Spec
SYMMETRY Symmetry
INVARIANT OwnReply
