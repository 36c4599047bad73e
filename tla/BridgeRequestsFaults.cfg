\* One thread retries over a link that loses frames, goes down or is closed,
\* to a board that restarts.
CONSTANTS
  t1 = t1  t2 = t2  t3 = t3
  ping = ping  scan = scan  tx = tx
  Threads = {t1}
  NSeq = 2
  Cmds = {ping, scan, tx}
  NonIdempotent = {tx}
  SlowCmds = {scan}
  PingCmd = ping
  MaxRetries = 1
  SlowDepth = 1
  MaxCalls = 2
  MaxFaults = 2
SPECIFICATION FairSpec
PROPERTY ImplementsRemoteCall
