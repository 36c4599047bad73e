\* A link lost while idle: the heartbeat pings it for ever.
CONSTANTS
  u1 = u1  u2 = u2
  Users = {u1, u2}
  Ops = {"connect", "reconnect", "disconnect"}
  MaxCalls = 3
  MaxManagers = 1
  MaxBridges = 7
  MaxDrops = 1
SPECIFICATION FairSpec
PROPERTY HeartbeatNoticesDrop
