\* Two threads and the heartbeats of two managers over a board that drops off.
CONSTANTS
  u1 = u1  u2 = u2
  Users = {u1, u2}
  Ops = {"connect", "reconnect", "disconnect", "disconnect_all", "close"}
  MaxCalls = 3
  MaxManagers = 2
  MaxBridges = 5
  MaxDrops = 1
SPECIFICATION FairSpec
INVARIANTS TypeOK OneLink HeartbeatOnlyReplaces
PROPERTIES HealthyLinkIsKept CallReturns HeartbeatEnds
