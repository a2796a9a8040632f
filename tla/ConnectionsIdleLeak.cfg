SPECIFICATION FairSpec
CONSTANTS
  Sessions = {s1}
  Bridges = {b1}
  Natives = {n1}
  Closers = {d1}
  Reaper = Reaper
  Notifier = Notifier
  None = None
  IdleTimeout = TRUE
  NativeTTL = TRUE
  BridgeTTL = TRUE
  MaxInits = 2
PROPERTY IdleGatewayStops
CHECK_DEADLOCK FALSE
