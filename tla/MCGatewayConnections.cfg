SPECIFICATION FairSpec
CONSTANTS
  Sessions = {s1, s2}
  Bridges = {b1}
  Natives = {n1, n2}
  Closers = {d1}
  Reaper = Reaper
  Notifier = Notifier
  None = None
  IdleTimeout = TRUE
  NativeTTL = TRUE
  BridgeTTL = TRUE
  MaxInits = 2
INVARIANTS TypeOK IdleTimerSound NoUndercount
PROPERTIES IdleStopSpares OrphanReaped InitializeEnds NoUnderflow
CHECK_DEADLOCK FALSE
