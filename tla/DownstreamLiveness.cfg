SPECIFICATION FairSpec
CONSTANTS
  Servers = {a1}
  Versions = {v1}
  Tools = {x1, x2}
  Reserved = {x2}
  Handles = {h1, h2, h3}
  Locks = {l1, l2}
  Calls = {c1}
  Events = {e1}
  Reloader = Reloader
  None = None
  MaxReloads = 1
INVARIANTS ClientsOpen 
PROPERTIES RecoveryEnds 
CHECK_DEADLOCK FALSE
