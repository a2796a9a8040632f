SPECIFICATION Spec
CONSTANTS
  Servers = {a1}
  Versions = {v1}
  Tools = {x1}
  Reserved = {}
  Handles = {h1, h2, h3, h4}
  Locks = {l1, l2, l3}
  Calls = {c1}
  Events = {}
  Reloader = Reloader
  None = None
  MaxReloads = 1
INVARIANT ReloadWins
CHECK_DEADLOCK FALSE
