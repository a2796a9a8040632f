SPECIFICATION Spec
CONSTANTS
  Servers = {a1, a2}
  Versions = {v1, v2}
  Tools = {x1}
  Reserved = {}
  Handles = {h1, h2, h3, h4}
  Locks = {l1, l2, l3}
  Calls = {}
  Events = {e1}
  Reloader = Reloader
  None = None
  MaxReloads = 2
SYMMETRY Symmetry
INVARIANTS TypeOK FlatLookup ClientsOpen 
CHECK_DEADLOCK FALSE
