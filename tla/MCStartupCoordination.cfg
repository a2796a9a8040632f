SPECIFICATION Spec
CONSTANTS
  Clients = {c1, c2}
  Stoppers = {p1}
  Gateways = {g1, h1}
  ByHand = {h1}
  Configs = {k1, k2}
  None = None
  Retries = 2
SYMMETRY Symmetry
INVARIANTS TypeOK LeaderHoldsLock 
PROPERTIES RetriesPaid GatewaySpec
CHECK_DEADLOCK FALSE
