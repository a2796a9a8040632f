SPECIFICATION Spec
CONSTANTS
  Clients = {c1, c2}
  Stoppers = {}
  Gateways = {g1, g2}
  ByHand = {}
  Configs = {k1}
  None = None
  Retries = 2
INVARIANT OneGateway
CHECK_DEADLOCK FALSE
