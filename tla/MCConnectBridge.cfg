SPECIFICATION FairSpec
CONSTANTS
  MaxRequests = 2
  MaxRecovery = 1
  HttpRetries = 1
  MaxPolls = 2
  MaxGateways = 2
INVARIANTS TypeOK PostsBounded SessionPaired 
PROPERTIES DeliverySpec FramesAnswered StopEnds
CHECK_DEADLOCK FALSE
