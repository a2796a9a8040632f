SPECIFICATION Spec
CONSTANTS
  MaxRequests = 1
  MaxRecovery = 1
  HttpRetries = 1
  MaxPolls = 2
  MaxGateways = 2
INVARIANT NotificationsSilent
CHECK_DEADLOCK FALSE
