SPECIFICATION BwSpec
CONSTANTS
  Chains = {c1}
  MaxEndpoint = 2
  RetryRounds = 1
  MaxHead = 2
  MaxChanges = 1
  MaxStarts = 2
  MaxStops = 1
PROPERTY
  BlocksReachAgent
CHECK_DEADLOCK FALSE
