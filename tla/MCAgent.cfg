SPECIFICATION AgentSpec
CONSTANTS
  Users = {u1, u2}
  Boot = boot
  Switcher = switcher
  Free = Free
  PoolInConfig = TRUE
  MaxCalls = 2
  MaxReceivers = 2
  Senders = {s1, s2, s3}
  Unset = Unset
  MaxOutside = 2
  TfOpps = {1}
  TfMaxQueued = 2
  TfMaxStarts = 1
  TfMaxLegs = 2
  Chains = {c1}
  MaxEndpoint = 2
  RetryRounds = 1
  MaxHead = 2
  MaxChanges = 1
  MaxStarts = 2
  MaxStops = 1
INVARIANTS
  AgentTypeOK
  DistinctUntilSync
  SessionHasOneEngine
  TradeSuccessIsMined
  BlockNotForgotten
PROPERTIES
  SessionCallsReturn
  SendsSettle
  WatchGoesOn
CHECK_DEADLOCK FALSE
