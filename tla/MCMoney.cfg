SPECIFICATION MoneySpec
CONSTANTS
  MaxSweeps = 2
  Threshold = 2
  MaxQueued = 3
  MaxTrades = 1
  PxPools = {a}
  PxMaxCalls = 3
  PxMaxTxs = 2
INVARIANTS
  MoneyTypeOK
  Books
  PaidAsRecorded
  SuccessIsBacked
  SweepGoesOn
  PositionsAreTrue
PROPERTY
  KeepsPurse
CHECK_DEADLOCK FALSE
