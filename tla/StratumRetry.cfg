SPECIFICATION Spec
CONSTANTS
  Miners = {m1}
  Ctl = ctl
  MaxReconnect = 5
  MaxConn = 1
  MaxEvents = 1
INVARIANT
  LossIsRetried
CHECK_DEADLOCK FALSE
