SPECIFICATION Spec
CONSTANTS
  Users = {u1, u2}
  Boot = boot
  Switcher = switcher
  Free = Free
  PoolInConfig = FALSE
  MaxCalls = 1
  MaxReceivers = 1

PROPERTY
  CallsReturn
CHECK_DEADLOCK FALSE
