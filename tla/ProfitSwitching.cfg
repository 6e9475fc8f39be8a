SPECIFICATION Spec
CONSTANTS
  Users = {u1, u2}
  Boot = boot
  Switcher = switcher
  Free = Free
  PoolInConfig = TRUE
  MaxCalls = 2
  MaxReceivers = 1

PROPERTY
  SwitcherGoesOn
CHECK_DEADLOCK FALSE
