SPECIFICATION SeSpec
CONSTANTS
  SeUsers = {u1}
  SeKeys = {k1}
  SeValues = {v, env}
  SeDefault = env
  SeEnv = env
  SeMaxCalls = 2
PROPERTIES
  SettingsAreSynced
CHECK_DEADLOCK FALSE
