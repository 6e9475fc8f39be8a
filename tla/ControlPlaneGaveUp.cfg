SPECIFICATION Spec
CONSTANTS
  Agents = {a1}
  Names = {n1}
  MaxAttempts = 10
  MaxBeats = 1
  MaxRestarts = 0
INVARIANT
  GaveUpMeansUnregistered
CHECK_DEADLOCK FALSE
