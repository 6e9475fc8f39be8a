SPECIFICATION MaSpec
CONSTANTS
  MaMaxRounds = 4
  MaAnomalyNeeds = 10
  MaTuneEvery = 10
  MaSaveEvery = 100
  MaPanel = {30, 80}
  MaMaxCalls = 1
INVARIANTS
  HotGpuIsCooled
CHECK_DEADLOCK FALSE
