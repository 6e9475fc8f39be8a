SPECIFICATION EnginesSpec
CONSTANTS
  NumThreads = 2
  NonceEnd = 2
  Stride = 2
  MaxBatch = 2
  MaxStarts = 2
  MaxJobs = 1
  MaxHashes = 2
  MaxChildren = 2
  T4 = T4
  Gpus = {g0, g1, g2}
  Gpu0 = g0
  Known = {g0, g2}
  ModelOf <- MCModelOf
  MaxFails = 1
  RcThreads = 2
  RangeSize = 2
  NonceSpace = 4
  MaxSessions = 2
  KnownPools = {k1, k2}
  Custom = {c}
  Rich = {k2}
  Slow = {k1}
  Priced = {k1, k2}
  Groups = {{k1, k2}, {c}}
  Users = {u1}
  Loop = loop
  None = none
  MaxCalls = 2
  MaxFlips = 1
INVARIANTS
  EnginesTypeOK
  HashingIsSound
  NoEngineLeftBehind
  RigPipeIsRead
  InitialCheckIsComplete
PROPERTIES
  StoppedEnginesEnd
  HotGpuIsLowered
  DiscoveryGoesOn
CHECK_DEADLOCK FALSE
