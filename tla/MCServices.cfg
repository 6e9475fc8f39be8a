SPECIFICATION ServicesSpec
CONSTANTS
  Miners = {m1}
  Ctl = ctl
  MaxReconnect = 1
  MaxConn = 2
  MaxEvents = 3
  PsCallers = {c, d}
  PsSources = {p}
  PsRetries = 1
  PsFew = 3
  PsVeryFew = 2
  PsMinimum = 1
  PsMaxAge = 0
  PsMaxNow = 1
  PaPools = {1, 2, 3, 4}
  PaProtocol <- MCProtocol
  PaChain <- MCChain
  PaTier <- MCTier
  PaIlRisk <- MCIl
  PaMetrics <- MCMetrics
  PaCapitals = {20000}
  PaMaxPools = 3
  RpCallers = {a, b}
  RpEndpoints = {1, 2}
  RpMaxSize = 2
  RpRetries = 3
  SeUsers = {u1, u2}
  SeKeys = {k1, k2}
  SeValues = {v, env, dflt}
  SeDefault = dflt
  SeEnv = env
  SeMaxCalls = 4
  BrOpps = {1, 2}
  BrProfit <- MCProfit
  BrMinProfit = 100
  BrWindow = 1
  BrEnough = 1
  BrSure = 1
  BrMany = 1
  BrSamples = 2
  BrEvery = 2
  BrMaxPreds = 1
  BrKept = 1
  BrMaxAsks = 2
  AgHandlers = {h1, h2}
  AgThreads = {t1, t2}
  AgMain = main
  AgNone = none
  AgTries = 3
  AgWorkerTries = 5
  AgMaxCalls = 3
  MaMaxRounds = 4
  MaMaxCalls = 1
  MaAnomalyNeeds = 4
  MaTuneEvery = 4
  MaSaveEvery = 2
  MaPanel = {30, 80}
INVARIANTS
  AdviceIsLearned
  ServicesTypeOK
  PendingIsWaiting
  SessionIsServed
  PsCacheIsSound
  AllocationFits
  ConnectionHasOneUser
  StoredIsShown
  LearningIsSound
  StartUpIsSound
PROPERTIES
  JobsInOrder
  KeepsLedger
  StopIsFinal
CHECK_DEADLOCK FALSE
