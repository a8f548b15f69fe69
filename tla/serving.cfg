SPECIFICATION ServingSpec
CONSTANTS
  SelRequests <- MCSelRequests
  SelReplies <- MCSelReplies
  SelParallel = 2
  SelRetries = 1
  SelBuffer = 2
  NoConf = NoConf
  AgRequests <- MCAgRequests
  AgActions <- MCAgActions
  Garbled = Garbled
  AgThreshold = 3
  JWDocs <- MCJWDocs
  JWScores = {0, 1, 2}
  JWThreshold = 1
  JWMaxPages = 2
  JWCoarsePages = 3
  JWMaxLeaves = 2
  JWRunnerUps = 1
  JWSkimMax = 3
  JWLeafBatch = 2
  JWRequest = 2
  JWFaults = 1
  Replicas = {"a", "b"}
  SaveCalls = {"s1", "s2", "s3"}
  Target <- MCTarget
  Asks <- MCAsks
  EnvSettings <- MCEnv
  CanOpen <- MCCanOpen
  RegFaults = 1
  Nothing = Nothing
  CWDocs <- MCCWDocs
  CWPages <- MCPages
  CWScores = {0, 1}
  CWThreshold = 1
  CWAnswerable = 1
  CWMinDocs = 1
  CWMaxDocs = 2
  CWPerDoc = 2
  CWLimit = 2
  CWMaxHops = 2
  CWBatch = 2
  CWReaders = 1
  CWFaults = 1
  QPDoc <- MCQPDoc
  QPScenarios <- MCScenarios
  QPPlans <- MCPlans
  QPSelections <- MCSelections
  QPScores <- MCReRanks
  QPMarks = {{}, {1, 7}}
  QPLost = {{}, {3}}
  QPCacheMax = 2
  QPReplayMax = 2
  QPTopK = 1
  QPThreshold = 1
  QPFaults = 1
  NoPlan = NoPlan
  LibDocs = {1, 2, 3}
  LibFirst = {1, 2}
  LibSize <- MCLibSize
  LibLimit = 3
  LibQueries <- MCLibQueries
  LibPage = 1
  LibBuilders = 1
  LibIngests <- MCLibIngests
  LibFaults = 1
  MQRequests <- MCMQRequests
  MQPicks <- MCMQPicks
  MQParallel = 2
  MQBuffer = 1
  MQBudget = 4
  MQCap = 2
  MQFaults = 1
  GtRequests = {r1, r2}
  GtConfigs <- MCGtConfigs
  GtMinute = 2
  GtReap = 2
  GtMaxTime = 3
  GtMaxBuckets = 2
INVARIANTS SelectionSound JudgeWalkSound CorpusSound AnswersSound LibrarySound
  StoreAnswersSound RegistrySound RateHonoured
PROPERTIES SharedRegister ServingSettles
