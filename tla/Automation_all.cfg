SPECIFICATION MCSpec
CONSTANTS
  Builds <- MCBuilds
  MaxInstalls = 2
  MaxLives = 2
  MaxAttempts = 2
  MaxMissed = 2
  CrashLimit = 2
  sub1 = sub1
  sub2 = sub2
  t1 = t1
  t2 = t2
  Subs = {sub1, sub2}
  Topics = {t1, t2}
  Keys = {k1}
  Frames <- MCFrames
  Grants <- MCGrants
  MaxEvents = 3
  MaxProcesses = 2
  MaxIds = 2
  MaxInFlight = 1
  MaxHostCalls = 3
  Document <- MCDocument
  Settings <- MCSettings
  SkipMissed = TRUE
  MaxParallel = 2
  MaxQueued = 1
  MaxPerHour = 2
  MaxRuns = 3
  MaxSweeps = 2
  MaxStarts = 2
INVARIANTS
  RowDiskAndProcessAgree
  NobodyUnwatched
  NeverStranded
  DeliveredIsGranted
  AnswersFit
  SlotsRespected
  RunningIsWalked
  NodesRunOnce
PROPERTIES
  HungIsEnded
  ImplementsPluginFeed
  FirstInFirstDone
  EveryRunEnds
CHECK_DEADLOCK FALSE
