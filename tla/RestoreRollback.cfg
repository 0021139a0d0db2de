SPECIFICATION EdgeSpec
CONSTANTS
  Edges = {"restore"}
  w1 = w1
  w2 = w2
  s1 = s1
  web = web
  scorer = scorer
  fa = fa
  fb = fb
  data = data
  config = config
  companies = companies
  v1 = v1
  v2 = v2
  greenhouse = greenhouse
  Windows = {v1}
  Clicks = {c1}
  NoFile = NoFile
  Garbled = Garbled
  MaxChanges = 2
  Viewers <- BoardWindows
  MaxPending = 1
  Feeds = {fa}
  SourceOf <- OneSource
  Triages = {t1, t2}
  Clerks = {p1}
  WeekSlots = 1
  LastSlot = 8
  MaxLaunches = 2
  LogFaults <- LogFaultSets
  MaxUid = 2
  Resets = 1
  MailFaults <- MailFaultSets
  Callers = {w1, w2, s1}
  ToScore = {w1, w2}
  Batches <- OneBatch
  SCORE_WORKERS = 1
  Processes = {web, scorer}
  ProcessOf <- OneEach
  Ceilings = {1, 3, NoCeiling}
  NoCeiling = NoCeiling
  Costs = {1}
  MaxMonth = 2
  MaxCalls = 4
  SpendFaults <- SpendFaultSets
  Handlers = {h1}
  Blocks = {b1, b2}
  UserKeys = {k1}
  NoKey = NoKey
  NoSession = NoSession
  MaxSessions = 2
  MaxTurns = 2
  ChatFaults <- ChatFaultSets
  Finalizers = {h1}
  Required <- RequiredFiles
  Voice = voice
  Env = env
  Absent = Absent
  MaxAttempts = 3
  InjectFaults <- InjectFaultSets
  Runners = {r1}
  NoRunner = NoRunner
  NoVersion = NoVersion
  MaxStops = 2
  MaxBoots = 4
  StateDirs <- Directories
  DataDir = data
  Names = {1, 2}
  RestoreFaults <- RestoreFaultSets
  MaxCommits = 2
  MaxFiles = 1
PROPERTIES RollbackAllowsRecovery
CHECK_DEADLOCK FALSE
