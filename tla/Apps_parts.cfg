INIT InitApps
NEXT NextApps
CONSTANTS
  PayloadSizes <- MCPayloadSizes
  RecordMaxSize = 2
  RecordsMaxSize = 4
  CompressedSize = 1
  MaxRecordWrites = 3
  MaxRecordCrashes = 1
  JobCalls = {"c1"}
  Instances <- MCInstances
  MaxJobs = 4
  MaxJobCalls = 1
  MaxJobRestarts = 1
  Tabs = {"t1", "t2"}
  MaxSessionsPerUser = 1
  AccessLifetime = 1
  ReuseLifetime = 1
  RefreshLifetime = 0
  Threshold = 1
  Window = 1
  AuthCalls <- MCAuthCalls
  MaxAuthTime = 1
  TokenCalls = {"c1","c2"}
  MaxJwtTime = 3
  AccessExpiresIn = 1
  ShortExpiresIn = 1
  LongExpiresIn = 3
  ScopeTexts <- MCScopeTexts
  ScopeKeys = {"k"}
  UserCalls = {"c1", "c2", "c3", "c4"}
  Passwords = {"p", "q"}
  ResetWindow = 1
  MaxUserTime = 2
  CodeCalls = {"c1", "c2", "c3"}
  MaxAttempts = 2
  ActionTimeout = 1
  MaxActions = 2
  MaxCollections = 1
  MaxActionTime = 1
  AdminUids <- MCAdminUids
  ApplyClicks = {"k1","k2"}
  MaxAdminFails = 1
  MaxAdminEdits = 2
  PaymentIds = {"p1", "p2"}
  Hooks = {"h1"}
  MaxEvents = 2
  MaxStripeFails = 1
  MaxSyncs = 1
  MaxPayRestarts = 1
  Durations = {1, 2}
  Recurrences = {"r1", "r2"}
  MaxPaid = 3
  MaxSubTime = 5
  NodeKeys = {"x", "y"}
  MaxTime = 2
  History = 1
  Page = 1
  MaxPosts = 3
  MaxLost = 1
  Bodies <- MCBodies
  PluginCalls = {"c1","c2"}
  HandlersAt <- MCHandlersAt
  TagsFromUid <- MCTagsFromUid
  TagsFromKey <- MCTagsFromKey
  Dashboards <- MCDashboards
  MaxPluginRestarts = 1
  MaxRefused = 1
  MaxMillis = 2
  Remotes <- MCRemotes
  ClockOffsets = {5}
  Publishes = {"p1","p2"}
  MaxPublishTime = 2
  MaxRemoteFails = 3
  MaxCopies = 1
  Periods = {1,3}
  MaxGraphTime = 3
  MaxPeriodChanges = 1
  MaxFetchFails = 1
  PlotSeries <- MCPlotSeries
  MaxEntries = 3
  MaxVersion = 4
  MaxTilePolls = 3
  MaxTileEvents = 2
  SnmpConfigs <- MCSnmpConfigs
  DefaultTtl = 5
  MaxSnmpTime = 5
  VolumeCalls = {"c1","c2"}
  MaxVolumeStarts = 2
  SchemaOverrides <- MCOverrides
  Entries = {"a", "b"}
  ProxyRequests = {"q1", "q2"}
  MaxStorageSize = 1
  MaxProxyAsks = 2
  MaxCollects = 1
  MaxProxyRestarts = 1
  PlayerFiles = {"a","b"}
  MaxListings = 2
  MaxPlayerTypes = 2
  MaxPlayerClicks = 2
  Bdls <- MCBdls
INVARIANTS
  
  
  AuthenticationSafe
  AccountsSafe
  PaymentsSafe
  
  NodeClientsSafe
  ServerSafe
  
CHECK_DEADLOCK FALSE
