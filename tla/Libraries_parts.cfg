INIT InitLibraries
NEXT NextLibraries
CONSTANTS
  MaxTimestamp = 3
  MaxEntriesPerFile = 2
  MaxInserts = 3
  MaxLists = 1
  MaxSeriesCrashes = 1
  StoreKinds = {"memory", "elasticsearch", "mongodb"}
  StoreKeys = {1, 2}
  Updaters = {"u1", "u2"}
  MaxUpdates = 1
  MaxConflicts = 1
  MaxStoreWrites = 2
  PageSize = 1
  MaxDumps = 1
  StorageKinds = {"memory","disk","drive"}
  DavClients = {"c1","c2"}
  Contents = {"x"}
  MaxRequests = 2
  DavFileSize = 2
  MaxRetries = 3
  Names = {"x","y"}
  Depth = 2
  GivenPaths <- MCGivenPaths
  Blocks = {"b"}
  MaxFsCalls = 4
  ListKinds = {"disk","tags","layers","bucket","webdav","webdav root"}
  ListNames = {1,2,3}
  ListPage = 1
  MaxListChanges = 2
  TokenLifetime = 3
  MaxListTime = 4
  StorageFaults = {"none","mkdir","write","overwrite","list"}
  HttpCalls = {"c1"}
  CallKinds <- MCCallKinds
  MAX_REDIRECTION = 1
  FormFiles = {"f1", "f2"}
  Lists <- MCLists
  OtherLists <- MCOtherLists
  Inputs <- MCInputs
  JsonSchemas <- MCSchemas
  JsonValues <- MCValues
  UnitInputs <- MCUnits
  DumpInputs <- MCDumps
  EqualInputs <- MCEquals
  FieldValues = {"", "bad", "good", "fine"}
  Texts <- MCTexts
  DropItems <- MCDropItems
  MaxTyped = 3
  MaxSourceChanges = 1
  MaxSelects = 1
  MaxListFails = 1
  ListWords <- MCListWords
  UploadFiles = {"f1","f2","f3","f4"}
  MaxFiles = 2
  MaxTouches = 2
  Cells = {1,2,3}
  TableSize = 3
  Documents = {"a","b","c"}
  HistoryMax = 2
  SlideValues <- MCSlides
  FirstDays <- MCFirstDays
  MaxWidgetSteps = 4
  Items = {"a", "b", "c"}
  FirstItems <- MCFirstItems
  TipElements = {"e1","e2"}
  MaxTipMoves = 3
  NoteKeys = {"k1","k2"}
  MaxNotes = 4
  ElementSizes = {0,1,2}
  MaxResizes = 3
  ParentHeight = 12
  Dispatches = {"d1", "d2"}
  Tables <- MCTables
  RoutePaths = {"/a", "/u", "/r", "/b", "/x"}
  MaxMounts = 2
  ExplorerPaths <- MCTreePaths
  TreeFiles <- MCTreeFiles
  LockedPaths <- MCLockedPaths
  BeginsWith <- MCBeginsWith
  ShowPaths <- MCShowPaths
  MaxTreeChanges = 1
  MaxTreeClicks = 1
  MaxShows = 1
  Outputs <- MCOutputs
  MaxOutputSize = 6
  ScreenWidth = 2
INVARIANTS
  
  
  HttpSafe
  ValuesCorrect
  
  InteractionsSafe
  
CHECK_DEADLOCK FALSE
