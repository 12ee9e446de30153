SPECIFICATION Spec
CONSTANTS
  Subjects = {"backend", "sockets", "cache2", "cache", "tasks"}
  Uids <- MCUids
  MaxStarts = 1
  ByRest = {"timer"}
  Requests = {r1}
  Sockets = {s1, s2}
  Responsive = {s1}
  Collections <- MCCollections
  Places <- MCPlaces
  Getters = {g1, g2}
  SizeOf <- MCSizeOf
  ErrorSize = 2
  CacheMaxSize = 1
  CacheTimeout = 0
  MaxCacheTime = 2
  MaxOrigin <- MCOrigin
  Ids = {"a"}
  Objects = {"o1", "o2"}
  Callers = {c1, c2}
  InstantCallers = {c2}
  Deleters = {d1}
  DataSize <- MCDataSize
  Ttl = 1
  ErrorTtl = 1
  GetTimeout = 1
  MaxNow = 2
  MaxVersion = 2
  Tasks = {"a", "b", "c"}
  TaskPriority <- MCPriority
  TaskDelay <- MCDelay
  TaskInterval <- MCInterval
  TaskIterations <- MCIterations
  MaxRegistrations = 4
  MaxTaskTime = 3
INVARIANTS
  BackendSafe
  CachesSafe
  TasksSafe
PROPERTIES
  RuntimeProgress
CHECK_DEADLOCK FALSE
