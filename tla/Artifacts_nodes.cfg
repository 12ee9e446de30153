SPECIFICATION Spec
CONSTANTS
  Subjects = {"records", "replication", "lock"}
  PayloadSizes <- FullFiles
  RecordMaxSize = 2
  RecordsMaxSize = 2
  CompressedSize = 1
  MaxRecordWrites = 2
  MaxRecordCrashes = 1
  RecordStorages <- OneStorage
  Ranks = {1}
  Exporters = {"timer", "stop"}
  ReadMaxSize = 2
  MaxProduced = 3
  MaxLosses = 2
  Hosts = {"h1", "h2"}
  Expiry = 1
  MaxLockTime = 4
  MaxIncidents = 1
INVARIANTS
  FollowersComplete
PROPERTIES
  AllCatchUp
CHECK_DEADLOCK FALSE
