SPECIFICATION FairSpec
CONSTANTS
  Capacity = 3
  Readers = {r1}
  LockValue = 4
  Requests <- AllRequests
  MaxWrites = 8
INVARIANTS
  RangesExact
  ResultStable
PROPERTIES
  CallsReturn
