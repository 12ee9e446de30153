SPECIFICATION IoSpec
CONSTANTS
  Capacity = 2
  Readers = {s1, s2}
  s1 = s1
  s2 = s2
  Source = src
  CoreOf <- SinksApart
  LockValue = 4
  Requests <- SinkRequests
  MaxWrites = 3
INVARIANTS
  SinksSafe
PROPERTIES
  NotifyWakesAll
  
