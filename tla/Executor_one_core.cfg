SPECIFICATION FairSpec
CONSTANTS
  Cores = {c0}
  MainCore = c0
  Root = root
  Children = {a, b}
  Services = {s, t}
  Parallel = FALSE
  MaySuspend = TRUE
  MaxYields = 1
  MaxAborts = 1
INVARIANTS
  QueueExact
PROPERTIES
  RunEnds
