SPECIFICATION Spec
CONSTANTS
  Cores = {c0, c1}
  MainCore = c0
  Root = root
  Children = {a, b}
  Services = {}
  Parallel = TRUE
  MaySuspend = TRUE
  MaxYields = 1
  MaxAborts = 0
INVARIANTS
  QueueExact
