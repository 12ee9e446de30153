SPECIFICATION FairSpec
CONSTANT Asyncs = {a1, a2, a3, a4}
INVARIANTS
  ResumeSafe
PROPERTIES
  CallerReturns
