SPECIFICATION FairSpec
CONSTANTS
  Waiters = {w1}
  MaxNotify = 3
INVARIANTS
  OneWinner
  NothingLeftBehind
  CountCoversReady

  
