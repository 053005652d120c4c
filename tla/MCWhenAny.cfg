SPECIFICATION FairSpec
CONSTANTS
  Waiters = {w1, w2}
  Jobs = {j1, j2}
  MaxFutures = 2
  MaxWatches = 4
  Nobody = nobody
INVARIANTS ListenersAreLive AsleepIsRegistered AnswerIsDone
PROPERTY WhenAnyReturns
