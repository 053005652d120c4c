SPECIFICATION FairSpec
CONSTANTS
  Callers = {c1, c2}
  MaxTimeout = 1
  WaitsFail = TRUE
INVARIANTS HandleIsSound ObjectOutlivesWorker StopIsHonoured JoinMeansDone
PROPERTY BlockingCallsReturn
