SPECIFICATION FairSpec
CONSTANTS
  Threads = {t1, t2}
  Void = void
  False = false
  Values = {void, false}
  Capacity = 2
  NoThread = none
INVARIANT SignalsAgree
PROPERTIES ImplementsFifo CloseReleasesAll NoLostWakeUp
\* Every caller may be waiting for a message, or for room, that never comes.
CHECK_DEADLOCK FALSE
