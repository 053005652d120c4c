SPECIFICATION Spec
CONSTANTS
  Threads = {t1, t2, t3}
  Void = void
  False = false
  Values = {void, false}
  Capacity = 1
  NoThread = none
PROPERTIES NothingMeansDrained
SYMMETRY ThreadSymmetry
\* Every caller may be waiting for a message, or for room, that never comes.
CHECK_DEADLOCK FALSE
