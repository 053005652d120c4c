SPECIFICATION Spec
CONSTANTS
  Callers = {c1, c2, c3}
  MaxTimeout = 0
  WaitsFail = FALSE
PROPERTIES JoinAwaitsPublication
SYMMETRY CallerSymmetry
