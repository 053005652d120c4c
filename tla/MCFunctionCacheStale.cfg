SPECIFICATION FunctionSpec
CONSTANTS
  Compilations = {"p", "q"}
  OptionOf <- TheOptions
  Gated = FALSE
  Generated <- GeneratedVisitor
  Declarations <- ViewDigest
  MaxDepth = 6
  MaxEdits = 2
  MaxStarts = 2
INVARIANT OutputIsClean
CHECK_DEADLOCK FALSE
