SPECIFICATION Spec
CONSTANTS
  Assemblers <- TheAssemblers
  Committed <- TheCommitted
  MaxPatches = 2
  Platform = linux
  Platforms = {windows, linux}
  Builds = {b1, b2}
  Trees = {draft, final}
  Releasable = {final}
  Revisions = {r1}
  None = none
  MaxChanges = 4
  Builders = {n1, n2}
  Inputs <- TheInputs
  Versions = {v0, v1}
  Objects = {main, support}
  Absent = absent
  Lost = lost
  MaxBuilds = 2
  MaxEvents = 2
  Compilations = {"p", "q"}
  OptionOf <- TheOptions
  Gated = TRUE
  Generated <- GeneratedVisitor
  Declarations <- ViewDigest
  MaxDepth = 6
  MaxEdits = 2
  MaxStarts = 3
INVARIANTS CheckedEmitsTheSame SidecarVouches ReleaseIsCoherent
INVARIANTS DeliveredIsClean OutputIsClean DeclarationsAreFresh ViewIsExact
PROPERTIES LegacyKept
SYMMETRY Symmetry
CHECK_DEADLOCK FALSE
