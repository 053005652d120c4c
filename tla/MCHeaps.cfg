SPECIFICATION HeapsSpec
CONSTANTS
  Cells = {c1, c2}
  Nil = Nil
  Slots = {s1}
  Mutators = {m1, m2}
  Regs = {r1, r2}
  MaxContexts = 1
  SatbCapacity = 1
  TlabCells = 1
  Threads = {t1}
  Nobody = Nobody
  Objects = {1}
  Blocks = {2}
  BatchSize = 3
  MinSplit = 1
  ReserveEnd = 8
INVARIANTS NothingLost SnapshotExact BlocksHaveOneOwner RegistrySound
PROPERTY ImplementsRanges
SYMMETRY Symmetry
