CONSTANTS
  Sets = {s1, s2}
  Names = {n1, n2, n3}
  Requests = {r1, r2, r3}
  Labels = {inventory, findings}
  Keys = {k1}
  MaxSets = 1
  MaxKeys = 1
  MaxFiles = 2
  Chunks = 2
  None = None
SYMMETRY UploadSymmetry
SPECIFICATION Spec
INVARIANTS
  WholeFileOrNone
  SetIsOneSource
CHECK_DEADLOCK FALSE
