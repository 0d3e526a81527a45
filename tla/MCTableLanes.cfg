\* Both parts, and bulk writes.
CONSTANTS
  a = a  b = b  c = c  r = r  q = q  u = u  w = w
  IntKeys <- BothInts
  Names = {a}
  Refs = {}
  Values = {u, w}
  Nil = Nil
  NoKey = NoKey
  Hash <- BothHash
  Programs <- BothPrograms
  Objects = {u}
  Events = {}
  InitialArrayCapacity = 3
  MinimumStoreCapacity = 2
  MaximumTableArrayBits = 3
  SparseShiftMinimum = 2
  SparseScanRatio = 1
SPECIFICATION Spec
INVARIANTS OneLane NoPanic ReadsAgree CountsExact DensityExact BorderSound
CHECK_DEADLOCK FALSE
