\* Records only.
CONSTANTS
  a = a  b = b  c = c  r = r  q = q  u = u  w = w
  IntKeys = {}
  Names = {a, b, c}
  Refs = {r, q}
  Values = {w}
  Nil = Nil
  NoKey = NoKey
  Hash <- RecordHash
  Programs <- RecordPrograms
  Objects = {}
  Events = {a}
  InitialArrayCapacity = 4
  MinimumStoreCapacity = 4
  MaximumTableArrayBits = 3
  SparseShiftMinimum = 2
  SparseScanRatio = 1
SPECIFICATION Spec
INVARIANTS TypeOK NoPanic ReadsAgree ChainsSound AbsenceSound DeadKeysReleased
CHECK_DEADLOCK FALSE
