\* A program that steps next and changes the table in between.
CONSTANTS
  a = a  r = r  w = w
  IntKeys <- TraversedInts
  Names = {a}
  Refs = {r}
  Values = {w}
  Nil = Nil
  NoKey = NoKey
  Off = Off
  End = End
  Invalid = Invalid
  Hash <- TraversedHash
  Programs <- TraversedPrograms
  Objects = {}
  Events = {}
  InitialArrayCapacity = 2
  MinimumStoreCapacity = 2
  MaximumTableArrayBits = 3
  SparseShiftMinimum = 2
  SparseScanRatio = 1
SPECIFICATION TraversalSpec
INVARIANT TraversalComplete
PROPERTY VisitsOnce
CHECK_DEADLOCK FALSE
