\* The finalizer queue and the servicing flag: three userdata, automatic and
\* nested explicit collections, failing handlers, stop and restart, Close.
CONSTANTS
  Tables = {}
  Functions = {}
  Threads = {main}
  UserData = {u1, u2, u3}
  Main = main
  Index = index
  Text = text
  Nil = nil
  MaxEntries = 1
  HeapLimited = TRUE
  MaxCycles = 2
SPECIFICATION Spec
ACTION_CONSTRAINTS NoHost NoReferences
SYMMETRY Symmetry
INVARIANTS TypeOK EveryFinalizerOnce PendingOrder ServicingTracksLoops
CHECK_DEADLOCK FALSE
