\* Weak tables, finalizers and resurrection on one table, one userdata and
\* the main thread, with nested explicit collections.
CONSTANTS
  Tables = {t1}
  Functions = {}
  Threads = {main}
  UserData = {u1}
  Main = main
  Index = index
  Text = text
  Nil = nil
  MaxEntries = 1
  HeapLimited = FALSE
  MaxCycles = 2
SPECIFICATION Spec
ACTION_CONSTRAINTS ExplicitOnly NoHost
INVARIANT NoDangling
PROPERTY ImplementsReachability
CHECK_DEADLOCK FALSE
