\* Host tokens that Go retires at any step of a cycle, on a closure and a
\* userdata; and Close, under fairness, with up to three userdata whose handlers
\* fail, create more and collect.
CONSTANTS
  Tables = {}
  Functions = {f1}
  Threads = {main}
  UserData = {u1, u2, u3}
  Main = main
  Index = index
  Text = text
  Nil = nil
  MaxEntries = 1
  HeapLimited = FALSE
  MaxCycles = 2
SPECIFICATION FairSpec
ACTION_CONSTRAINTS InTurn HostOrClose
PROPERTIES ImplementsReachability CloseCompletes
CHECK_DEADLOCK FALSE
