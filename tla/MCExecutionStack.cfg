\* Two coroutines, nested callbacks, handlers and guards, finalizers run by the
\* host, and callbacks that change the context.
CONSTANTS
  Coroutines = {c1, c2}
  Main = main
  Nil = nil
  MaxCalls = 8
  NativeLimit = 3
  Reserve = 1
  HostCollects = TRUE
  CallbacksSetContext = TRUE
SPECIFICATION Spec
SYMMETRY Symmetry
INVARIANTS TypeOK ActiveChain DepthsBalanced LimitsFollowHandler SuspendedRetainsNothing
PROPERTY ExitReachesHost
