\* A host that calls State.Collect while a context is installed.
CONSTANTS
  Coroutines = {}
  Main = main
  Nil = nil
  MaxCalls = 3
  NativeLimit = 2
  Reserve = 1
  HostCollects = TRUE
  CallbacksSetContext = FALSE
SPECIFICATION Spec
INVARIANT IdleRetainsNothing
