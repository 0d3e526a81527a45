\* Cancellation under fairness when a callback installs the context.
CONSTANTS
  Coroutines = {c1}
  Main = main
  Nil = nil
  MaxCalls = 4
  NativeLimit = 2
  Reserve = 1
  HostCollects = FALSE
  CallbacksSetContext = TRUE
SPECIFICATION FairSpec
PROPERTY CancellationStops
