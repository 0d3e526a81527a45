\* Cancellation under fairness: the host installs its context between calls and
\* runs no finalizers on the idle main thread.
CONSTANTS
  Coroutines = {c1, c2}
  Main = main
  Nil = nil
  MaxCalls = 7
  NativeLimit = 2
  Reserve = 1
  HostCollects = FALSE
  CallbacksSetContext = FALSE
SPECIFICATION FairSpec
INVARIANT IdleRetainsNothing
PROPERTY CancellationStops
