\* Signals once the server runs: safety, refinement of the pool, shutdown.
SPECIFICATION FairServerSpec
CONSTANTS
  Workers = {w1, w2}
  Callers = {main}
  Main = main
  Conns = {c1, c2}
  NoThread = NoThread
  NoTask = NoTask
  MaxSignals = 2
  EarlySignals = FALSE
INVARIANTS CleanExit MetricsAlive
PROPERTIES GracefulShutdown
CHECK_DEADLOCK FALSE
