\* Does stop() discard the queue?
SPECIFICATION PoolSpec
CONSTANTS
  Workers = {w1, w2}
  Callers = {c1}
  Conns = {k1}
  NoThread = NoThread
  NoTask = NoTask
PROPERTIES QueuedDiscarded
CHECK_DEADLOCK FALSE
