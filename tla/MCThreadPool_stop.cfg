\* Does stop() return?
SPECIFICATION FairPoolSpec
CONSTANTS
  Workers = {w1, w2}
  Callers = {c1}
  Conns = {k1}
  NoThread = NoThread
  NoTask = NoTask
PROPERTIES StopCompletes
CHECK_DEADLOCK FALSE
