\* Three workers, two threads that submit two connections, and stop().
SPECIFICATION FairPoolSpec
CONSTANTS
  Workers = {w1, w2, w3}
  Callers = {c1, c2}
  Conns = {k1, k2}
  NoThread = NoThread
  NoTask = NoTask
INVARIANTS OneOwner WorkConserving ActiveTasksCount ExitedDrained StopLeavesNone AtMostOneAsleep
PROPERTIES TaskServed JoinReturns
CHECK_DEADLOCK FALSE
