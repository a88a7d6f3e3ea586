\* Three workers and more connections than descriptors, so that these are reused.
SPECIFICATION MCCMSpec
CONSTANTS
  Workers = {w1, w2, w3}
  Fds = {f1, f2, f3}
  NoFd = NoFd
  MaxConnections = 4
  MaxMessages = 2
SYMMETRY CMSymmetry
INVARIANTS RegistryExact FdOwner
CHECK_DEADLOCK FALSE
