\* Two threads and room for one connection in the pool.
SPECIFICATION MCRCSpec
CONSTANTS
  Threads = {t1, t2}
  Conns = {c1, c2, c3}
  PoolSize = 1
  Commands = {"SET", "GET", "DEL", "HGETALL"}
  NoConn = NoConn
  MaxBacklog = 3
SYMMETRY RCSymmetry
INVARIANTS OneHolder PoolClean OwnReply
CHECK_DEADLOCK FALSE
