---------------------------- MODULE MCRedisClient ----------------------------
(* RedisClient with the backlog of a dirty connection bounded. *)
EXTENDS RedisClient, TLC

CONSTANT MaxBacklog   \* stale parts a connection that is put to use may have

Backlog(c) == Len(inbox[c]) + Len(coming[c])

\* One thread at a time calls hgetall, and on a connection that is clean.
MCacquire(t, x) ==
  /\ acquire(t, x)
  /\ Backlog(conn'[t]) <= MaxBacklog
  /\ x = "HGETALL" => conn'[t] \notin dirty /\ \A u \in Threads : cmd[u] # x

MCRCNext ==
  \/ \E t \in Threads : ThreadStep(t) \/ \E x \in Commands : MCacquire(t, x)
  \/ \E c \in Conns : Deliver(c)

MCRCSpec == RCInit /\ [][MCRCNext]_rcVars

RCSymmetry == Permutations(Threads) \cup Permutations(Conns)
=============================================================================
