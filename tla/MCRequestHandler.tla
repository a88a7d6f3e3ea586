-------------------------- MODULE MCRequestHandler --------------------------
(* RequestHandler on a small instance, with the number of requests bounded. *)
EXTENDS RequestHandler, TLC

CONSTANTS
  MaxRequests,    \* requests in a behaviour
  MaxLate,        \* Redis commands still to be executed, at any time
  MayExpire       \* do keys expire?

\* Every worker serves every player, as when a client opens a new connection for
\* each request (web/app.py) or two clients use one id.
AnyPlayer == [t \in Threads |-> Players]

\* Workers that serve every player are interchangeable.
WorkerSymmetry == Permutations(Threads)

\* Each player is used by one client with one connection (simulator bots).
OwnPlayer ==
  CHOOSE f \in [Threads -> {{p} : p \in Players}] :
    \A t, u \in Threads : t # u => f[t] # f[u]

\* What the requests' integers become before they reach GameState.
ReachCoords == {Clamp(GetInt(v)) : v \in JsonInts}
ReachScores == {GetInt(v) : v \in JsonInts}

MCReceive(t) ==
  /\ metrics.requestsTotal < MaxRequests
  /\ \E r \in Request : Receive(t, r)

MCNext ==
  /\ \/ \E t \in Threads : Step(t) \/ MCReceive(t)
     \/ ExecuteLate
     \/ MayExpire /\ \E p \in Players : Expire(p)
  /\ Cardinality(late') <= MaxLate

MCSpec == RHInit /\ [][MCNext]_rhVars
=============================================================================
