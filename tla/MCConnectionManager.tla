------------------------- MODULE MCConnectionManager -------------------------
(* ConnectionManager with the numbers of connections and of requests bounded. *)
EXTENDS ConnectionManager, TLC

CONSTANTS
  MaxConnections,   \* connections in a behaviour
  MaxMessages       \* requests on a connection

MCStartClient(w, f) ==
  /\ m_nextId + Cardinality({v \in Workers : at[v] = "register"}) <= MaxConnections
  /\ StartClient(w, f)

MCReadRequest(w) == msgCount[w] < MaxMessages /\ ReadRequest(w)

MCCMNext ==
  \E w \in Workers :
    \/ HandlerStep(w)
    \/ MCReadRequest(w)
    \/ \E f \in Fds : MCStartClient(w, f)

\* Workers and descriptors are interchangeable.
CMSymmetry == Permutations(Workers) \cup Permutations(Fds)

MCCMSpec == CMInit /\ [][MCCMNext]_cmVars
=============================================================================
