-------------------------- MODULE ConnectionManager --------------------------
(***************************************************************************)
(* Workers in Server::handleClient (Server.cpp) and the registry of        *)
(* connections they share: class ConnectionManager (ConnectionManager.cpp).*)
(*                                                                         *)
(* registerConnection takes its id from an atomic counter, enters the      *)
(* connection under m_mutex and counts it in a second atomic counter: three*)
(* actions.  Every other operation is one critical section.  The kernel    *)
(* hands out descriptors, and hands one out again once it is closed, which *)
(* handleClient does before it unregisters the connection.                 *)
(*                                                                         *)
(* A definition named X_slip, just before X, is a plausible slip in the    *)
(* code X models; no specification uses it.                                *)
(***************************************************************************)
EXTENDS Integers, FiniteSets

CONSTANTS
  Workers,        \* the threads that run handleClient
  Fds,            \* file descriptors
  NoFd

ASSUME HandlersAssumption == IsFiniteSet(Workers)

ASSUME FdsAssumption == NoFd \notin Fds

VARIABLES
  m_nextId,
  m_connections,        \* id -> ConnectionInfo
  m_totalConnections,
  at,                   \* where each worker is in handleClient
  connId,               \* connId[w], clientFd[w], msgCount[w]: its variables
  clientFd,
  msgCount,
  openFds,              \* the kernel's open sockets
  abandoned             \* history: ids whose handler ended in an exception

cmVars == <<m_nextId, m_connections, m_totalConnections, at, connId, clientFd,
            msgCount, openFds, abandoned>>

(***************************************************************************)
(* idle        in the pool, not in handleClient                            *)
(* register    about to call registerConnection                            *)
(* emplace     has taken an id                                             *)
(* count       has entered the connection, not counted it yet              *)
(* read        reading a request                                           *)
(* reply       has counted a request, must answer it                       *)
(* close       has left the loop                                           *)
(* unregister  has closed the socket                                       *)
(***************************************************************************)
HandlerPc == {"idle", "register", "emplace", "count", "read", "reply", "close", "unregister"}

ConnectionInfo == [fd : Fds, messagesReceived : Nat, messagesSent : Nat]

Ids == DOMAIN m_connections
Registered == {w \in Workers : at[w] \in {"count", "read", "reply", "close", "unregister"}}
Uncounted == {w \in Workers : at[w] \in {"emplace", "count"}}
Holding == {w \in Workers : at[w] \notin {"idle", "unregister"}}

Moves(w, from, to) == at[w] = from /\ at' = [at EXCEPT ![w] = to]

-----------------------------------------------------------------------------
\* The pool hands worker w a socket that accept has opened.
StartClient(w, f) ==
  /\ Moves(w, "idle", "register")
  /\ f \notin openFds
  /\ openFds' = openFds \cup {f}
  /\ clientFd' = [clientFd EXCEPT ![w] = f]
  /\ msgCount' = [msgCount EXCEPT ![w] = 0]
  /\ UNCHANGED <<m_nextId, m_connections, m_totalConnections, connId, abandoned>>

TakeId(w) ==
  /\ Moves(w, "register", "emplace")
  /\ m_nextId' = m_nextId + 1
  /\ connId' = [connId EXCEPT ![w] = m_nextId]
  /\ UNCHANGED <<m_connections, m_totalConnections, clientFd, msgCount, openFds, abandoned>>

\* emplace keeps an entry that is already there.
Emplace(w) ==
  /\ Moves(w, "emplace", "count")
  /\ LET info == [fd |-> clientFd[w], messagesReceived |-> 0, messagesSent |-> 0]
     IN  m_connections' = [i \in Ids \cup {connId[w]} |->
                              IF i \in Ids THEN m_connections[i] ELSE info]
  /\ UNCHANGED <<m_nextId, m_totalConnections, connId, clientFd, msgCount, openFds, abandoned>>

CountTotal(w) ==
  /\ Moves(w, "count", "read")
  /\ m_totalConnections' = m_totalConnections + 1
  /\ UNCHANGED <<m_nextId, m_connections, connId, clientFd, msgCount, openFds, abandoned>>

\* The client is gone, or announces a message that is too long.
ReadFails(w) ==
  /\ Moves(w, "read", "close")
  /\ UNCHANGED <<m_nextId, m_connections, m_totalConnections, connId, clientFd,
                 msgCount, openFds, abandoned>>

\* A whole frame has arrived; recordMessageReceived.
ReadRequest(w) ==
  /\ Moves(w, "read", "reply")
  /\ msgCount' = [msgCount EXCEPT ![w] = @ + 1]
  /\ m_connections' =
       IF connId[w] \in Ids
       THEN [m_connections EXCEPT ![connId[w]].messagesReceived = @ + 1]
       ELSE m_connections
  /\ UNCHANGED <<m_nextId, m_totalConnections, connId, clientFd, openFds, abandoned>>

\* dispatch, and writeAll fails.
SendFails(w) ==
  /\ Moves(w, "reply", "close")
  /\ UNCHANGED <<m_nextId, m_connections, m_totalConnections, connId, clientFd,
                 msgCount, openFds, abandoned>>

\* dispatch, writeAll and recordMessageSent.
SendReply(w) ==
  /\ Moves(w, "reply", "read")
  /\ m_connections' =
       IF connId[w] \in Ids
       THEN [m_connections EXCEPT ![connId[w]].messagesSent = @ + 1]
       ELSE m_connections
  /\ UNCHANGED <<m_nextId, m_totalConnections, connId, clientFd, msgCount, openFds, abandoned>>

Throw_closed(w) ==
  /\ at[w] \in {"read", "reply"}
  /\ at' = [at EXCEPT ![w] = "idle"]
  /\ abandoned' = abandoned \cup {connId[w]}
  /\ openFds' = openFds \ {clientFd[w]}
  /\ UNCHANGED <<m_nextId, m_connections, m_totalConnections, connId, clientFd, msgCount>>

\* An exception (no memory for a payload or an answer) leaves handleClient: the
\* socket stays open and the connection registered, for good.
Throw(w) ==
  /\ at[w] \in {"read", "reply"}
  /\ at' = [at EXCEPT ![w] = "idle"]
  /\ abandoned' = abandoned \cup {connId[w]}
  /\ UNCHANGED <<m_nextId, m_connections, m_totalConnections, connId, clientFd,
                 msgCount, openFds>>

Close(w) ==
  /\ Moves(w, "close", "unregister")
  /\ openFds' = openFds \ {clientFd[w]}
  /\ UNCHANGED <<m_nextId, m_connections, m_totalConnections, connId, clientFd,
                 msgCount, abandoned>>

Unregister_byFd(w) ==
  /\ Moves(w, "unregister", "idle")
  /\ m_connections' =
       [i \in {j \in Ids : m_connections[j].fd # clientFd[w]} |-> m_connections[i]]
  /\ UNCHANGED <<m_nextId, m_totalConnections, connId, clientFd, msgCount, openFds, abandoned>>

Unregister(w) ==
  /\ Moves(w, "unregister", "idle")
  /\ m_connections' = [i \in Ids \ {connId[w]} |-> m_connections[i]]
  /\ UNCHANGED <<m_nextId, m_totalConnections, connId, clientFd, msgCount, openFds, abandoned>>

-----------------------------------------------------------------------------
CMInit ==
  /\ m_nextId = 1
  /\ m_connections = [i \in {} |-> NoFd]
  /\ m_totalConnections = 0
  /\ at = [w \in Workers |-> "idle"]
  /\ connId = [w \in Workers |-> 0]
  /\ clientFd = [w \in Workers |-> NoFd]
  /\ msgCount = [w \in Workers |-> 0]
  /\ openFds = {}
  /\ abandoned = {}

HandlerStep(w) ==
  \/ TakeId(w)
  \/ Emplace(w)
  \/ CountTotal(w)
  \/ ReadFails(w)
  \/ SendFails(w)
  \/ SendReply(w)
  \/ Throw(w)
  \/ Close(w)
  \/ Unregister(w)

CMNext ==
  \E w \in Workers :
    \/ HandlerStep(w)
    \/ ReadRequest(w)
    \/ \E f \in Fds : StartClient(w, f)

CMSpec == CMInit /\ [][CMNext]_cmVars

-----------------------------------------------------------------------------
(* Properties *)

\* Ids are the ones registerConnection has handed out.
CMTypeOK ==
  /\ m_nextId \in Nat \ {0}
  /\ Ids \subseteq 1..(m_nextId - 1)
  /\ m_connections \in [Ids -> ConnectionInfo]
  /\ m_totalConnections \in Nat
  /\ at \in [Workers -> HandlerPc]
  /\ connId \in [Workers -> 0..(m_nextId - 1)]
  /\ clientFd \in [Workers -> Fds \cup {NoFd}]
  /\ msgCount \in [Workers -> Nat]
  /\ openFds \subseteq Fds
  /\ abandoned \subseteq Nat

\* The registry holds exactly the connections that are being served, each under
\* an id and a descriptor of its own handler, and those whose handler ended in an
\* exception: no handler removes or overwrites another's entry, although they
\* take ids outside the lock and reuse descriptors.
RegistryExact ==
  /\ Ids = {connId[w] : w \in Registered} \cup abandoned
  /\ \A w \in Registered :
       /\ connId[w] \notin abandoned
       /\ m_connections[connId[w]].fd = clientFd[w]
       /\ \A v \in Registered : connId[v] = connId[w] => v = w

\* An entry's counters are the handler's own count of requests, and every request
\* but the one in progress was answered (recordMessageReceived and
\* recordMessageSent look the connection up again each time).
MessagesCounted ==
  \A w \in Registered :
    LET c == m_connections[connId[w]]
    IN  /\ c.messagesReceived = msgCount[w]
        /\ at[w] \in {"count", "read"} => c.messagesSent = msgCount[w]
        /\ at[w] = "reply" => c.messagesSent = msgCount[w] - 1
        /\ c.messagesSent \in {msgCount[w] - 1, msgCount[w]}

\* handleClient closes the socket before it unregisters the connection, so a new
\* connection can be registered under the same descriptor.  Only then do two
\* entries share one: one of them is about to be removed.
FdOwner ==
  \A i, j \in Ids :
    i # j /\ m_connections[i].fd = m_connections[j].fd =>
      \E w \in Workers : at[w] = "unregister" /\ connId[w] \in {i, j}

\* "Total connections ever registered (including closed)": every id handed out is
\* counted once its handler is past registerConnection, whatever became of it.
TotalsAgree == m_totalConnections + Cardinality(Uncounted) = m_nextId - 1
=============================================================================
