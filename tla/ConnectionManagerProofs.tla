----------------------- MODULE ConnectionManagerProofs -----------------------
(***************************************************************************)
(* Proofs about ConnectionManager for any number of workers, descriptors,  *)
(* connections and messages.                                               *)
(*                                                                         *)
(* RegistryExact is inductive once the ids that are taken but not entered  *)
(* yet are known to be fresh (IdOwner).  FdOwner is not: it follows from   *)
(* FdHeld, which says who owns the open sockets.                           *)
(***************************************************************************)
EXTENDS ConnectionManager, FiniteSetTheorems, TLAPS

Numbered == {w \in Workers : at[w] \notin {"idle", "register"}}

\* Every id in use belongs to one handler, or was abandoned by one.
IdOwner ==
  /\ abandoned \subseteq Ids
  /\ \A w \in Numbered :
       /\ connId[w] \in 1..(m_nextId - 1)
       /\ connId[w] \notin abandoned
       /\ \A v \in Numbered : connId[v] = connId[w] => v = w

\* A handler that has not closed its socket, and an abandoned connection, are the
\* only owners of an open descriptor.
FdHeld ==
  /\ \A w \in Workers : at[w] # "idle" => clientFd[w] \in Fds
  /\ \A w \in Holding :
       /\ clientFd[w] \in openFds
       /\ \A v \in Holding : clientFd[v] = clientFd[w] => v = w
       /\ \A i \in abandoned : m_connections[i].fd # clientFd[w]
  /\ \A i \in abandoned :
       /\ m_connections[i].fd \in openFds
       /\ \A j \in abandoned : m_connections[i].fd = m_connections[j].fd => i = j

\* A handler that is still registering has read nothing.
Unread == \A w \in Workers : at[w] \in {"register", "emplace"} => msgCount[w] = 0

CMInv == CMTypeOK /\ IdOwner /\ RegistryExact /\ FdHeld /\ Unread /\ MessagesCounted

LEMMA CMCases ==
  ASSUME [CMNext]_cmVars
  PROVE  \/ \E w \in Workers, f \in Fds : StartClient(w, f)
         \/ \E w \in Workers : TakeId(w)
         \/ \E w \in Workers : Emplace(w)
         \/ \E w \in Workers : CountTotal(w)
         \/ \E w \in Workers : ReadFails(w)
         \/ \E w \in Workers : ReadRequest(w)
         \/ \E w \in Workers : SendFails(w)
         \/ \E w \in Workers : SendReply(w)
         \/ \E w \in Workers : Throw(w)
         \/ \E w \in Workers : Close(w)
         \/ \E w \in Workers : Unregister(w)
         \/ UNCHANGED cmVars
  BY DEF CMNext, HandlerStep

LEMMA CMStep ==
  ASSUME CMInv, [CMNext]_cmVars
  PROVE  CMInv'
<1> USE DEF CMInv, CMTypeOK, IdOwner, RegistryExact, FdHeld, Unread,
            MessagesCounted, Numbered, Registered, Holding, Ids, ConnectionInfo, HandlerPc, Moves
<1>1. ASSUME NEW w \in Workers, NEW f \in Fds, StartClient(w, f) PROVE CMInv'
  BY <1>1 DEF StartClient
<1>2. ASSUME NEW w \in Workers, TakeId(w) PROVE CMInv'
  BY <1>2 DEF TakeId
<1>3. ASSUME NEW w \in Workers, Emplace(w) PROVE CMInv'
  <2> DEFINE info == [fd |-> clientFd[w], messagesReceived |-> 0, messagesSent |-> 0]
  <2>1. connId[w] \notin Ids
    BY <1>3 DEF Emplace
  <2>2. /\ m_connections' = [i \in Ids \cup {connId[w]} |->
                               IF i \in Ids THEN m_connections[i] ELSE info]
        /\ at' = [at EXCEPT ![w] = "count"] /\ at[w] = "emplace"
        /\ UNCHANGED <<m_nextId, m_totalConnections, connId, clientFd, msgCount,
                       openFds, abandoned>>
    BY <1>3, Zenon DEF Emplace, Moves
  <2>3. info \in ConnectionInfo
    BY <2>2
  <2>4. /\ Ids' = Ids \cup {connId[w]}
        /\ m_connections'[connId[w]] = info
        /\ \A i \in Ids : m_connections'[i] = m_connections[i]
        /\ m_connections' \in [Ids' -> ConnectionInfo]
    BY <2>1, <2>2, <2>3
  <2> HIDE DEF info
  <2>5. info.fd = clientFd[w] /\ info.messagesReceived = 0 /\ info.messagesSent = 0
    BY DEF info
  <2>6. msgCount[w] = 0
    BY <2>2
  <2>7. Registered' = Registered \cup {w} /\ Numbered' = Numbered /\ Holding' = Holding
    BY <2>2
  <2>8. CMTypeOK' /\ IdOwner'
    BY <2>2, <2>4
  <2>9. RegistryExact'
    BY <2>1, <2>2, <2>4, <2>5, <2>7
  <2>10. FdHeld'
    BY <2>1, <2>2, <2>4, <2>5, <2>7
  <2>11. Unread' /\ MessagesCounted'
    BY <2>1, <2>2, <2>4, <2>5, <2>6, <2>7
  <2> QED BY <2>8, <2>9, <2>10, <2>11
<1>4. ASSUME NEW w \in Workers, CountTotal(w) PROVE CMInv'
  BY <1>4 DEF CountTotal
<1>5. ASSUME NEW w \in Workers, ReadFails(w) PROVE CMInv'
  BY <1>5 DEF ReadFails
<1>6. ASSUME NEW w \in Workers, ReadRequest(w) PROVE CMInv'
  BY <1>6 DEF ReadRequest
<1>7. ASSUME NEW w \in Workers, SendFails(w) PROVE CMInv'
  BY <1>7 DEF SendFails
<1>8. ASSUME NEW w \in Workers, SendReply(w) PROVE CMInv'
  BY <1>8 DEF SendReply
<1>9. ASSUME NEW w \in Workers, Throw(w) PROVE CMInv'
  BY <1>9 DEF Throw
<1>10. ASSUME NEW w \in Workers, Close(w) PROVE CMInv'
  BY <1>10 DEF Close
<1>11. ASSUME NEW w \in Workers, Unregister(w) PROVE CMInv'
  BY <1>11 DEF Unregister
<1>12. CASE UNCHANGED cmVars
  BY <1>12 DEF cmVars
<1> QED BY <1>1, <1>2, <1>3, <1>4, <1>5, <1>6, <1>7, <1>8, <1>9, <1>10, <1>11,
           <1>12, CMCases

\* The inductive invariant behind the theorems below: types, ids, descriptors and
\* message counters of handlers that interleave anywhere.
THEOREM CMInvCorrect == CMSpec => []CMInv
<1>1. CMInit => CMInv
  BY DEF CMInit, CMInv, CMTypeOK, IdOwner, RegistryExact, FdHeld, Unread,
         MessagesCounted, Numbered, Registered, Holding, Ids, ConnectionInfo, HandlerPc
<1>2. CMInv /\ [CMNext]_cmVars => CMInv'
  BY CMStep
<1> QED BY <1>1, <1>2, PTL DEF CMSpec

\* Types: in particular an entry of the registry always has the descriptor and the
\* counters its handler gave it.
THEOREM CMTypeCorrect == CMSpec => []CMTypeOK
<1>1. CMInv => CMTypeOK
  BY DEF CMInv
<1> QED BY <1>1, CMInvCorrect, PTL

\* The registry holds the connections being served and the abandoned ones, for
\* any number of handlers that register, serve and unregister concurrently.
THEOREM RegistryCorrect == CMSpec => []RegistryExact
<1>1. CMInv => RegistryExact
  BY DEF CMInv
<1> QED BY <1>1, CMInvCorrect, PTL

\* The counters of an entry are those of the handler that serves it.
THEOREM MessagesCorrect == CMSpec => []MessagesCounted
<1>1. CMInv => MessagesCounted
  BY DEF CMInv
<1> QED BY <1>1, CMInvCorrect, PTL

\* Two entries with one descriptor: one of them is about to go.
THEOREM FdCorrect == CMSpec => []FdOwner
<1>1. CMInv => FdOwner
  <2> SUFFICES ASSUME CMInv, NEW i \in Ids, NEW j \in Ids, i # j,
                      m_connections[i].fd = m_connections[j].fd,
                      ~ \E w \in Workers : at[w] = "unregister" /\ connId[w] \in {i, j}
               PROVE FALSE
    BY DEF FdOwner
  <2> USE DEF CMInv, RegistryExact, FdHeld, Registered, Holding
  <2>1. \A k \in {i, j} : k \in abandoned \/ \E w \in Registered :
           connId[w] = k /\ w \in Holding /\ m_connections[k].fd = clientFd[w]
    OBVIOUS
  <2> QED BY <2>1
<1> QED BY <1>1, CMInvCorrect, PTL

LEMMA TotalsStep ==
  ASSUME CMInv, TotalsAgree, [CMNext]_cmVars
  PROVE  TotalsAgree'
<1> DEFINE n == Cardinality(Uncounted)
<1> USE DEF CMInv, CMTypeOK, HandlerPc, Moves
<1>0. IsFiniteSet(Uncounted) /\ n \in Nat
  BY HandlersAssumption, FS_Subset, FS_CardinalityType DEF Uncounted
<1>1. ASSUME NEW w \in Workers, TakeId(w) PROVE TotalsAgree'
  <2>1. Uncounted' = Uncounted \cup {w} /\ w \notin Uncounted
    BY <1>1 DEF TakeId, Uncounted
  <2>2. Cardinality(Uncounted') = n + 1
    BY <1>0, <2>1, FS_AddElement
  <2> QED BY <1>0, <1>1, <2>2 DEF TakeId, TotalsAgree
<1>2. ASSUME NEW w \in Workers, CountTotal(w) PROVE TotalsAgree'
  <2>1. Uncounted' = Uncounted \ {w} /\ w \in Uncounted
    BY <1>2 DEF CountTotal, Uncounted
  <2>2. Cardinality(Uncounted') = n - 1
    BY <1>0, <2>1, FS_RemoveElement
  <2> QED BY <1>0, <1>2, <2>2 DEF CountTotal, TotalsAgree
<1>3. ASSUME UNCHANGED <<m_nextId, m_totalConnections>>, Uncounted' = Uncounted
      PROVE TotalsAgree'
  BY <1>3 DEF TotalsAgree
<1>4. ASSUME NEW w \in Workers, NEW f \in Fds, StartClient(w, f) PROVE TotalsAgree'
  BY <1>3, <1>4 DEF StartClient, Uncounted
<1>5. ASSUME NEW w \in Workers, Emplace(w) PROVE TotalsAgree'
  BY <1>3, <1>5 DEF Emplace, Uncounted
<1>6. ASSUME NEW w \in Workers, ReadFails(w) \/ ReadRequest(w) PROVE TotalsAgree'
  BY <1>3, <1>6 DEF ReadFails, ReadRequest, Uncounted
<1>7. ASSUME NEW w \in Workers, SendFails(w) \/ SendReply(w) \/ Throw(w)
      PROVE TotalsAgree'
  BY <1>3, <1>7 DEF SendFails, SendReply, Throw, Uncounted
<1>8. ASSUME NEW w \in Workers, Close(w) \/ Unregister(w) PROVE TotalsAgree'
  BY <1>3, <1>8 DEF Close, Unregister, Uncounted
<1>9. CASE UNCHANGED cmVars
  BY <1>3, <1>9 DEF cmVars, Uncounted
<1> QED BY <1>1, <1>2, <1>4, <1>5, <1>6, <1>7, <1>8, <1>9, CMCases

\* totalConnections() lags behind the ids handed out by exactly the handlers that
\* are inside registerConnection.
THEOREM TotalsCorrect == CMSpec => []TotalsAgree
<1>1. CMInit => TotalsAgree
  <2> SUFFICES ASSUME CMInit PROVE TotalsAgree
    OBVIOUS
  <2>1. Uncounted = {}
    BY DEF CMInit, Uncounted
  <2> QED BY <2>1, FS_EmptySet DEF CMInit, TotalsAgree
<1>2. CMInv /\ TotalsAgree /\ [CMNext]_cmVars => TotalsAgree'
  BY TotalsStep
<1> QED BY <1>1, <1>2, CMInvCorrect, PTL DEF CMSpec
=============================================================================
