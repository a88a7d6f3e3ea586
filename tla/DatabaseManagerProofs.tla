----------------------- MODULE DatabaseManagerProofs -----------------------
(***************************************************************************)
(* Proofs about DatabaseManager for any number of callers and calls.       *)
(*                                                                         *)
(* What is acknowledged and stored is told apart by the number of the      *)
(* call.  Numbered says that the number of a call in progress is its own:  *)
(* no other call has it, nothing stored and nothing acknowledged.          *)
(***************************************************************************)
EXTENDS DatabaseManager, FiniteSetTheorems, TLAPS

Numbered ==
  /\ IsFiniteSet(acked)
  /\ \A c \in acked : c.no <= calls
  /\ \A i \in 1..Len(stored) : stored[i].no <= calls
  /\ \A t \in Callers : call[t] # NoCall =>
       /\ call[t].no <= calls
       /\ \A u \in Callers : call[u] # NoCall /\ call[u].no = call[t].no => u = t
       /\ \A c \in acked : c.no # call[t].no
       /\ \A i \in 1..Len(stored) : stored[i].no # call[t].no

DBInv == DBTypeOK /\ Numbered /\ AckedStored /\ SuccessCounted

LEMMA DBCases ==
  ASSUME [DBNext]_dbVars
  PROVE  \/ \E t \in Callers : OpenPings(t) \/ OpenReconnects(t)
         \/ \E t \in Callers : OpenFails(t)
         \/ \E t \in Callers : UseNull(t)
         \/ \E t \in Callers : StmtInitFails(t) \/ StatementFails(t)
         \/ \E t \in Callers : StatementSucceeds(t)
         \/ \E t \in Callers : StatementCut(t)
         \/ \E t \in Callers : InitSchema(t)
         \/ \E t \in Callers, o \in Operations, k \in Keys : Call(t, o, k)
         \/ Outage \/ Restart \/ Memory \/ Destroy
         \/ UNCHANGED dbVars
  BY DEF DBNext, CallerStep

\* Counting an operation keeps the type of the counters, and a failure the
\* successes.
LEMMA BumpType ==
  ASSUME DBTypeOK, NEW o, NEW ok \in BOOLEAN
  PROVE  /\ Bump(o, ok) \in [success : Nat, failed : Nat]
         /\ ~ok => Bump(o, ok).success = dbOps.success
         /\ ok => Bump(o, ok).success = IF o \in Counted THEN dbOps.success + 1
                                                         ELSE dbOps.success
  BY DEF DBTypeOK, Bump

LEMMA TypeInit == DBInit => DBTypeOK
<1> SUFFICES ASSUME DBInit PROVE DBTypeOK
  OBVIOUS
<1>1. m_connected = m_conn /\ m_conn \in BOOLEAN /\ session \in BOOLEAN
      /\ up \in BOOLEAN /\ memory \in BOOLEAN /\ tables \in BOOLEAN
  BY Zenon DEF DBInit
<1>2. stored \in Seq(CallRecord) /\ acked \subseteq CallRecord
  BY DEF DBInit
<1>3. nullopts \in Nat /\ dbOps \in [success : Nat, failed : Nat]
  BY DEF DBInit
<1>4. /\ step \in [Callers -> {"idle", "open", "statement"}]
      /\ call \in [Callers -> CallRecord \cup {NoCall}]
      /\ \A t \in Callers : call[t] = NoCall <=> step[t] = "idle"
      /\ answer \in [Callers -> BOOLEAN] /\ calls \in Nat
      /\ spoilt \in [Callers -> SUBSET Callers]
      /\ life \in {"running", "crashed", "destroyed"}
  BY DEF DBInit
<1> QED BY <1>1, <1>2, <1>3, <1>4 DEF DBTypeOK

\* Returning from an operation keeps the types of what it assigns.
ReturnedOK ==
  /\ step \in [Callers -> {"idle", "open", "statement"}]
  /\ call \in [Callers -> CallRecord \cup {NoCall}]
  /\ \A t \in Callers : call[t] = NoCall <=> step[t] = "idle"
  /\ answer \in [Callers -> BOOLEAN]
  /\ spoilt \in [Callers -> SUBSET Callers]
  /\ nullopts \in Nat /\ acked \subseteq CallRecord

LEMMA ReturnType ==
  ASSUME DBTypeOK, NEW t \in Callers, step[t] = "statement", NEW ok \in BOOLEAN,
         Return(t, ok)
  PROVE  ReturnedOK'
<1>1. call[t] \in CallRecord
  BY DEF DBTypeOK
<1>2. /\ step' \in [Callers -> {"idle", "open", "statement"}]
      /\ call' \in [Callers -> CallRecord \cup {NoCall}]
      /\ \A u \in Callers : call'[u] = NoCall <=> step'[u] = "idle"
  BY DEF DBTypeOK, Return
<1>3. answer' \in [Callers -> BOOLEAN] /\ spoilt' \in [Callers -> SUBSET Callers]
  BY DEF DBTypeOK, Return
<1>4. nullopts' \in Nat /\ acked' \subseteq CallRecord
  BY <1>1 DEF DBTypeOK, Return
<1> QED BY <1>2, <1>3, <1>4 DEF ReturnedOK

LEMMA TypeStep ==
  ASSUME DBTypeOK, [DBNext]_dbVars
  PROVE  DBTypeOK'
<1> USE DEF DBTypeOK
<1>1. ASSUME NEW t \in Callers, OpenPings(t) \/ OpenReconnects(t) PROVE DBTypeOK'
  BY <1>1 DEF OpenPings, OpenReconnects, OpenTrue, Opening, envVars, historyVars
<1>2. ASSUME NEW t \in Callers, OpenFails(t) PROVE DBTypeOK'
  BY <1>2, NoCallAssumption DEF OpenFails, Opening, envVars, historyVars
<1>3. ASSUME NEW t \in Callers, UseNull(t) PROVE DBTypeOK'
  BY <1>3 DEF UseNull, connVars, envVars, callerVars, historyVars
<1>4. ASSUME NEW t \in Callers, StmtInitFails(t) \/ StatementFails(t) PROVE DBTypeOK'
  <2>1. dbOps' \in [success : Nat, failed : Nat]
    <3>1. Bump(call[t].op, FALSE) \in [success : Nat, failed : Nat]
      BY BumpType
    <3> QED BY <1>4, <3>1 DEF StmtInitFails, StatementFails
  <2>2. ReturnedOK'
    BY <1>4, ReturnType DEF StmtInitFails, StatementFails, Executing
  <2> QED BY <1>4, <2>1, <2>2
          DEF StmtInitFails, StatementFails, ReturnedOK, connVars, envVars
<1>5. ASSUME NEW t \in Callers, StatementSucceeds(t) PROVE DBTypeOK'
  <2>0. PICK ok \in BOOLEAN : Return(t, ok)
    BY <1>5 DEF StatementSucceeds, Answers
  <2>1. dbOps' \in [success : Nat, failed : Nat]
    BY <1>5, BumpType DEF StatementSucceeds
  <2>2. call[t] \in CallRecord
    BY <1>5 DEF StatementSucceeds, Reaches, Executing
  <2>3. stored' \in Seq(CallRecord)
    BY <1>5, <2>2 DEF StatementSucceeds, Store
  <2>4. ReturnedOK'
    BY <1>5, <2>0, ReturnType DEF StatementSucceeds, Reaches, Executing
  <2> QED BY <1>5, <2>1, <2>3, <2>4 DEF StatementSucceeds, ReturnedOK, envVars
<1>6. ASSUME NEW t \in Callers, StatementCut(t) PROVE DBTypeOK'
  <2>1. dbOps' \in [success : Nat, failed : Nat]
    <3>1. \A ok \in BOOLEAN : Bump(call[t].op, ok) \in [success : Nat, failed : Nat]
      BY BumpType
    <3>2. dbOps' = Bump(call[t].op, FALSE) \/ dbOps' = Bump(call[t].op, TRUE)
      BY <1>6 DEF StatementCut
    <3> QED BY <3>1, <3>2
  <2>2. call[t] \in CallRecord
    BY <1>6 DEF StatementCut, Reaches, Executing
  <2>3. stored' \in Seq(CallRecord)
    BY <1>6, <2>2 DEF StatementCut, Store
  <2>4. ReturnedOK'
    BY <1>6, ReturnType DEF StatementCut, Reaches, Executing
  <2> QED BY <1>6, <2>1, <2>3, <2>4 DEF StatementCut, ReturnedOK
<1>7. ASSUME NEW t \in Callers, InitSchema(t) PROVE DBTypeOK'
  <2>1. ReturnedOK'
    BY <1>7, ReturnType DEF InitSchema, Executing
  <2> QED BY <1>7, <2>1 DEF InitSchema, ReturnedOK, connVars, envVars
<1>8. ASSUME NEW t \in Callers, NEW o \in Operations, NEW k \in Keys, Call(t, o, k)
      PROVE  DBTypeOK'
  <2>1. [op |-> o, key |-> k, no |-> calls + 1] \in CallRecord
    BY <1>8 DEF CallRecord
  <2> QED BY <1>8, <2>1, NoCallAssumption DEF Call, connVars, envVars, historyVars
<1>9. CASE Outage \/ Restart \/ Memory \/ Destroy
  BY <1>9 DEF Outage, Restart, Memory, Destroy, connVars, envVars, callerVars, historyVars
<1>10. CASE UNCHANGED dbVars
  BY <1>10 DEF dbVars, connVars, envVars, callerVars, historyVars
<1> QED BY <1>1, <1>2, <1>3, <1>4, <1>5, <1>6, <1>7, <1>8, <1>9, <1>10, DBCases

\* m_connected and m_conn agree, and every caller and counter keeps its type.
THEOREM DBTypeCorrect == DBSpec => []DBTypeOK
<1>1. DBInit => DBTypeOK
  BY TypeInit
<1>2. DBTypeOK /\ [DBNext]_dbVars => DBTypeOK'
  BY TypeStep
<1> QED BY <1>1, <1>2, PTL DEF DBSpec

LEMMA NullStep ==
  ASSUME DBTypeOK, NullExplained, [DBNext]_dbVars
  PROVE  NullExplained'
<1> USE DEF DBTypeOK, NullExplained
<1>1. ASSUME NEW t \in Callers, OpenPings(t) \/ OpenReconnects(t) PROVE NullExplained'
  BY <1>1 DEF OpenPings, OpenReconnects, OpenTrue, Opening
<1>2. ASSUME NEW t \in Callers, OpenFails(t) PROVE NullExplained'
  <2>1. ASSUME NEW u \in Callers, step'[u] = "statement" PROVE spoilt'[u] \ {u} # {}
    <3>1. u # t /\ step[u] = "statement"
      BY <1>2, <2>1 DEF OpenFails, Opening
    <3>2. t \in spoilt'[u] \ {u}
      BY <1>2, <3>1 DEF OpenFails
    <3> QED BY <3>2
  <2>2. life' # "crashed"
    BY <1>2 DEF OpenFails, Opening
  <2> QED BY <2>1, <2>2
<1>3. ASSUME NEW t \in Callers, UseNull(t) PROVE NullExplained'
  BY <1>3 DEF UseNull, Executing, connVars, callerVars
<1>4. ASSUME NEW t \in Callers,
             StmtInitFails(t) \/ StatementFails(t) \/ InitSchema(t)
               \/ StatementSucceeds(t) \/ StatementCut(t)
      PROVE  NullExplained'
  <2>1. /\ m_conn /\ m_conn' = m_conn /\ life' = life /\ life = "running"
        /\ step' = [step EXCEPT ![t] = "idle"]
        /\ spoilt' = [spoilt EXCEPT ![t] = {}]
    BY <1>4 DEF StmtInitFails, StatementFails, InitSchema, StatementSucceeds, StatementCut,
                Reaches, Executing, Return, connVars
  <2> QED BY <2>1
<1>5. ASSUME NEW t \in Callers, NEW o \in Operations, NEW k \in Keys, Call(t, o, k)
      PROVE  NullExplained'
  BY <1>5 DEF Call, connVars
<1>6. CASE Outage \/ Restart \/ Memory
  BY <1>6 DEF Outage, Restart, Memory, connVars, callerVars
<1>7. CASE Destroy
  BY <1>7 DEF Destroy, callerVars
<1>8. CASE UNCHANGED dbVars
  BY <1>8 DEF dbVars, connVars, callerVars
<1> QED BY <1>1, <1>2, <1>3, <1>4, <1>5, <1>6, <1>7, <1>8, DBCases

\* A null handle is met only by a caller during whose operation another one failed
\* to reconnect.
THEOREM NullCorrect == DBSpec => []NullExplained
<1>1. DBInit => NullExplained
  BY DEF DBInit, NullExplained
<1>2. DBTypeOK /\ NullExplained /\ [DBNext]_dbVars => NullExplained'
  BY NullStep
<1> QED BY <1>1, <1>2, DBTypeCorrect, PTL DEF DBSpec

-----------------------------------------------------------------------------
\* What a call returns: who is acknowledged, what is stored and what is counted.
Ended(t, ok) ==
  /\ call[t] \in CallRecord
  /\ call' = [call EXCEPT ![t] = NoCall]
  /\ acked' = IF ok THEN acked \cup {call[t]} ELSE acked
  /\ calls' = calls
  /\ stored' = stored \/ stored' = Append(stored, call[t])
  /\ ok /\ call[t].op \in Writers => stored' = Append(stored, call[t])
  /\ nullopts' = IF ~ok /\ call[t].op = "getPlayer" THEN nullopts + 1 ELSE nullopts
  /\ \/ dbOps'.success = IF ok /\ call[t].op \in Counted THEN dbOps.success + 1
                                                         ELSE dbOps.success
     \/ /\ ~ok /\ call[t].op = "getPlayer"
        /\ dbOps'.success = dbOps.success + 1

LEMMA EndCases ==
  ASSUME DBTypeOK, NEW t \in Callers
  PROVE  /\ StmtInitFails(t) \/ StatementFails(t) \/ StatementCut(t) => Ended(t, FALSE)
         /\ StatementSucceeds(t) \/ InitSchema(t) => \E ok \in BOOLEAN : Ended(t, ok)
<1>1. step[t] = "statement" => call[t] \in CallRecord
  BY DEF DBTypeOK
<1>2. Bump(call[t].op, FALSE).success = dbOps.success
  BY BumpType
<1>3. Bump(call[t].op, TRUE).success =
        IF call[t].op \in Counted THEN dbOps.success + 1 ELSE dbOps.success
  BY BumpType
<1>4. "initSchema" \notin Counted /\ "initSchema" \notin Writers
  BY DEF Counted, Writers, Shapes
<1>5. StmtInitFails(t) \/ StatementFails(t) => Ended(t, FALSE)
  BY <1>1, <1>2 DEF StmtInitFails, StatementFails, Executing, Return, Ended
<1>6. StatementCut(t) => Ended(t, FALSE)
  <2> SUFFICES ASSUME StatementCut(t) PROVE Ended(t, FALSE)
    OBVIOUS
  <2>1. \/ dbOps'.success = dbOps.success
        \/ call[t].op = "getPlayer" /\ dbOps'.success = dbOps.success + 1
    BY <1>2, <1>3 DEF StatementCut, Counted, Shapes
  <2> QED BY <1>1, <2>1 DEF StatementCut, Reaches, Executing, Return, Store, Ended
<1>7. StatementSucceeds(t) => \E ok \in BOOLEAN : Ended(t, ok)
  <2> SUFFICES ASSUME StatementSucceeds(t) PROVE \E ok \in BOOLEAN : Ended(t, ok)
    OBVIOUS
  <2>1. PICK ok \in Answers(call[t]) : Return(t, ok)
    BY DEF StatementSucceeds
  <2>2. ok \in BOOLEAN /\ (~ok => call[t].op = "getPlayer")
    BY <2>1 DEF Answers
  <2>3. dbOps'.success = IF call[t].op \in Counted THEN dbOps.success + 1 ELSE dbOps.success
    BY <1>3 DEF StatementSucceeds
  <2>4. "getPlayer" \in Counted
    BY DEF Counted, Shapes, getPlayer, Shape
  <2>5. Ended(t, ok)
    BY <1>1, <2>1, <2>2, <2>3, <2>4 DEF StatementSucceeds, Reaches, Executing, Return, Store, Ended
  <2> QED BY <2>2, <2>5
<1>8. InitSchema(t) => Ended(t, TRUE)
  BY <1>1, <1>4 DEF InitSchema, Executing, Return, Ended
<1> QED BY <1>5, <1>6, <1>7, <1>8

LEMMA CountAdded ==
  ASSUME IsFiniteSet(acked), NEW c, c \notin acked
  PROVE  LET old == {d \in acked : d.op \in Counted}
             new == {d \in acked \cup {c} : d.op \in Counted}
         IN  /\ Cardinality(old) \in Nat
             /\ Cardinality(new) = IF c.op \in Counted THEN Cardinality(old) + 1
                                                       ELSE Cardinality(old)
<1> DEFINE old == {d \in acked : d.op \in Counted}
           new == {d \in acked \cup {c} : d.op \in Counted}
<1>1. IsFiniteSet(old) /\ c \notin old
  BY FS_Subset
<1>2. new = IF c.op \in Counted THEN old \cup {c} ELSE old
  OBVIOUS
<1>3. Cardinality(old) \in Nat /\ Cardinality(old \cup {c}) = Cardinality(old) + 1
  BY <1>1, FS_AddElement, FS_CardinalityType
<1> QED BY <1>2, <1>3

LEMMA EndStep ==
  ASSUME DBInv, DBTypeOK', NEW t \in Callers, NEW ok \in BOOLEAN, Ended(t, ok)
  PROVE  Numbered' /\ AckedStored' /\ SuccessCounted'
<1> DEFINE c == call[t]
<1>1. /\ c \in CallRecord /\ c # NoCall /\ c.no \in Nat /\ c.no <= calls
      /\ stored \in Seq(CallRecord) /\ calls \in Nat /\ acked \subseteq CallRecord
      /\ call \in [Callers -> CallRecord \cup {NoCall}]
  BY NoCallAssumption DEF Ended, DBInv, DBTypeOK, Numbered, CallRecord
<1>2. /\ \A d \in acked : d.no # c.no
      /\ \A i \in 1..Len(stored) : stored[i].no # c.no
      /\ \A u \in Callers : u # t /\ call[u] # NoCall => call[u].no # c.no
  BY <1>1 DEF DBInv, Numbered
<1>3. \/ stored' = stored
      \/ /\ Len(stored') = Len(stored) + 1 /\ stored'[Len(stored) + 1] = c
         /\ \A i \in 1..Len(stored) : stored'[i] = stored[i]
  BY <1>1 DEF Ended
<1>4. Len(stored) \in Nat
  BY <1>1
<1>5. \A i \in 1..Len(stored') :
        (i \in 1..Len(stored) /\ stored'[i] = stored[i])
          \/ (i = Len(stored) + 1 /\ stored'[i] = c)
  BY <1>3, <1>4
<1>6. \A d \in acked' : d \in acked \/ d = c
  BY DEF Ended
<1>7. Numbered'
  <2>1. IsFiniteSet(acked')
    BY FS_AddElement DEF Ended, DBInv, Numbered
  <2>2. \A u \in Callers : call'[u] # NoCall => u # t /\ call'[u] = call[u]
    BY <1>1 DEF Ended
  <2>3. calls' = calls
    BY DEF Ended
  <2>4. \A d \in acked' : d.no <= calls'
    BY <1>1, <1>6, <2>3 DEF DBInv, Numbered
  <2>5. \A i \in 1..Len(stored') : stored'[i].no <= calls'
    BY <1>1, <1>5, <2>3 DEF DBInv, Numbered
  <2>6. ASSUME NEW u \in Callers, call'[u] # NoCall
        PROVE  /\ call'[u].no <= calls'
               /\ \A w \in Callers : call'[w] # NoCall /\ call'[w].no = call'[u].no => w = u
               /\ \A d \in acked' : d.no # call'[u].no
               /\ \A i \in 1..Len(stored') : stored'[i].no # call'[u].no
    BY <1>2, <1>5, <1>6, <2>2, <2>3, <2>6 DEF DBInv, Numbered
  <2> QED BY <2>1, <2>4, <2>5, <2>6 DEF Numbered
<1>8. AckedStored'
  <2>1. ASSUME NEW i \in 1..Len(stored'), NEW j \in 1..Len(stored'),
               stored'[i].no = stored'[j].no
        PROVE  i = j
    BY <1>2, <1>5, <2>1 DEF DBInv, AckedStored
  <2>2. ASSUME NEW d \in acked', d.op \in Writers
        PROVE  \E i \in 1..Len(stored') : stored'[i] = d
    <3>1. CASE d \in acked
      BY <1>3, <1>4, <2>2, <3>1 DEF DBInv, AckedStored
    <3>2. CASE d \notin acked
      <4>1. ok /\ d = c
        BY <3>2 DEF Ended
      <4>2. stored' = Append(stored, c)
        BY <2>2, <4>1 DEF Ended
      <4> QED BY <1>1, <1>4, <4>1, <4>2
    <3> QED BY <3>1, <3>2
  <2> QED BY <2>1, <2>2 DEF AckedStored
<1>9. SuccessCounted'
  <2>1. c \notin acked
    BY <1>2
  <2>2. IsFiniteSet(acked)
    BY DEF DBInv, Numbered
  <2>3. dbOps.success \in Nat /\ nullopts \in Nat
    BY DEF DBInv, DBTypeOK
  <2>4. CASE ok
    BY <2>1, <2>2, <2>3, <2>4, CountAdded DEF Ended, DBInv, SuccessCounted
  <2>5. CASE ~ok
    <3>1. Cardinality({d \in acked : d.op \in Counted}) \in Nat
      BY <2>1, <2>2, CountAdded
    <3> QED BY <2>3, <2>5, <3>1 DEF Ended, DBInv, SuccessCounted
  <2> QED BY <2>4, <2>5
<1> QED BY <1>7, <1>8, <1>9

LEMMA DBInvStep ==
  ASSUME DBInv, [DBNext]_dbVars
  PROVE  DBInv'
<1>0. DBTypeOK /\ DBTypeOK'
  BY TypeStep DEF DBInv
<1>1. ASSUME NEW t \in Callers,
             StmtInitFails(t) \/ StatementFails(t) \/ StatementCut(t)
               \/ StatementSucceeds(t) \/ InitSchema(t)
      PROVE  DBInv'
  BY <1>0, <1>1, EndCases, EndStep DEF DBInv
<1>2. ASSUME NEW t \in Callers, OpenFails(t) PROVE DBInv'
  BY <1>0, <1>2, NoCallAssumption
     DEF OpenFails, DBInv, DBTypeOK, Numbered, AckedStored, SuccessCounted,
         historyVars
<1>3. ASSUME NEW t \in Callers, NEW o \in Operations, NEW k \in Keys, Call(t, o, k)
      PROVE  DBInv'
  <2>1. /\ acked' = acked /\ nullopts' = nullopts /\ stored' = stored /\ dbOps' = dbOps
        /\ calls' = calls + 1 /\ calls \in Nat
        /\ \A u \in Callers : u # t => call'[u] = call[u]
        /\ call'[t].no = calls + 1
        /\ acked \subseteq CallRecord /\ stored \in Seq(CallRecord)
        /\ call \in [Callers -> CallRecord \cup {NoCall}]
    BY <1>0, <1>3 DEF Call, DBTypeOK, historyVars
  <2>2. \A d \in CallRecord : d.no \in Nat
    BY DEF CallRecord
  <2>3. \A i \in 1..Len(stored) : stored[i] \in CallRecord
    BY <2>1
  <2>4. Numbered'
    BY <2>1, <2>2, <2>3 DEF DBInv, Numbered
  <2>5. AckedStored' /\ SuccessCounted'
    BY <2>1 DEF DBInv, AckedStored, SuccessCounted
  <2> QED BY <1>0, <2>4, <2>5 DEF DBInv
<1>4. CASE UNCHANGED <<call, calls, historyVars, stored, dbOps>>
  BY <1>0, <1>4 DEF DBInv, Numbered, AckedStored, SuccessCounted, historyVars
<1>5. ASSUME NEW t \in Callers, OpenPings(t) \/ OpenReconnects(t) \/ UseNull(t)
      PROVE  UNCHANGED <<call, calls, historyVars, stored, dbOps>>
  BY <1>5 DEF OpenPings, OpenReconnects, OpenTrue, UseNull, callerVars, historyVars
<1>6. Outage \/ Restart \/ Memory \/ Destroy \/ UNCHANGED dbVars
        => UNCHANGED <<call, calls, historyVars, stored, dbOps>>
  BY DEF Outage, Restart, Memory, Destroy, dbVars, callerVars, historyVars
<1> QED BY <1>1, <1>2, <1>3, <1>4, <1>5, <1>6, DBCases

LEMMA DBInvAlways == DBSpec => []DBInv
<1>1. DBInit => DBInv
  BY TypeInit, FS_EmptySet DEF DBInit, DBInv, Numbered, AckedStored, SuccessCounted
<1>2. DBInv /\ [DBNext]_dbVars => DBInv'
  BY DBInvStep
<1> QED BY <1>1, <1>2, PTL DEF DBSpec

\* A write that returned true is stored, and none is stored twice.
THEOREM AckedCorrect == DBSpec => []AckedStored
<1>1. DBInv => AckedStored
  BY DEF DBInv
<1> QED BY <1>1, DBInvAlways, PTL

\* Every counted operation that returned true is counted as a success, and nothing
\* else is but getPlayer calls that returned nothing.
THEOREM SuccessCorrect == DBSpec => []SuccessCounted
<1>1. DBInv => SuccessCounted
  BY DEF DBInv
<1> QED BY <1>1, DBInvAlways, PTL
=============================================================================
