--------------------------- MODULE DatabaseManager ---------------------------
(***************************************************************************)
(* class DatabaseManager (server/src/DatabaseManager.cpp): the one MySQL   *)
(* connection that all workers share.                                      *)
(*                                                                         *)
(* Every operation calls open(), which locks m_mutex, checks or makes the  *)
(* connection and unlocks, and then locks m_mutex again for its statement: *)
(* two actions, with other threads' critical sections in between.  MySQL   *)
(* (external) goes away and comes back, and loses the session with it; its *)
(* tables survive.  Memory may be short for a while.                       *)
(*                                                                         *)
(* A definition named X_slip, just before X, is a plausible slip in the    *)
(* code X models; no specification uses it.                                *)
(***************************************************************************)
EXTENDS Integers, Sequences, FiniteSets

CONSTANTS
  Callers,        \* the threads that call the operations
  Keys,           \* player ids and test run ids
  NoCall

VARIABLES
  m_conn,         \* is m_conn set, or nullptr?
  m_connected,
  session,        \* is the session behind m_conn alive?
  up, memory,     \* is MySQL reachable, is there memory to allocate from?
  tables,         \* has the schema been created?
  step,           \* where each caller is: "idle", "open", "statement"
  call,           \* call[t]: the operation it is in, with a number of its own
  answer,         \* answer[t]: what its last operation returned
  calls,          \* history: the number of operations called
  stored,         \* the statements MySQL has executed that change a table
  acked,          \* history: the calls that returned true
  nullopts,       \* history: getPlayer calls that got past open() and returned nothing
  dbOps,          \* m_dbOperationsSuccess and m_dbOperationsFailed
  spoilt,         \* history: spoilt[t]: the callers whose open() failed since
                  \* the one of t succeeded
  life            \* "running", "crashed" by a null handle, or "destroyed"

connVars == <<m_conn, m_connected, session>>
envVars == <<up, memory>>
callerVars == <<step, call, answer, calls, spoilt>>
historyVars == <<acked, nullopts>>
dbVars == <<connVars, envVars, tables, callerVars, stored, historyVars, dbOps, life>>

-----------------------------------------------------------------------------
(***************************************************************************)
(* What the operations differ in: does the statement write a row, may the  *)
(* row be there only once (a plain INSERT into a table with a primary key),*)
(* is it a prepared statement, and which exits call recordDatabaseOperation*)
(* (counts: the ones with a statement; countsInit: the one without).       *)
(***************************************************************************)
Shape(writes, once, prepared, counts, countsInit) ==
  [writes |-> writes, once |-> once, prepared |-> prepared, counts |-> counts,
   countsInit |-> countsInit]

upsertPlayer   == Shape(TRUE,  FALSE, TRUE,  TRUE,  TRUE)
getPlayer      == Shape(FALSE, FALSE, TRUE,  TRUE,  FALSE)
recordEvent    == Shape(TRUE,  FALSE, TRUE,  TRUE,  FALSE)
saveMatch      == Shape(TRUE,  FALSE, TRUE,  TRUE,  FALSE)
saveTestRun    == Shape(TRUE,  TRUE,  TRUE,  FALSE, FALSE)
getPlayerCount == Shape(FALSE, FALSE, FALSE, FALSE, FALSE)
getEventCount  == Shape(FALSE, FALSE, FALSE, FALSE, FALSE)

Shapes ==
  [upsertPlayer |-> upsertPlayer, getPlayer |-> getPlayer, recordEvent |-> recordEvent,
   saveMatch |-> saveMatch, saveTestRun |-> saveTestRun,
   getPlayerCount |-> getPlayerCount, getEventCount |-> getEventCount]

Operations == DOMAIN Shapes \cup {"initSchema"}
CallRecord == [op : Operations, key : Keys, no : Nat \ {0}]

ASSUME NoCallAssumption == NoCall \notin CallRecord

Writers == {o \in DOMAIN Shapes : Shapes[o].writes}
Counted == {o \in DOMAIN Shapes : Shapes[o].counts}

Duplicate(c) ==
  Shapes[c.op].once /\ \E i \in 1..Len(stored) :
    stored[i].op = c.op /\ stored[i].key = c.key

Bump(o, ok) ==
  IF o \notin Counted THEN dbOps
  ELSE IF ok THEN [dbOps EXCEPT !.success = @ + 1]
  ELSE [dbOps EXCEPT !.failed = @ + 1]

Return(t, ok) ==
  /\ step' = [step EXCEPT ![t] = "idle"]
  /\ call' = [call EXCEPT ![t] = NoCall]
  /\ answer' = [answer EXCEPT ![t] = ok]
  /\ spoilt' = [spoilt EXCEPT ![t] = {}]
  /\ acked' = IF ok THEN acked \cup {call[t]} ELSE acked
  /\ nullopts' = IF ~ok /\ call[t].op = "getPlayer" THEN nullopts + 1 ELSE nullopts

\* The constructor of Server calls initSchema before there is any worker.
Call(t, o, k) ==
  /\ step[t] = "idle" /\ life = "running"
  /\ o = "initSchema" <=> calls = 0
  /\ \A u \in Callers : call[u] # NoCall => call[u].op # "initSchema"
  /\ step' = [step EXCEPT ![t] = "open"]
  /\ calls' = calls + 1
  /\ call' = [call EXCEPT ![t] = [op |-> o, key |-> k, no |-> calls + 1]]
  /\ UNCHANGED <<connVars, envVars, tables, answer, spoilt, stored, historyVars, dbOps, life>>

-----------------------------------------------------------------------------
(* open() *)

Opening(t) == step[t] = "open" /\ life = "running"

\* mysql_ping answers, if need be after a reconnect of its own (MYSQL_OPT_RECONNECT).
PingAnswers == m_connected /\ m_conn /\ up /\ (session \/ memory)
MustReopen == ~(m_connected /\ m_conn /\ session /\ up)

OpenTrue(t) ==
  /\ step' = [step EXCEPT ![t] = "statement"]
  /\ spoilt' = [spoilt EXCEPT ![t] = {}]
  /\ m_conn' = TRUE /\ m_connected' = TRUE /\ session' = TRUE
  /\ UNCHANGED <<envVars, tables, call, answer, calls, stored, historyVars, dbOps, life>>

OpenPings_trusting(t) ==
  /\ Opening(t) /\ m_connected /\ m_conn
  /\ step' = [step EXCEPT ![t] = "statement"]
  /\ spoilt' = [spoilt EXCEPT ![t] = {}]
  /\ UNCHANGED <<connVars, envVars, tables, call, answer, calls, stored, historyVars, dbOps,
                 life>>

OpenPings(t) == Opening(t) /\ PingAnswers /\ OpenTrue(t)

\* The handle, if any, is closed and a new one connected.
OpenReconnects(t) == Opening(t) /\ MustReopen /\ up /\ memory /\ OpenTrue(t)

OpenFails_anyway(t) ==
  /\ Opening(t) /\ MustReopen /\ ~(up /\ memory)
  /\ m_conn' = FALSE /\ m_connected' = FALSE /\ session' = FALSE
  /\ step' = [step EXCEPT ![t] = "statement"]
  /\ spoilt' = [u \in Callers |->
                  IF step[u] = "statement" THEN spoilt[u] \cup {t} ELSE spoilt[u]]
  /\ UNCHANGED <<envVars, tables, call, answer, calls, stored, historyVars, dbOps, life>>

\* mysql_init or mysql_real_connect fails: nullptr for everybody.
OpenFails(t) ==
  /\ Opening(t) /\ MustReopen /\ ~(up /\ memory)
  /\ m_conn' = FALSE /\ m_connected' = FALSE /\ session' = FALSE
  /\ step' = [step EXCEPT ![t] = "idle"]
  /\ call' = [call EXCEPT ![t] = NoCall]
  /\ answer' = [answer EXCEPT ![t] = FALSE]
  /\ spoilt' = [u \in Callers |->
                  IF step[u] = "statement" THEN spoilt[u] \cup {t} ELSE spoilt[u]]
  /\ UNCHANGED <<envVars, tables, calls, stored, historyVars, dbOps, life>>

-----------------------------------------------------------------------------
(* The statement *)

Executing(t) == step[t] = "statement" /\ life = "running"

\* libmysqlclient follows a null handle.
UseNull(t) ==
  /\ Executing(t) /\ ~m_conn
  /\ life' = "crashed"
  /\ UNCHANGED <<connVars, envVars, tables, callerVars, stored, historyVars, dbOps>>

\* mysql_stmt_init finds no memory.
StmtInitFails(t) ==
  /\ Executing(t) /\ m_conn /\ ~memory
  /\ call[t].op # "initSchema" /\ Shapes[call[t].op].prepared
  /\ Return(t, FALSE)
  /\ dbOps' = IF Shapes[call[t].op].countsInit THEN Bump(call[t].op, FALSE) ELSE dbOps
  /\ UNCHANGED <<connVars, envVars, tables, calls, stored, life>>

\* The session is gone and the library does not restore it, there is no such
\* table, or the row is there already.
StatementFails(t) ==
  /\ Executing(t) /\ m_conn /\ call[t].op # "initSchema"
  /\ ~(session /\ up /\ tables) \/ Duplicate(call[t])
  /\ Return(t, FALSE)
  /\ dbOps' = Bump(call[t].op, FALSE)
  /\ UNCHANGED <<connVars, envVars, tables, calls, stored, life>>

Reaches(t) ==
  /\ Executing(t) /\ m_conn /\ call[t].op # "initSchema"
  /\ up /\ (session \/ memory) /\ tables /\ ~Duplicate(call[t])

Store(c) == stored' = IF c.op \in Writers THEN Append(stored, c) ELSE stored

StatementSucceeds_early(t) ==
  /\ Executing(t) /\ m_conn /\ call[t].op # "initSchema"
  /\ Return(t, TRUE)
  /\ dbOps' = Bump(call[t].op, TRUE)
  /\ IF Reaches(t) THEN Store(call[t]) /\ session' = TRUE ELSE UNCHANGED <<stored, session>>
  /\ UNCHANGED <<m_conn, m_connected, envVars, tables, calls, life>>

\* getPlayer answers with a record only if there is a row.  One that upsertPlayer
\* has stored stays; rows of an earlier run may be there or not.
Answers(c) ==
  IF c.op = "getPlayer" /\ \A i \in 1..Len(stored) :
                              ~(stored[i].op = "upsertPlayer" /\ stored[i].key = c.key)
    THEN BOOLEAN ELSE {TRUE}

\* getPlayer counts a success also when it finds no row.
StatementSucceeds(t) ==
  /\ Reaches(t)
  /\ Store(call[t])
  /\ \E ok \in Answers(call[t]) : Return(t, ok)
  /\ dbOps' = Bump(call[t].op, TRUE)
  /\ session' = TRUE
  /\ UNCHANGED <<m_conn, m_connected, envVars, tables, calls, life>>

StatementCut_optimistic(t) ==
  /\ Reaches(t)
  /\ Store(call[t])
  /\ Return(t, FALSE)
  /\ dbOps' = Bump(call[t].op, TRUE)
  /\ up' = FALSE /\ session' = FALSE
  /\ UNCHANGED <<m_conn, m_connected, memory, tables, calls, life>>

\* MySQL executes the statement and is gone before it has answered, or before it has
\* sent the rows: then getPlayer finds nothing to fetch and counts a success.
StatementCut(t) ==
  /\ Reaches(t)
  /\ Store(call[t])
  /\ Return(t, FALSE)
  /\ \/ dbOps' = Bump(call[t].op, FALSE)
     \/ call[t].op = "getPlayer" /\ dbOps' = Bump(call[t].op, TRUE)
  /\ up' = FALSE /\ session' = FALSE
  /\ UNCHANGED <<m_conn, m_connected, memory, tables, calls, life>>

\* initSchema: no schema file, or its statements, whose failures are only logged.
InitSchema(t) ==
  /\ Executing(t) /\ m_conn /\ call[t].op = "initSchema"
  /\ \/ UNCHANGED tables
     \/ up /\ tables' = TRUE
  /\ Return(t, TRUE)
  /\ UNCHANGED <<connVars, envVars, calls, stored, dbOps, life>>

\* close(), from the destructor: the workers are gone.
Destroy ==
  /\ life = "running" /\ calls > 0
  /\ \A t \in Callers : step[t] = "idle"
  /\ m_conn' = FALSE /\ m_connected' = FALSE /\ session' = FALSE
  /\ life' = "destroyed"
  /\ UNCHANGED <<envVars, tables, callerVars, stored, historyVars, dbOps>>

-----------------------------------------------------------------------------
(* MySQL and the machine *)

Outage ==
  /\ up /\ up' = FALSE /\ session' = FALSE
  /\ UNCHANGED <<m_conn, m_connected, memory, tables, callerVars, stored, historyVars, dbOps, life>>

Restart ==
  /\ ~up /\ up' = TRUE
  /\ UNCHANGED <<connVars, memory, tables, callerVars, stored, historyVars, dbOps, life>>

Memory ==
  /\ memory' = ~memory
  /\ UNCHANGED <<connVars, up, tables, callerVars, stored, historyVars, dbOps, life>>

-----------------------------------------------------------------------------
DBInit ==
  /\ m_conn = FALSE /\ m_connected = FALSE /\ session = FALSE
  /\ up \in BOOLEAN /\ memory = TRUE
  /\ tables \in BOOLEAN
  /\ step = [t \in Callers |-> "idle"]
  /\ call = [t \in Callers |-> NoCall]
  /\ answer = [t \in Callers |-> TRUE]
  /\ calls = 0
  /\ stored = <<>>
  /\ acked = {} /\ nullopts = 0
  /\ dbOps = [success |-> 0, failed |-> 0]
  /\ spoilt = [t \in Callers |-> {}]
  /\ life = "running"

CallerStep(t) ==
  \/ OpenPings(t) \/ OpenReconnects(t) \/ OpenFails(t)
  \/ UseNull(t) \/ StmtInitFails(t) \/ StatementFails(t)
  \/ StatementSucceeds(t) \/ InitSchema(t)

DBNext ==
  \/ \E t \in Callers :
       CallerStep(t) \/ StatementCut(t) \/ \E o \in Operations, k \in Keys : Call(t, o, k)
  \/ Outage \/ Restart \/ Memory \/ Destroy

DBSpec == DBInit /\ [][DBNext]_dbVars

\* A caller that is inside an operation goes on: the mutex is released, and MySQL
\* answers or its loss is noticed.
FairDBSpec == DBSpec /\ \A t \in Callers : WF_dbVars(CallerStep(t))

-----------------------------------------------------------------------------
(* Properties *)

\* m_connected agrees with m_conn.
DBTypeOK ==
  /\ m_connected = m_conn
  /\ m_conn \in BOOLEAN /\ session \in BOOLEAN
  /\ up \in BOOLEAN /\ memory \in BOOLEAN /\ tables \in BOOLEAN
  /\ step \in [Callers -> {"idle", "open", "statement"}]
  /\ call \in [Callers -> CallRecord \cup {NoCall}]
  /\ \A t \in Callers : call[t] = NoCall <=> step[t] = "idle"
  /\ answer \in [Callers -> BOOLEAN]
  /\ calls \in Nat /\ nullopts \in Nat /\ acked \subseteq CallRecord
  /\ stored \in Seq(CallRecord)
  /\ dbOps \in [success : Nat, failed : Nat]
  /\ spoilt \in [Callers -> SUBSET Callers]
  /\ life \in {"running", "crashed", "destroyed"}

\* A caller meets a null handle only if another one tried to reconnect and failed
\* between its open() and its statement: a single caller never does, and neither
\* do several while MySQL and the memory last.
NullExplained ==
  /\ \A t \in Callers : step[t] = "statement" /\ ~m_conn => spoilt[t] \ {t} # {}
  /\ life = "crashed" => \E t \in Callers : spoilt[t] \ {t} # {}

\* A write that returned true has been executed, and no write is executed twice,
\* whatever outage cuts it and however the library reconnects.  One that returned
\* false may have been executed.
AckedStored ==
  /\ \A i \in 1..Len(stored), j \in 1..Len(stored) :
       stored[i].no = stored[j].no => i = j
  /\ \A c \in acked : c.op \in Writers => \E i \in 1..Len(stored) : stored[i] = c

\* The counter of successful operations, through all the exits that call
\* recordDatabaseOperation for themselves: every counted operation that returned
\* true is in it, once, and besides these at most getPlayer calls that returned
\* nothing.  It counts such a call as a success whether there is no such player or
\* MySQL went away before the row was fetched.
SuccessCounted ==
  LET acknowledged == Cardinality({c \in acked : c.op \in Counted})
  IN  acknowledged <= dbOps.success /\ dbOps.success <= acknowledged + nullopts

Fine == up /\ memory /\ tables

\* Once MySQL and the memory are back for good, every operation succeeds, the
\* first one by reconnecting: open() does not trust m_connected.  (A test run can
\* be saved once only, and getPlayer may rightly find no row.)
Recovers ==
  \A t \in Callers :
    (step[t] = "open" /\ call[t].op \notin {"saveTestRun", "getPlayer"} /\ []Fine)
      ~> (step[t] = "idle" /\ answer[t]) \/ life = "crashed"
=============================================================================
