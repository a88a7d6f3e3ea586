----------------------------- MODULE RedisClient -----------------------------
(***************************************************************************)
(* RedisConnection and RedisPool (server/src/RedisClient.cpp): threads     *)
(* take connections from a pool, send a command, read its reply piece by   *)
(* piece with a time-out on every read, and put the connection back.       *)
(*                                                                         *)
(* A reply is a sequence of parts: the type character, a line up to CRLF,  *)
(* the data of a bulk string up to its CRLF.  Redis (external) answers the *)
(* commands of a connection in order; its parts arrive one by one, as late *)
(* as they like.  A part is own as long as the command it answers has not  *)
(* returned: whoever reads a part that is not reads another one's reply.   *)
(*                                                                         *)
(* A definition named X_slip, just before X, is a plausible slip in the    *)
(* code X models; no specification uses it.                                *)
(***************************************************************************)
EXTENDS Integers, Sequences, FiniteSets

CONSTANTS
  Threads,
  Conns,          \* RedisConnection objects
  PoolSize,       \* m_poolSize
  Commands,       \* the commands in use
  NoConn

\* The commands RedisConnection has methods for.
Methods == {"PING", "SET", "DEL", "HSET", "GET", "HGET", "HGETALL"}

ASSUME PoolAssumption ==
  PoolSize \in Nat /\ NoConn \notin Conns /\ Commands \subseteq Methods

VARIABLES
  m_available,    \* the pool, a stack
  conn,           \* conn[t]: the connection t holds
  cmd,            \* cmd[t]: the command it sends
  at,             \* where it is in it
  left,           \* left[t]: bulk strings still to read in hgetall
  answer,         \* answer[t]: what it returns, was all it read its own, and
                  \* was the connection dirty
  open,           \* the connections with m_socketFd >= 0
  inbox,          \* inbox[c]: the parts that have arrived and were not read
  coming,         \* coming[c]: the parts that are still to arrive
  dirty           \* history: connections an hgetall gave up and left open

poolVars == <<m_available, conn>>
threadVars == <<cmd, at, left, answer>>
socketVars == <<open, inbox, coming, dirty>>
rcVars == <<poolVars, threadVars, socketVars>>

-----------------------------------------------------------------------------
(* Replies *)

Type(ch) == [k |-> "type", v |-> ch, own |-> TRUE]
Line(text) == [k |-> "line", v |-> text, own |-> TRUE]
Data == [k |-> "data", v |-> "value", own |-> TRUE]
Bulk == <<Type("$"), Line("length"), Data>>
Error == <<Type("-"), Line("message")>>

\* What Redis answers: the result, nothing under that key, or an error.
Replies(c) ==
  CASE c = "PING" -> {<<Type("+"), Line("PONG")>>, Error}
    [] c = "SET" -> {<<Type("+"), Line("OK")>>, Error}
    [] c \in {"DEL", "HSET"} -> {<<Type(":"), Line("number")>>, Error}
    [] c \in {"GET", "HGET"} -> {Bulk, <<Type("$"), Line("-1")>>, Error}
    [] c = "HGETALL" -> {<<Type("*"), Line("2")>> \o Bulk \o Bulk,
                         <<Type("*"), Line("0")>>, Error}

Part == [k : {"type", "line", "data"}, own : BOOLEAN,
         v : {"+", "-", ":", "$", "*", "PONG", "OK", "number", "length", "-1", "2",
              "0", "message", "value"}]

Stale(parts) == [i \in DOMAIN parts |-> [parts[i] EXCEPT !.own = FALSE]]

Here(t) == inbox[conn[t]]
EndsLine(p) == p.k \in {"line", "data"}

\* How many parts readLine takes, when the end of a line has arrived.
LineHere(t) == \E i \in 1..Len(Here(t)) : EndsLine(Here(t)[i])
LineLen(t) ==
  CHOOSE n \in 1..Len(Here(t)) :
    EndsLine(Here(t)[n]) /\ \A i \in 1..(n - 1) : ~EndsLine(Here(t)[i])

Rest(s, n) == SubSeq(s, n + 1, Len(s))
Own(t, n) == answer[t].own /\ \A i \in 1..n : Here(t)[i].own

-----------------------------------------------------------------------------
(* RedisPool *)

Free == {c \in Conns : \A i \in 1..Len(m_available) : m_available[i] # c}
          \ {conn[t] : t \in Threads}

\* The connection that was put back last, or a new one; connected if it can be.
acquire(t, x) ==
  /\ at[t] = "idle"
  /\ \E c \in Conns :
       /\ \/ /\ m_available # <<>> /\ c = m_available[Len(m_available)]
             /\ m_available' = SubSeq(m_available, 1, Len(m_available) - 1)
          \/ /\ m_available = <<>> /\ c \in Free
             /\ UNCHANGED m_available
       /\ conn' = [conn EXCEPT ![t] = c]
       /\ open' \in {open, open \cup {c}}
       /\ answer' = [answer EXCEPT ![t].dirty = c \in dirty]
  /\ cmd' = [cmd EXCEPT ![t] = x]
  /\ at' = [at EXCEPT ![t] = "send"]
  /\ UNCHANGED <<left, inbox, coming, dirty>>

Disconnected(c) ==
  /\ open' = open \ {c}
  /\ inbox' = [inbox EXCEPT ![c] = <<>>]
  /\ coming' = [coming EXCEPT ![c] = <<>>]
  /\ dirty' = dirty \ {c}

NoAnswer == [ok |-> FALSE, own |-> TRUE, dirty |-> FALSE]

\* The caller is done with what the command returned.
Idle(t) ==
  /\ at' = [at EXCEPT ![t] = "idle"]
  /\ cmd' = [cmd EXCEPT ![t] = "PING"]
  /\ answer' = [answer EXCEPT ![t] = NoAnswer]

Release_leak(t) ==
  /\ at[t] = "release"
  /\ m_available' = IF Len(m_available) < PoolSize THEN Append(m_available, conn[t])
                                                   ELSE m_available
  /\ conn' = [conn EXCEPT ![t] = NoConn]
  /\ Idle(t)
  /\ UNCHANGED <<left, socketVars>>

\* ~PooledConnection.  A connection the full pool does not take is destroyed.
release(t) ==
  /\ at[t] = "release"
  /\ IF Len(m_available) < PoolSize
       THEN m_available' = Append(m_available, conn[t]) /\ UNCHANGED socketVars
       ELSE UNCHANGED m_available /\ Disconnected(conn[t])
  /\ conn' = [conn EXCEPT ![t] = NoConn]
  /\ Idle(t)
  /\ UNCHANGED left

-----------------------------------------------------------------------------
(* RedisConnection *)

\* What is left unread is nobody's from here on.
Returns(t, ok, own, unread) ==
  /\ at' = [at EXCEPT ![t] = "release"]
  /\ answer' = [answer EXCEPT ![t].ok = ok, ![t].own = own]
  /\ inbox' = [inbox EXCEPT ![conn[t]] = Stale(unread)]
  /\ coming' = [coming EXCEPT ![conn[t]] = Stale(@)]
  /\ left' = [left EXCEPT ![t] = 0]
  /\ UNCHANGED <<poolVars, cmd, open, dirty>>

\* Takes n parts and goes on to read the next thing.
Reads(t, n, next) ==
  /\ at' = [at EXCEPT ![t] = next]
  /\ answer' = [answer EXCEPT ![t].own = Own(t, n)]
  /\ inbox' = [inbox EXCEPT ![conn[t]] = Rest(@, n)]
  /\ UNCHANGED <<poolVars, cmd, open, coming, dirty>>

FirstRead(x) == IF x \in {"GET", "HGET", "HGETALL"} THEN "type" ELSE "line"

sendCommand(t) ==
  /\ at[t] = "send"
  /\ at' = [at EXCEPT ![t] = FirstRead(cmd[t])]
  /\ open' = open \cup {conn[t]}
  /\ \E r \in Replies(cmd[t]) : coming' = [coming EXCEPT ![conn[t]] = @ \o r]
  /\ UNCHANGED <<poolVars, cmd, left, answer, inbox, dirty>>

\* connect() fails, or send() does: then the socket is closed.
SendFails(t) ==
  /\ at[t] = "send"
  /\ at' = [at EXCEPT ![t] = "release"]
  /\ Disconnected(conn[t])
  /\ UNCHANGED <<poolVars, cmd, left, answer>>

Expected(x) == IF x = "PING" THEN "PONG" ELSE "OK"

\* ping and set compare the line; del and hset take any.
ReadLine(t) ==
  /\ at[t] = "line" /\ LineHere(t)
  /\ LET n == LineLen(t)
         good == n = 2 /\ Here(t)[1].v = "+" /\ Here(t)[2].v = Expected(cmd[t])
     IN  Returns(t, cmd[t] \in {"DEL", "HSET"} \/ good, Own(t, n), Rest(Here(t), n))

\* The first character; of a line or of data it is only the first of several.
CharParts(t) == IF Here(t)[1].k = "type" THEN 1 ELSE 0

Wanted(x) == IF x = "HGETALL" THEN "*" ELSE "$"

ReadType_noRest(t) ==
  /\ at[t] = "type" /\ Here(t) # <<>>
  /\ IF Here(t)[1].v = Wanted(cmd[t])
       THEN Reads(t, 1, IF cmd[t] = "HGETALL" THEN "count" ELSE "length") /\ UNCHANGED left
       ELSE Returns(t, FALSE, TRUE, Rest(Here(t), CharParts(t)))

ReadType(t) ==
  /\ at[t] = "type" /\ Here(t) # <<>>
  /\ IF Here(t)[1].v = Wanted(cmd[t])
       THEN Reads(t, 1, IF cmd[t] = "HGETALL" THEN "count" ELSE "length")
       ELSE Reads(t, CharParts(t), "rest")
  /\ UNCHANGED left

\* readLine(rest); return false
ReadRest(t) ==
  /\ at[t] = "rest" /\ LineHere(t)
  /\ Returns(t, FALSE, Own(t, LineLen(t)), Rest(Here(t), LineLen(t)))

\* readBulkString up to the length; a null bulk string ends the command, and so
\* does std::stoi of what is not a number.
ReadLength(t) ==
  /\ at[t] \in {"length", "fieldLength"} /\ LineHere(t)
  /\ IF LineLen(t) = 1 /\ Here(t)[1].v = "length"
       THEN /\ Reads(t, 1, IF at[t] = "length" THEN "data" ELSE "fieldData")
            /\ UNCHANGED left
       ELSE Returns(t, FALSE, Own(t, LineLen(t)), Rest(Here(t), LineLen(t)))

ReadData(t) ==
  /\ at[t] = "data" /\ Here(t) # <<>>
  /\ Returns(t, TRUE, Own(t, 1), Rest(Here(t), 1))

ReadCount(t) ==
  /\ at[t] = "count" /\ LineHere(t)
  /\ IF LineLen(t) = 1 /\ Here(t)[1].v = "2"
       THEN Reads(t, 1, "fieldType") /\ left' = [left EXCEPT ![t] = 2]
       ELSE Returns(t, Here(t)[1].v = "0", Own(t, LineLen(t)), Rest(Here(t), LineLen(t)))

\* kType and vType are read and not looked at.
ReadFieldType(t) ==
  /\ at[t] = "fieldType" /\ Here(t) # <<>>
  /\ Reads(t, CharParts(t), "fieldLength")
  /\ UNCHANGED left

ReadFieldData(t) ==
  /\ at[t] = "fieldData" /\ Here(t) # <<>>
  /\ IF left[t] > 1
       THEN Reads(t, 1, "fieldType") /\ left' = [left EXCEPT ![t] = @ - 1]
       ELSE Returns(t, TRUE, Own(t, 1), Rest(Here(t), 1))

Starved(t) ==
  \/ at[t] \in {"type", "data", "fieldData"} /\ Here(t) = <<>>
  \/ at[t] \in {"line", "rest", "length", "fieldLength", "count"} /\ ~LineHere(t)

TimeOut_kept(t) ==
  /\ Starved(t)
  /\ Returns(t, FALSE, answer[t].own, Here(t))

\* recv times out or finds the connection closed: the socket is closed.
TimeOut(t) ==
  /\ Starved(t)
  /\ at' = [at EXCEPT ![t] = "release"]
  /\ left' = [left EXCEPT ![t] = 0]
  /\ Disconnected(conn[t])
  /\ UNCHANGED <<poolVars, cmd, answer>>

\* The same while hgetall reads the type of a key or value: it returns false and
\* leaves the socket open.
TimeOutInField(t) ==
  /\ at[t] = "fieldType" /\ Here(t) = <<>>
  /\ at' = [at EXCEPT ![t] = "release"]
  /\ left' = [left EXCEPT ![t] = 0]
  /\ coming' = [coming EXCEPT ![conn[t]] = Stale(@)]
  /\ dirty' = dirty \cup {conn[t]}
  /\ UNCHANGED <<poolVars, cmd, answer, open, inbox>>

-----------------------------------------------------------------------------
\* Redis and the network: the next part arrives.
Deliver(c) ==
  /\ coming[c] # <<>>
  /\ inbox' = [inbox EXCEPT ![c] = Append(@, Head(coming[c]))]
  /\ coming' = [coming EXCEPT ![c] = Tail(@)]
  /\ UNCHANGED <<poolVars, threadVars, open, dirty>>

RCInit ==
  /\ m_available = <<>>
  /\ conn = [t \in Threads |-> NoConn]
  /\ cmd = [t \in Threads |-> "PING"]
  /\ at = [t \in Threads |-> "idle"]
  /\ left = [t \in Threads |-> 0]
  /\ answer = [t \in Threads |-> NoAnswer]
  /\ open = {}
  /\ inbox = [c \in Conns |-> <<>>]
  /\ coming = [c \in Conns |-> <<>>]
  /\ dirty = {}

ThreadStep(t) ==
  \/ release(t) \/ sendCommand(t) \/ SendFails(t)
  \/ ReadLine(t) \/ ReadType(t) \/ ReadRest(t) \/ ReadLength(t) \/ ReadData(t)
  \/ ReadCount(t) \/ ReadFieldType(t) \/ ReadFieldData(t)
  \/ TimeOut(t) \/ TimeOutInField(t)

RCNext ==
  \/ \E t \in Threads : ThreadStep(t) \/ \E x \in Commands : acquire(t, x)
  \/ \E c \in Conns : Deliver(c)

RCSpec == RCInit /\ [][RCNext]_rcVars

-----------------------------------------------------------------------------
(* Properties *)

Places == {"idle", "send", "line", "type", "rest", "length", "data", "count",
           "fieldType", "fieldLength", "fieldData", "release"}

RCTypeOK ==
  /\ m_available \in Seq(Conns) /\ Len(m_available) <= PoolSize
  /\ conn \in [Threads -> Conns \cup {NoConn}]
  /\ \A t \in Threads : conn[t] = NoConn <=> at[t] = "idle"
  /\ at \in [Threads -> Places] /\ cmd \in [Threads -> Methods]
  /\ left \in [Threads -> 0..2]
  /\ answer \in [Threads -> [ok : BOOLEAN, own : BOOLEAN, dirty : BOOLEAN]]
  /\ open \subseteq Conns /\ dirty \subseteq open
  /\ inbox \in [Conns -> Seq(Part)] /\ coming \in [Conns -> Seq(Part)]

Pooled == {m_available[i] : i \in 1..Len(m_available)}
Held == {conn[t] : t \in Threads} \ {NoConn}

\* A connection is in the pool once or with one thread, and a socket that is in
\* neither is closed: none leaks, also when the pool is full.
OneHolder ==
  /\ \A i, j \in 1..Len(m_available) : m_available[i] = m_available[j] => i = j
  /\ \A t, u \in Threads : conn[t] = conn[u] /\ conn[t] # NoConn => t = u
  /\ Pooled \cap Held = {}
  /\ open \subseteq Pooled \cup Held

\* Whatever a command does, error, null reply, time-out at any byte, it leaves its
\* connection closed or with nothing of its reply unread.  Only hgetall, giving up
\* between two fields, does not.
PoolClean ==
  \A c \in Conns :
    (c \in dirty) \/ (\E t \in Threads : conn[t] = c /\ at[t] \notin {"send", "release"})
      \/ (inbox[c] = <<>> /\ coming[c] = <<>>)

\* A command that succeeds has read its own reply, not one that a command before
\* it left behind, unless an hgetall left the connection dirty.
OwnReply ==
  \A t \in Threads : answer[t].ok => answer[t].own \/ answer[t].dirty
=============================================================================
