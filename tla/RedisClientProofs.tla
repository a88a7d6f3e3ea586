-------------------------- MODULE RedisClientProofs --------------------------
(***************************************************************************)
(* Proofs about RedisClient, for any number of threads and connections and *)
(* any capacity of the pool: no connection is shared or leaked, and every  *)
(* command reads its own reply and all of it.                              *)
(*                                                                         *)
(* The inductive invariant says how far a thread has read: it has taken    *)
(* the first Taken(t) parts of one of the replies its place allows, and    *)
(* the rest of that reply, and nothing else, is in the socket or on its    *)
(* way (ReplyOf).                                                          *)
(***************************************************************************)
EXTENDS RedisClient, SequenceTheorems, WellFoundedInduction, TLAPS

\* The places at which a thread reads.
Midway == Places \ {"idle", "send", "release"}

\* The parts of connection c that are still to be read, arrived or not.
Stream(c) == inbox[c] \o coming[c]

\* The replies of more than one part besides Bulk and Error.
Null == <<Type("$"), Line("-1")>>
Empty == <<Type("*"), Line("0")>>
Fields == <<Type("*"), Line("2")>> \o Bulk \o Bulk

\* The replies a thread that has come to its place may be reading.
Possible(t) ==
  CASE at[t] \in {"line", "type"} -> Replies(cmd[t])
    [] at[t] = "rest" -> {Error}
    [] at[t] = "length" -> {Bulk, Null}
    [] at[t] = "data" -> {Bulk}
    [] at[t] = "count" -> {Fields, Empty}
    [] OTHER -> {Fields}

\* How much of it is read.
Taken(t) ==
  CASE at[t] \in {"line", "type"} -> 0
    [] at[t] \in {"rest", "length", "count"} -> 1
    [] at[t] = "data" -> 2
    [] at[t] = "fieldType" -> 8 - 3 * left[t]
    [] at[t] = "fieldLength" -> 9 - 3 * left[t]
    [] OTHER -> 10 - 3 * left[t]

\* s is what is left of reply r after k parts.
Remains(s, r, k) ==
  Len(s) + k = Len(r) /\ \A i \in 1..Len(s) : s[i] = r[i + k]

\* A thread that reads has a socket, and is at a place of its command.
PlaceInv ==
  \A t \in Threads :
    /\ at[t] \in Midway => conn[t] \in open
    /\ at[t] \in {"line", "type"} => at[t] = FirstRead(cmd[t])
    /\ at[t] \in {"fieldType", "fieldLength", "fieldData"} => left[t] > 0

\* While a thread reads on a connection that is not dirty, all it read was its
\* own and the rest of its reply is all there is in the stream.
ReplyOf(t) ==
  /\ answer[t].ok => at[t] = "release" /\ (answer[t].own \/ answer[t].dirty)
  /\ at[t] \in {"idle", "send"} => answer[t].own
  /\ at[t] \in Midway \cup {"send"} /\ conn[t] \in dirty => answer[t].dirty
  /\ at[t] \in Midway /\ conn[t] \notin dirty =>
       answer[t].own /\ \E r \in Possible(t) : Remains(Stream(conn[t]), r, Taken(t))

\* A connection on which nobody reads has an empty stream, or is dirty.
CleanAt(c) ==
  c \in dirty \/ Stream(c) = <<>> \/ \E t \in Threads : conn[t] = c /\ at[t] \in Midway

\* What is in the sockets and on its way, for every thread and connection.
StreamInv == (\A t \in Threads : ReplyOf(t)) /\ (\A c \in Conns : CleanAt(c))

\* The types, the holders and the places, which do not depend on the replies.
PoolInv == RCTypeOK /\ PlaceInv /\ OneHolder

-----------------------------------------------------------------------------
(* Sequences *)

\* Rest drops the first n elements.
LEMMA RestIs ==
  ASSUME NEW S, NEW s \in Seq(S), NEW n \in 0..Len(s)
  PROVE  /\ Rest(s, n) \in Seq(S) /\ Len(Rest(s, n)) = Len(s) - n
         /\ \A i \in 1..(Len(s) - n) : Rest(s, n)[i] = s[i + n]
  BY DEF Rest

\* Stale keeps the length and disowns every part.
LEMMA StaleIs ==
  ASSUME NEW s \in Seq(Part)
  PROVE  Stale(s) \in Seq(Part) /\ (s = <<>> => Stale(s) = <<>>)
<1>0. DOMAIN s = 1..Len(s) /\ Len(s) \in Nat /\ \A i \in 1..Len(s) : s[i] \in Part
  OBVIOUS
<1>1. \A i \in 1..Len(s) : [s[i] EXCEPT !.own = FALSE] \in Part
  <2> SUFFICES ASSUME NEW p \in Part PROVE [p EXCEPT !.own = FALSE] \in Part
    BY <1>0
  <2> QED BY DEF Part
<1>2. Stale(s) = [i \in 1..Len(s) |-> [s[i] EXCEPT !.own = FALSE]]
  BY <1>0 DEF Stale
<1>3. Stale(s) \in Seq(Part) /\ Len(Stale(s)) = Len(s)
  BY <1>0, <1>1, <1>2
<1>4. CASE s = <<>>
  BY <1>3, <1>4
<1> QED BY <1>3, <1>4

\* readLine takes the parts up to the first end of a line.
LEMMA LineLenIs ==
  ASSUME NEW t \in Threads, Here(t) \in Seq(Part), LineHere(t)
  PROVE  /\ LineLen(t) \in 1..Len(Here(t)) /\ EndsLine(Here(t)[LineLen(t)])
         /\ \A i \in 1..(LineLen(t) - 1) : ~EndsLine(Here(t)[i])
<1> DEFINE T == {n \in 1..Len(Here(t)) : EndsLine(Here(t)[n])}
           R == OpToRel(<, Nat)
<1>1. T \subseteq Nat /\ T # {}
  BY DEF LineHere
<1>2. PICK n \in T : \A i \in T : ~(<<i, n>> \in R)
  <2> HIDE DEF T, R
  <2> QED BY <1>1, WFMin, NatLessThanWellFounded DEF R
<1>3. \A i \in T : ~(i < n)
  <2> HIDE DEF T
  <2> QED BY <1>1, <1>2 DEF OpToRel
<1>4. \A i \in 1..(n - 1) : ~EndsLine(Here(t)[i])
  BY <1>3
<1> QED BY <1>2, <1>4 DEF LineLen

\* Every reply to a command is a sequence of parts.
LEMMA RepliesType == \A x \in Methods : \A r \in Replies(x) : r \in Seq(Part)
<1>1. /\ Bulk \in Seq(Part) /\ Error \in Seq(Part) /\ Null \in Seq(Part) /\ Empty \in Seq(Part)
  BY DEF Bulk, Error, Null, Empty, Type, Line, Data, Part
<1>2. Fields \in Seq(Part)
  <2>1. <<Type("*"), Line("2")>> \in Seq(Part)
    BY DEF Type, Line, Part
  <2> QED BY <1>1, <2>1, ConcatProperties DEF Fields
<1>3. /\ <<Type("+"), Line("PONG")>> \in Seq(Part) /\ <<Type("+"), Line("OK")>> \in Seq(Part)
      /\ <<Type(":"), Line("number")>> \in Seq(Part)
  BY DEF Type, Line, Part
<1> SUFFICES ASSUME NEW x \in Methods PROVE Replies(x) \subseteq Seq(Part)
  OBVIOUS
<1>4. Replies(x) \subseteq {Bulk, Error, Null, Empty, Fields, <<Type("+"), Line("PONG")>>,
                           <<Type("+"), Line("OK")>>, <<Type(":"), Line("number")>>}
  BY DEF Methods, Replies, Null, Empty, Fields
<1> QED BY <1>1, <1>2, <1>3, <1>4

-----------------------------------------------------------------------------
(* Types *)

\* What a thread knows of its last command.
Answer == [ok : BOOLEAN, own : BOOLEAN, dirty : BOOLEAN]

\* What Returns makes of an answer.
LEMMA AnswerIs ==
  ASSUME NEW a \in Answer, NEW ok, NEW own
  PROVE  [a EXCEPT !.ok = ok, !.own = own] = [ok |-> ok, own |-> own, dirty |-> a.dirty]
<1>1. PICK x \in BOOLEAN, y \in BOOLEAN, z \in BOOLEAN : a = [ok |-> x, own |-> y, dirty |-> z]
  BY DEF Answer
<1>2. [[ok |-> x, own |-> y, dirty |-> z] EXCEPT !.ok = ok] = [ok |-> ok, own |-> y, dirty |-> z]
  OBVIOUS
<1>3. [[ok |-> ok, own |-> y, dirty |-> z] EXCEPT !.own = own] = [ok |-> ok, own |-> own, dirty |-> z]
  OBVIOUS
<1> QED BY <1>1, <1>2, <1>3

\* A method that returns leaves the dirt of its connection in the answer.
LEMMA ReturnsAnswer ==
  ASSUME RCTypeOK, NEW t \in Threads, NEW ok, NEW own, NEW unread, Returns(t, ok, own, unread)
  PROVE  answer' = [answer EXCEPT ![t] = [ok |-> ok, own |-> own, dirty |-> answer[t].dirty]]
<1>1. answer \in [Threads -> Answer]
  BY DEF RCTypeOK, Answer
<1>2. answer' = [answer EXCEPT ![t] = [answer[t] EXCEPT !.ok = ok, !.own = own]]
  BY <1>1 DEF Returns
<1> QED BY <1>1, <1>2, AnswerIs

\* A thread that is not idle has a connection.
LEMMA InUse ==
  ASSUME RCTypeOK, NEW t \in Threads, at[t] # "idle"
  PROVE  conn[t] \in Conns /\ Here(t) \in Seq(Part) /\ coming[conn[t]] \in Seq(Part)
  BY DEF RCTypeOK, Here

\* Own is a Boolean on what has arrived.
LEMMA OwnType ==
  ASSUME RCTypeOK, NEW t \in Threads, at[t] # "idle", NEW n \in 0..Len(Here(t))
  PROVE  Own(t, n) \in BOOLEAN
  BY DEF Own, RCTypeOK

\* Returning from a method keeps the types.
LEMMA ReturnsType ==
  ASSUME RCTypeOK, NEW t \in Threads, at[t] # "idle", NEW ok \in BOOLEAN, NEW own \in BOOLEAN,
         NEW unread \in Seq(Part), Returns(t, ok, own, unread)
  PROVE  RCTypeOK'
<1>1. conn[t] \in Conns /\ Stale(unread) \in Seq(Part) /\ Stale(coming[conn[t]]) \in Seq(Part)
  BY InUse, StaleIs
<1>2. /\ m_available' \in Seq(Conns) /\ Len(m_available') <= PoolSize
      /\ conn' \in [Threads -> Conns \cup {NoConn}] /\ open' \subseteq Conns /\ dirty' \subseteq open'
      /\ cmd' \in [Threads -> Methods]
  BY DEF Returns, RCTypeOK, poolVars
<1>3. at' \in [Threads -> Places] /\ \A u \in Threads : conn'[u] = NoConn <=> at'[u] = "idle"
  <2>1. conn' = conn /\ at' = [at EXCEPT ![t] = "release"]
    BY DEF Returns, poolVars
  <2> QED BY <2>1 DEF RCTypeOK, Places
<1>4. /\ left' \in [Threads -> 0..2]
      /\ answer' \in [Threads -> [ok : BOOLEAN, own : BOOLEAN, dirty : BOOLEAN]]
  <2>1. left \in [Threads -> 0..2] /\ left' = [left EXCEPT ![t] = 0]
    BY DEF Returns, RCTypeOK
  <2>2. answer \in [Threads -> [ok : BOOLEAN, own : BOOLEAN, dirty : BOOLEAN]]
    BY DEF RCTypeOK
  <2>3. answer' = [answer EXCEPT ![t] = [ok |-> ok, own |-> own, dirty |-> answer[t].dirty]]
    BY ReturnsAnswer
  <2>4. left' \in [Threads -> 0..2]
    BY <2>1
  <2>5. answer[t].dirty \in BOOLEAN
    BY <2>2
  <2>6. answer' \in [Threads -> [ok : BOOLEAN, own : BOOLEAN, dirty : BOOLEAN]]
    BY <2>2, <2>3, <2>5
  <2> QED BY <2>4, <2>6
<1>5. inbox' \in [Conns -> Seq(Part)] /\ coming' \in [Conns -> Seq(Part)]
  <2>1. /\ inbox' = [inbox EXCEPT ![conn[t]] = Stale(unread)]
        /\ coming' = [coming EXCEPT ![conn[t]] = Stale(coming[conn[t]])]
    BY DEF Returns
  <2> QED BY <1>1, <2>1 DEF RCTypeOK
<1> QED BY <1>2, <1>3, <1>4, <1>5 DEF RCTypeOK

\* Reading a few parts keeps the types.
LEMMA ReadsType ==
  ASSUME RCTypeOK, NEW t \in Threads, at[t] # "idle", NEW n \in 0..Len(Here(t)),
         NEW next \in Midway, Reads(t, n, next), left' \in [Threads -> 0..2]
  PROVE  RCTypeOK'
<1>1. conn[t] \in Conns /\ Rest(Here(t), n) \in Seq(Part) /\ Own(t, n) \in BOOLEAN
  BY InUse, RestIs, OwnType
<1>2. /\ m_available' \in Seq(Conns) /\ Len(m_available') <= PoolSize
      /\ conn' \in [Threads -> Conns \cup {NoConn}] /\ open' \subseteq Conns /\ dirty' \subseteq open'
      /\ cmd' \in [Threads -> Methods]
  BY DEF Reads, RCTypeOK, poolVars
<1>3. at' \in [Threads -> Places] /\ \A u \in Threads : conn'[u] = NoConn <=> at'[u] = "idle"
  BY DEF Reads, RCTypeOK, poolVars, Places, Midway
<1>4. answer' \in [Threads -> [ok : BOOLEAN, own : BOOLEAN, dirty : BOOLEAN]]
  BY <1>1 DEF Reads, RCTypeOK
<1>5. inbox' \in [Conns -> Seq(Part)] /\ coming' \in [Conns -> Seq(Part)]
  BY <1>1 DEF Reads, RCTypeOK, Here
<1> QED BY <1>2, <1>3, <1>4, <1>5 DEF RCTypeOK

\* The steps that read are Returns or Reads of what has arrived.
LEMMA Shapes ==
  ASSUME RCTypeOK, NEW t \in Threads,
         ReadLine(t) \/ ReadType(t) \/ ReadRest(t) \/ ReadLength(t) \/ ReadData(t)
           \/ ReadCount(t) \/ ReadFieldType(t) \/ ReadFieldData(t)
  PROVE  /\ at[t] \in Midway /\ left' \in [Threads -> 0..2]
         /\ \E n \in 0..Len(Here(t)) :
              \/ \E ok \in BOOLEAN : Returns(t, ok, Own(t, n), Rest(Here(t), n))
              \/ \E next \in Midway : Reads(t, n, next)
<1>0. at[t] \in Midway
  BY DEF ReadLine, ReadType, ReadRest, ReadLength, ReadData, ReadCount, ReadFieldType,
         ReadFieldData, Midway, Places
<1>1. Here(t) \in Seq(Part) /\ (LineHere(t) => LineLen(t) \in 0..Len(Here(t)))
      /\ (Here(t) # <<>> => 1 \in 0..Len(Here(t)) /\ CharParts(t) \in 0..Len(Here(t)))
  BY <1>0, InUse, LineLenIs DEF Midway, CharParts
<1>2. left \in [Threads -> 0..2]
  BY DEF RCTypeOK
<1>3. ASSUME NEW n \in 0..Len(Here(t)), NEW ok \in BOOLEAN,
             Returns(t, ok, Own(t, n), Rest(Here(t), n))
      PROVE  left' \in [Threads -> 0..2]
  BY <1>2, <1>3 DEF Returns
<1>4. CASE ReadLine(t)
  <2>1. PICK ok \in BOOLEAN : Returns(t, ok, Own(t, LineLen(t)), Rest(Here(t), LineLen(t)))
    BY <1>4 DEF ReadLine
  <2> QED BY <1>0, <1>1, <1>3, <1>4, <2>1 DEF ReadLine
<1>5. CASE ReadType(t)
  BY <1>0, <1>1, <1>2, <1>5 DEF ReadType, Midway, Places
<1>6. CASE ReadRest(t)
  BY <1>0, <1>1, <1>3, <1>6 DEF ReadRest
<1>7. CASE ReadLength(t)
  BY <1>0, <1>1, <1>2, <1>3, <1>7 DEF ReadLength, Midway, Places
<1>8. CASE ReadData(t)
  BY <1>0, <1>1, <1>3, <1>8 DEF ReadData
<1>9. CASE ReadCount(t)
  <2>1. \/ Reads(t, 1, "fieldType") /\ left' = [left EXCEPT ![t] = 2]
        \/ \E ok \in BOOLEAN : Returns(t, ok, Own(t, LineLen(t)), Rest(Here(t), LineLen(t)))
    BY <1>9 DEF ReadCount
  <2>2. Here(t) # <<>> /\ LineHere(t) /\ "fieldType" \in Midway
    BY <1>1, <1>9 DEF ReadCount, LineHere, Midway, Places
  <2> QED BY <1>0, <1>1, <1>2, <1>3, <2>1, <2>2
<1>10. CASE ReadFieldType(t)
  BY <1>0, <1>1, <1>2, <1>10 DEF ReadFieldType, Midway, Places
<1>11. CASE ReadFieldData(t)
  <2>1. \/ Reads(t, 1, "fieldType") /\ left[t] > 1 /\ left' = [left EXCEPT ![t] = left[t] - 1]
        \/ Returns(t, TRUE, Own(t, 1), Rest(Here(t), 1))
    BY <1>11 DEF ReadFieldData
  <2>2. Here(t) # <<>> /\ "fieldType" \in Midway
    BY <1>11 DEF ReadFieldData, Midway, Places
  <2>3. CASE Reads(t, 1, "fieldType") /\ left[t] > 1 /\ left' = [left EXCEPT ![t] = left[t] - 1]
    <3>1. left' \in [Threads -> 0..2]
      BY <1>2, <2>3
    <3> QED BY <1>0, <1>1, <2>2, <2>3, <3>1
  <2>4. CASE Returns(t, TRUE, Own(t, 1), Rest(Here(t), 1))
    BY <1>0, <1>1, <1>3, <2>2, <2>4
  <2> QED BY <2>1, <2>3, <2>4
<1> QED BY <1>4, <1>5, <1>6, <1>7, <1>8, <1>9, <1>10, <1>11

\* Closing a socket empties it.
LEMMA ClosedType ==
  ASSUME RCTypeOK, NEW c \in Conns, Disconnected(c)
  PROVE  /\ open' \subseteq Conns /\ dirty' \subseteq open'
         /\ inbox' \in [Conns -> Seq(Part)] /\ coming' \in [Conns -> Seq(Part)]
<1>1. <<>> \in Seq(Part)
  OBVIOUS
<1> QED BY <1>1 DEF Disconnected, RCTypeOK

\* acquire keeps the types: a connection taken is no longer available.
LEMMA AcquireType ==
  ASSUME RCTypeOK, NEW t \in Threads, NEW x \in Commands, acquire(t, x)
  PROVE  RCTypeOK'
<1>1. PICK c \in Conns :
        /\ \/ /\ m_available # <<>> /\ c = m_available[Len(m_available)]
              /\ m_available' = SubSeq(m_available, 1, Len(m_available) - 1)
           \/ /\ m_available = <<>> /\ c \in Free
              /\ UNCHANGED m_available
        /\ conn' = [conn EXCEPT ![t] = c]
        /\ open' \in {open, open \cup {c}}
        /\ answer' = [answer EXCEPT ![t].dirty = c \in dirty]
  BY DEF acquire
<1>2. c # NoConn /\ x \in Methods
  BY PoolAssumption
<1>3. m_available' \in Seq(Conns) /\ Len(m_available') <= PoolSize
  <2>1. m_available \in Seq(Conns) /\ Len(m_available) <= PoolSize
    BY DEF RCTypeOK
  <2>2. CASE UNCHANGED m_available
    BY <2>1, <2>2
  <2>3. CASE m_available # <<>> /\ m_available' = SubSeq(m_available, 1, Len(m_available) - 1)
    BY <2>1, <2>3, PoolAssumption
  <2> QED BY <1>1, <2>2, <2>3
<1>4. conn' \in [Threads -> Conns \cup {NoConn}] /\ open' \subseteq Conns /\ dirty' \subseteq open'
  BY <1>1 DEF acquire, RCTypeOK
<1>5. at' \in [Threads -> Places] /\ \A u \in Threads : conn'[u] = NoConn <=> at'[u] = "idle"
  <2>1. conn' = [conn EXCEPT ![t] = c] /\ at' = [at EXCEPT ![t] = "send"]
    BY <1>1 DEF acquire
  <2> QED BY <1>2, <2>1 DEF RCTypeOK, Places
<1>6. cmd' \in [Threads -> Methods] /\ left' \in [Threads -> 0..2]
  BY <1>2 DEF acquire, RCTypeOK
<1>7. answer' \in [Threads -> [ok : BOOLEAN, own : BOOLEAN, dirty : BOOLEAN]]
  <2>1. answer \in [Threads -> [ok : BOOLEAN, own : BOOLEAN, dirty : BOOLEAN]]
    BY DEF RCTypeOK
  <2> DEFINE d == c \in dirty
  <2>2. d \in BOOLEAN /\ answer' = [answer EXCEPT ![t].dirty = d]
    BY <1>1
  <2> HIDE DEF d
  <2> QED BY <2>1, <2>2
<1>8. inbox' \in [Conns -> Seq(Part)] /\ coming' \in [Conns -> Seq(Part)]
  BY DEF acquire, RCTypeOK
<1> QED BY <1>3, <1>4, <1>5, <1>6, <1>7, <1>8 DEF RCTypeOK

\* release keeps the types: the pool never grows past PoolSize.
LEMMA ReleaseType ==
  ASSUME RCTypeOK, NEW t \in Threads, release(t)
  PROVE  RCTypeOK'
<1>1. at[t] # "idle" /\ conn[t] \in Conns
  BY InUse DEF release
<1>2. m_available' \in Seq(Conns) /\ Len(m_available') <= PoolSize
  <2>1. m_available \in Seq(Conns) /\ Len(m_available) <= PoolSize
    BY DEF RCTypeOK
  <2>2. CASE Len(m_available) < PoolSize
    BY <1>1, <2>1, <2>2, PoolAssumption DEF release
  <2>3. CASE ~(Len(m_available) < PoolSize)
    BY <2>1, <2>3 DEF release
  <2> QED BY <2>2, <2>3
<1>3. conn' \in [Threads -> Conns \cup {NoConn}]
  BY DEF release, RCTypeOK
<1>4. /\ open' \subseteq Conns /\ dirty' \subseteq open'
      /\ inbox' \in [Conns -> Seq(Part)] /\ coming' \in [Conns -> Seq(Part)]
  <2>1. CASE Disconnected(conn[t])
    BY <1>1, <2>1, ClosedType
  <2>2. CASE UNCHANGED socketVars
    BY <2>2 DEF socketVars, RCTypeOK
  <2> QED BY <2>1, <2>2 DEF release
<1>5. at' \in [Threads -> Places] /\ \A u \in Threads : conn'[u] = NoConn <=> at'[u] = "idle"
  <2>1. conn' = [conn EXCEPT ![t] = NoConn] /\ at' = [at EXCEPT ![t] = "idle"]
    BY DEF release, Idle
  <2> QED BY <2>1 DEF RCTypeOK, Places
<1>6. cmd' \in [Threads -> Methods] /\ left' \in [Threads -> 0..2]
  BY DEF release, Idle, RCTypeOK, Methods
<1>7. answer' \in [Threads -> [ok : BOOLEAN, own : BOOLEAN, dirty : BOOLEAN]]
  BY DEF release, Idle, NoAnswer, RCTypeOK
<1> QED BY <1>2, <1>3, <1>4, <1>5, <1>6, <1>7 DEF RCTypeOK

\* Sending, or failing to, keeps the types.
LEMMA SendType ==
  ASSUME RCTypeOK, NEW t \in Threads, sendCommand(t)
  PROVE  RCTypeOK'
<1>1. conn[t] \in Conns /\ coming[conn[t]] \in Seq(Part) /\ cmd[t] \in Methods
  BY InUse DEF sendCommand, RCTypeOK
<1>2. PICK r \in Replies(cmd[t]) : coming' = [coming EXCEPT ![conn[t]] = @ \o r]
  BY DEF sendCommand
<1>3. coming[conn[t]] \o r \in Seq(Part)
  BY <1>1, <1>2, RepliesType, ConcatProperties
<1>4. coming' \in [Conns -> Seq(Part)] /\ inbox' \in [Conns -> Seq(Part)]
  BY <1>2, <1>3 DEF sendCommand, RCTypeOK
<1>5. at' \in [Threads -> Places] /\ \A u \in Threads : conn'[u] = NoConn <=> at'[u] = "idle"
  <2>1. conn' = conn /\ at' = [at EXCEPT ![t] = FirstRead(cmd[t])] /\ at[t] = "send"
    BY DEF sendCommand, poolVars
  <2>2. FirstRead(cmd[t]) \in {"type", "line"}
    BY DEF FirstRead
  <2> QED BY <2>1, <2>2 DEF RCTypeOK, Places
<1> QED BY <1>1, <1>4, <1>5 DEF sendCommand, poolVars, RCTypeOK

\* The steps that give up.
LEMMA GiveUpType ==
  ASSUME RCTypeOK, PlaceInv, NEW t \in Threads,
         SendFails(t) \/ TimeOut(t) \/ TimeOutInField(t)
  PROVE  RCTypeOK'
<1>0. at[t] # "idle"
  BY DEF SendFails, TimeOut, TimeOutInField, Starved
<1>1. conn[t] \in Conns /\ Stale(coming[conn[t]]) \in Seq(Part)
  BY <1>0, InUse, StaleIs
<1>2. /\ open' \subseteq Conns /\ dirty' \subseteq open'
      /\ inbox' \in [Conns -> Seq(Part)] /\ coming' \in [Conns -> Seq(Part)]
  <2>1. CASE Disconnected(conn[t])
    BY <1>1, <2>1, ClosedType
  <2>2. CASE TimeOutInField(t)
    <3>1. conn[t] \in open
      BY <2>2 DEF TimeOutInField, PlaceInv, Midway, Places
    <3> QED BY <1>1, <2>2, <3>1 DEF TimeOutInField, RCTypeOK
  <2> QED BY <2>1, <2>2 DEF SendFails, TimeOut
<1>3. at' \in [Threads -> Places] /\ \A u \in Threads : conn'[u] = NoConn <=> at'[u] = "idle"
  <2>1. conn' = conn /\ at' = [at EXCEPT ![t] = "release"]
    BY DEF SendFails, TimeOut, TimeOutInField, poolVars
  <2> QED BY <1>0, <2>1 DEF RCTypeOK, Places
<1>4. left' \in [Threads -> 0..2]
  BY DEF SendFails, TimeOut, TimeOutInField, RCTypeOK
<1>5. UNCHANGED <<m_available, conn, cmd, answer>>
  BY DEF SendFails, TimeOut, TimeOutInField, poolVars
<1> QED BY <1>2, <1>3, <1>4, <1>5 DEF RCTypeOK

\* The network keeps the types.
LEMMA DeliverType ==
  ASSUME RCTypeOK, NEW c \in Conns, Deliver(c)
  PROVE  RCTypeOK'
<1>1. inbox[c] \in Seq(Part) /\ coming[c] \in Seq(Part) /\ coming[c] # <<>>
  BY DEF Deliver, RCTypeOK
<1>2. Append(inbox[c], Head(coming[c])) \in Seq(Part) /\ Tail(coming[c]) \in Seq(Part)
  BY <1>1
<1>3. inbox' \in [Conns -> Seq(Part)] /\ coming' \in [Conns -> Seq(Part)]
  BY <1>2 DEF Deliver, RCTypeOK
<1> QED BY <1>3 DEF Deliver, poolVars, threadVars, RCTypeOK

\* Types are preserved by every step.
LEMMA TypeStep == RCTypeOK /\ PlaceInv /\ [RCNext]_rcVars => RCTypeOK'
<1> SUFFICES ASSUME RCTypeOK, PlaceInv, [RCNext]_rcVars PROVE RCTypeOK'
  OBVIOUS
<1>1. ASSUME NEW t \in Threads, ThreadStep(t) PROVE RCTypeOK'
  <2>1. CASE release(t) \/ sendCommand(t) \/ SendFails(t) \/ TimeOut(t) \/ TimeOutInField(t)
    BY <2>1, ReleaseType, SendType, GiveUpType
  <2>2. CASE ReadLine(t) \/ ReadType(t) \/ ReadRest(t) \/ ReadLength(t) \/ ReadData(t)
               \/ ReadCount(t) \/ ReadFieldType(t) \/ ReadFieldData(t)
    <3>1. at[t] \in Midway /\ at[t] # "idle" /\ Here(t) \in Seq(Part) /\ left' \in [Threads -> 0..2]
      BY <2>2, Shapes, InUse DEF Midway
    <3>2. PICK n \in 0..Len(Here(t)) :
            \/ \E ok \in BOOLEAN : Returns(t, ok, Own(t, n), Rest(Here(t), n))
            \/ \E next \in Midway : Reads(t, n, next)
      BY <2>2, Shapes
    <3>3. Rest(Here(t), n) \in Seq(Part) /\ Own(t, n) \in BOOLEAN
      BY <3>1, RestIs, OwnType
    <3> QED BY <3>1, <3>2, <3>3, ReturnsType, ReadsType
  <2> QED BY <1>1, <2>1, <2>2 DEF ThreadStep
<1>2. ASSUME NEW t \in Threads, NEW x \in Commands, acquire(t, x) PROVE RCTypeOK'
  BY <1>2, AcquireType
<1>3. ASSUME NEW c \in Conns, Deliver(c) PROVE RCTypeOK'
  BY <1>3, DeliverType
<1>4. CASE UNCHANGED rcVars
  BY <1>4 DEF rcVars, poolVars, threadVars, socketVars, RCTypeOK
<1> QED BY <1>1, <1>2, <1>3, <1>4 DEF RCNext

-----------------------------------------------------------------------------
(* One holder *)

\* A thread's step is about itself and its connection.
LEMMA Frame ==
  ASSUME RCTypeOK, NEW t \in Threads, ThreadStep(t)
  PROVE  /\ at[t] # "idle" /\ conn[t] \in Conns
         /\ \A u \in Threads \ {t} :
              /\ at'[u] = at[u] /\ cmd'[u] = cmd[u] /\ left'[u] = left[u]
              /\ answer'[u] = answer[u] /\ conn'[u] = conn[u]
         /\ \A c \in Conns \ {conn[t]} :
              /\ inbox'[c] = inbox[c] /\ coming'[c] = coming[c]
              /\ c \in open' <=> c \in open
              /\ c \in dirty' <=> c \in dirty
<1> USE DEF RCTypeOK
<1>1. CASE release(t)
  <2>1. at[t] # "idle" /\ conn[t] \in Conns
    BY <1>1, InUse DEF release
  <2> QED BY <1>1, <2>1 DEF release, Idle, Disconnected, socketVars
<1>2. CASE sendCommand(t)
  <2>1. at[t] # "idle" /\ conn[t] \in Conns
    BY <1>2, InUse DEF sendCommand
  <2> QED BY <1>2, <2>1 DEF sendCommand, poolVars
<1>3. CASE SendFails(t) \/ TimeOut(t) \/ TimeOutInField(t)
  <2>1. at[t] # "idle" /\ conn[t] \in Conns
    BY <1>3, InUse DEF SendFails, TimeOut, TimeOutInField, Starved
  <2>2. CASE SendFails(t)
    BY <2>1, <2>2 DEF SendFails, Disconnected, poolVars
  <2>3. CASE TimeOut(t)
    BY <2>1, <2>3 DEF TimeOut, Disconnected, poolVars
  <2>4. CASE TimeOutInField(t)
    BY <2>1, <2>4 DEF TimeOutInField, poolVars
  <2> QED BY <1>3, <2>2, <2>3, <2>4
<1>4. CASE ReadLine(t) \/ ReadType(t) \/ ReadRest(t) \/ ReadLength(t) \/ ReadData(t)
             \/ ReadCount(t) \/ ReadFieldType(t) \/ ReadFieldData(t)
  <2>1. at[t] # "idle" /\ conn[t] \in Conns
    BY <1>4, Shapes, InUse DEF Midway
  <2>2. \A u \in Threads \ {t} : left'[u] = left[u]
    BY <1>4 DEF ReadLine, ReadType, ReadRest, ReadLength, ReadData, ReadCount, ReadFieldType,
       ReadFieldData, Returns
  <2>3. PICK n \in 0..Len(Here(t)) :
          \/ \E ok \in BOOLEAN : Returns(t, ok, Own(t, n), Rest(Here(t), n))
          \/ \E next \in Midway : Reads(t, n, next)
    BY <1>4, Shapes
  <2>4. ASSUME NEW ok \in BOOLEAN, Returns(t, ok, Own(t, n), Rest(Here(t), n))
        PROVE  /\ UNCHANGED <<poolVars, cmd, open, dirty>>
               /\ \A u \in Threads \ {t} : at'[u] = at[u] /\ answer'[u] = answer[u]
               /\ \A c \in Conns \ {conn[t]} : inbox'[c] = inbox[c] /\ coming'[c] = coming[c]
    BY <2>1, <2>4 DEF Returns
  <2>5. ASSUME NEW next \in Midway, Reads(t, n, next)
        PROVE  /\ UNCHANGED <<poolVars, cmd, open, dirty>>
               /\ \A u \in Threads \ {t} : at'[u] = at[u] /\ answer'[u] = answer[u]
               /\ \A c \in Conns \ {conn[t]} : inbox'[c] = inbox[c] /\ coming'[c] = coming[c]
    BY <2>1, <2>5 DEF Reads
  <2>6. /\ UNCHANGED <<poolVars, cmd, open, dirty>>
        /\ \A u \in Threads \ {t} : at'[u] = at[u] /\ answer'[u] = answer[u]
        /\ \A c \in Conns \ {conn[t]} : inbox'[c] = inbox[c] /\ coming'[c] = coming[c]
    BY <2>3, <2>4, <2>5
  <2> QED BY <2>1, <2>2, <2>6 DEF poolVars
<1> QED BY <1>1, <1>2, <1>3, <1>4 DEF ThreadStep

\* Only acquire and release move connections, only they and sendCommand open one.
LEMMA Steady ==
  ASSUME RCTypeOK, PlaceInv, NEW t \in Threads, ThreadStep(t), ~release(t)
  PROVE  UNCHANGED poolVars /\ open' \subseteq open \cup {conn[t]}
<1>1. UNCHANGED poolVars
  <2>1. CASE sendCommand(t) \/ SendFails(t) \/ TimeOut(t) \/ TimeOutInField(t)
    BY <2>1 DEF sendCommand, SendFails, TimeOut, TimeOutInField
  <2>2. CASE ReadLine(t) \/ ReadType(t) \/ ReadRest(t) \/ ReadLength(t) \/ ReadData(t)
               \/ ReadCount(t) \/ ReadFieldType(t) \/ ReadFieldData(t)
    BY <2>2, Shapes DEF Returns, Reads
  <2> QED BY <2>1, <2>2 DEF ThreadStep
<1>2. open' \subseteq Conns
  BY TypeStep DEF RCNext, RCTypeOK
<1> QED BY <1>1, <1>2, Frame

\* A step that moves no connection keeps it with its holder.
LEMMA HolderSteady ==
  ASSUME RCTypeOK, OneHolder, UNCHANGED poolVars, NEW t \in Threads, conn[t] # NoConn,
         open' \subseteq open \cup {conn[t]}
  PROVE  OneHolder'
  BY DEF OneHolder, poolVars, Pooled, Held

\* A connection given back is in the pool once or closed.
LEMMA HolderRelease ==
  ASSUME RCTypeOK, OneHolder, NEW t \in Threads, release(t)
  PROVE  OneHolder'
<1> DEFINE c == conn[t]
<1>1. c \in Conns /\ c # NoConn /\ c \in Held /\ c \notin Pooled
  BY InUse, PoolAssumption DEF release, OneHolder, Held
<1>2. conn' = [conn EXCEPT ![t] = NoConn]
  BY DEF release
<1>3. Held' = Held \ {c} /\ \A u, v \in Threads : conn'[u] = conn'[v] /\ conn'[u] # NoConn => u = v
  BY <1>1, <1>2 DEF Held, OneHolder, RCTypeOK
<1>4. CASE Len(m_available) < PoolSize
  <2>1. m_available' = Append(m_available, c) /\ open' = open
    BY <1>4 DEF release, socketVars
  <2>2. m_available \in Seq(Conns)
    BY DEF RCTypeOK
  <2>3. /\ Len(m_available') = Len(m_available) + 1 /\ Len(m_available) \in Nat
        /\ \A i \in 1..Len(m_available) : m_available'[i] = m_available[i]
        /\ m_available'[Len(m_available) + 1] = c
    BY <1>1, <2>1, <2>2
  <2>4. Pooled' = Pooled \cup {c}
    BY <2>3 DEF Pooled
  <2>5. \A i, j \in 1..Len(m_available') : m_available'[i] = m_available'[j] => i = j
    BY <1>1, <2>3 DEF OneHolder, Pooled
  <2> QED BY <1>1, <1>3, <2>1, <2>4, <2>5 DEF OneHolder
<1>5. CASE ~(Len(m_available) < PoolSize)
  <2>1. UNCHANGED m_available /\ open' = open \ {c}
    BY <1>5 DEF release, Disconnected
  <2> QED BY <1>1, <1>3, <2>1 DEF OneHolder, Pooled
<1> QED BY <1>4, <1>5

\* A connection taken leaves the pool, or is a new one.
LEMMA HolderAcquire ==
  ASSUME RCTypeOK, OneHolder, NEW t \in Threads, NEW x \in Commands, acquire(t, x)
  PROVE  OneHolder'
<1>1. PICK c \in Conns :
        /\ \/ /\ m_available # <<>> /\ c = m_available[Len(m_available)]
              /\ m_available' = SubSeq(m_available, 1, Len(m_available) - 1)
           \/ /\ m_available = <<>> /\ c \in Free
              /\ UNCHANGED m_available
        /\ conn' = [conn EXCEPT ![t] = c]
        /\ open' \in {open, open \cup {c}}
  BY DEF acquire
<1>2. conn[t] = NoConn /\ c # NoConn
  BY PoolAssumption DEF acquire, RCTypeOK
<1>3. Held' = Held \cup {c}
  BY <1>1, <1>2 DEF Held, RCTypeOK
<1>4. m_available \in Seq(Conns)
  BY DEF RCTypeOK
<1>5. /\ c \notin Held /\ Pooled' = Pooled \ {c}
      /\ \A i, j \in 1..Len(m_available') : m_available'[i] = m_available'[j] => i = j
  <2>1. CASE m_available = <<>> /\ c \in Free /\ UNCHANGED m_available
    BY <1>4, <2>1 DEF Free, Held, Pooled, OneHolder
  <2>2. CASE /\ m_available # <<>> /\ c = m_available[Len(m_available)]
             /\ m_available' = SubSeq(m_available, 1, Len(m_available) - 1)
    <3>1. /\ Len(m_available') = Len(m_available) - 1 /\ Len(m_available) \in Nat \ {0}
          /\ \A i \in 1..(Len(m_available) - 1) : m_available'[i] = m_available[i]
      <4>1. Len(m_available) \in Nat \ {0}
        BY <1>4, <2>2
      <4> DEFINE n == Len(m_available)
                 s == SubSeq(m_available, 1, n - 1)
      <4>2. n - 1 \in Int /\ \A i \in 1..(n - 1) : m_available[i] \in Conns
        BY <1>4, <4>1
      <4>3. Len(s) = n - 1 /\ \A i \in 1..(n - 1) : s[i] = m_available[i]
        <5> HIDE DEF n
        <5>1. n \in Nat \ {0}
          BY <4>1 DEF n
        <5>2. /\ Len(s) = IF 1 <= n - 1 THEN n - 1 - 1 + 1 ELSE 0
              /\ \A i \in 1..(n - 1 - 1 + 1) : s[i] = m_available[1 + i - 1]
          BY <4>2, SubSeqProperties
        <5> QED BY <5>1, <5>2
      <4> QED BY <2>2, <4>1, <4>3
    <3>2. c \in Pooled
      BY <2>2, <3>1 DEF Pooled
    <3>3. \A i \in 1..(Len(m_available) - 1) : m_available[i] # c
      BY <2>2, <3>1 DEF OneHolder
    <3>4. Pooled' = Pooled \ {c}
      <4> DEFINE n == Len(m_available)
      <4>1. Pooled' = {m_available[i] : i \in 1..(n - 1)} /\ Pooled = {m_available[i] : i \in 1..n}
        BY <3>1 DEF Pooled
      <4>2. 1..n = 1..(n - 1) \cup {n} /\ m_available[n] = c
        BY <2>2, <3>1
      <4>3. \A i \in 1..(n - 1) : m_available[i] # c
        BY <3>3
      <4> HIDE DEF n
      <4> QED BY <4>1, <4>2, <4>3
    <3>5. \A i, j \in 1..Len(m_available') : m_available'[i] = m_available'[j] => i = j
      BY <3>1 DEF OneHolder
    <3> QED BY <3>2, <3>4, <3>5 DEF OneHolder
  <2> QED BY <1>1, <2>1, <2>2
<1>6. \A u, v \in Threads : conn'[u] = conn'[v] /\ conn'[u] # NoConn => u = v
  BY <1>1, <1>2, <1>5 DEF OneHolder, Held, RCTypeOK
<1> QED BY <1>1, <1>2, <1>3, <1>5, <1>6 DEF OneHolder

\* No step leaves a connection with two holders.
LEMMA HolderStep == RCTypeOK /\ PlaceInv /\ OneHolder /\ [RCNext]_rcVars => OneHolder'
<1> SUFFICES ASSUME RCTypeOK, PlaceInv, OneHolder, [RCNext]_rcVars PROVE OneHolder'
  OBVIOUS
<1>1. ASSUME NEW t \in Threads, ThreadStep(t) PROVE OneHolder'
  <2>1. CASE release(t)
    BY <2>1, HolderRelease
  <2>2. CASE ~release(t)
    BY <1>1, <2>2, Frame, Steady, HolderSteady, PoolAssumption
  <2> QED BY <2>1, <2>2
<1>2. ASSUME NEW t \in Threads, NEW x \in Commands, acquire(t, x) PROVE OneHolder'
  BY <1>2, HolderAcquire
<1>3. CASE UNCHANGED <<poolVars, open>>
  BY <1>3 DEF OneHolder, Pooled, Held, poolVars
<1> QED BY <1>1, <1>2, <1>3 DEF RCNext, Deliver, rcVars, poolVars, threadVars, socketVars

\* How a step changes a thread's place.
LEMMA PlaceStep ==
  RCTypeOK /\ PlaceInv /\ OneHolder /\ [RCNext]_rcVars => PlaceInv'
<1> SUFFICES ASSUME RCTypeOK, PlaceInv, OneHolder, [RCNext]_rcVars PROVE PlaceInv'
  OBVIOUS
<1> DEFINE P(u) == /\ at[u] \in Midway => conn[u] \in open
                   /\ at[u] \in {"line", "type"} => at[u] = FirstRead(cmd[u])
                   /\ at[u] \in {"fieldType", "fieldLength", "fieldData"} => left[u] > 0
<1>0. \A u \in Threads : P(u)
  BY DEF PlaceInv
<1>1. ASSUME NEW t \in Threads, ThreadStep(t) PROVE PlaceInv'
  <2>1. ASSUME NEW u \in Threads \ {t} PROVE P(u)'
    <3>1. at'[u] = at[u] /\ cmd'[u] = cmd[u] /\ left'[u] = left[u] /\ conn'[u] = conn[u]
      BY <1>1, Frame
    <3>2. at[u] \in Midway => conn[u] # conn[t] /\ conn[u] \in Conns
      BY InUse, PoolAssumption DEF OneHolder, Midway
    <3>3. at[u] \in Midway /\ conn[u] \in open => conn[u] \in open'
      BY <1>1, <3>2, Frame
    <3> QED BY <1>0, <3>1, <3>3
  <2>2. P(t)'
    <3>0. t \in Threads /\ at \in [Threads -> Places] /\ left \in [Threads -> 0..2]
      BY DEF RCTypeOK
    <3>1. CASE release(t) \/ SendFails(t) \/ TimeOut(t) \/ TimeOutInField(t)
      <4>1. at'[t] \in {"idle", "release"}
        BY <3>0, <3>1 DEF release, Idle, SendFails, TimeOut, TimeOutInField
      <4> QED BY <4>1 DEF Midway
    <3>2. CASE sendCommand(t)
      BY <3>0, <3>2 DEF sendCommand, FirstRead, poolVars
    <3>3. CASE ReadLine(t) \/ ReadType(t) \/ ReadRest(t) \/ ReadLength(t) \/ ReadData(t)
                 \/ ReadCount(t) \/ ReadFieldType(t) \/ ReadFieldData(t)
      <4>1. at[t] \in Midway /\ UNCHANGED <<poolVars, cmd, open>>
        BY <3>3, Shapes DEF Returns, Reads
      <4>2. conn'[t] \in open'
        BY <1>0, <4>1 DEF poolVars
      <4>3. at'[t] \notin {"line", "type"}
        BY <3>0, <3>3 DEF ReadLine, ReadType, ReadRest, ReadLength, ReadData, ReadCount,
           ReadFieldType, ReadFieldData, Returns, Reads
      <4>4. at'[t] \in {"fieldType", "fieldLength", "fieldData"} => left'[t] > 0
        <5>1. CASE ReadLine(t) \/ ReadRest(t) \/ ReadData(t)
          BY <3>0, <5>1 DEF ReadLine, ReadRest, ReadData, Returns
        <5>2. CASE ReadType(t)
          BY <3>0, <5>2 DEF ReadType, Reads
        <5>3. CASE ReadLength(t)
          BY <1>0, <3>0, <5>3 DEF ReadLength, Returns, Reads
        <5>4. CASE ReadCount(t)
          BY <3>0, <5>4 DEF ReadCount, Returns, Reads
        <5>5. CASE ReadFieldType(t)
          BY <1>0, <3>0, <5>5 DEF ReadFieldType, Reads
        <5>6. CASE ReadFieldData(t)
          BY <3>0, <5>6 DEF ReadFieldData, Returns, Reads
        <5> QED BY <3>3, <5>1, <5>2, <5>3, <5>4, <5>5, <5>6
      <4> QED BY <4>2, <4>3, <4>4
    <3> QED BY <1>1, <3>1, <3>2, <3>3 DEF ThreadStep
  <2> QED BY <2>1, <2>2 DEF PlaceInv
<1>2. ASSUME NEW t \in Threads, NEW x \in Commands, acquire(t, x) PROVE PlaceInv'
  <2>1. /\ \A u \in Threads \ {t} : at'[u] = at[u] /\ cmd'[u] = cmd[u] /\ conn'[u] = conn[u]
        /\ left' = left /\ at'[t] = "send" /\ open \subseteq open'
    BY <1>2 DEF acquire, RCTypeOK
  <2>2. ASSUME NEW u \in Threads PROVE P(u)'
    BY <1>0, <2>1 DEF Midway
  <2> QED BY <2>2 DEF PlaceInv
<1>3. CASE UNCHANGED <<poolVars, threadVars, open>>
  BY <1>3 DEF PlaceInv, poolVars, threadVars
<1> QED BY <1>1, <1>2, <1>3 DEF RCNext, Deliver, rcVars, socketVars

\* The pool starts empty, with nobody at work.
LEMMA PoolInit == RCInit => PoolInv
  BY PoolAssumption DEF RCInit, PoolInv, RCTypeOK, PlaceInv, OneHolder, Pooled, Held, NoAnswer,
     Places, Midway, Methods

\* No step leaves PoolInv.
LEMMA PoolStep == PoolInv /\ [RCNext]_rcVars => PoolInv'
  BY TypeStep, HolderStep, PlaceStep DEF PoolInv

\* Types, holders and places hold for ever.
LEMMA PoolCorrect == RCSpec => []PoolInv
  BY PoolInit, PoolStep, PTL DEF RCSpec

\* The pool never exceeds its size, a thread holds a connection exactly while it
\* uses it, and only open sockets are dirty (RedisPool, RedisConnection).
THEOREM RCTypeCorrect == RCSpec => []RCTypeOK
<1>1. PoolInv => RCTypeOK
  BY DEF PoolInv
<1> QED BY <1>1, PoolCorrect, PTL

\* However threads take and return connections, fail and time out, no connection
\* is in two hands and no open socket is lost, also when the pool is full
\* (acquire, ~PooledConnection).
THEOREM OneHolderCorrect == RCSpec => []OneHolder
<1>1. PoolInv => OneHolder
  BY DEF PoolInv
<1> QED BY <1>1, PoolCorrect, PTL

-----------------------------------------------------------------------------
(* Replies and streams *)

\* The parts of the replies, one by one.
LEMMA Parts ==
  /\ Len(Error) = 2 /\ Error[1] = Type("-") /\ Error[2] = Line("message")
  /\ Len(Bulk) = 3 /\ Bulk[1] = Type("$") /\ Bulk[2] = Line("length") /\ Bulk[3] = Data
  /\ Len(Null) = 2 /\ Null[1] = Type("$") /\ Null[2] = Line("-1")
  /\ Len(Empty) = 2 /\ Empty[1] = Type("*") /\ Empty[2] = Line("0")
  /\ Len(Fields) = 8 /\ Fields[1] = Type("*") /\ Fields[2] = Line("2")
  /\ \A i \in {3, 6} :
       Fields[i] = Type("$") /\ Fields[i + 1] = Line("length") /\ Fields[i + 2] = Data
<1>1. /\ Len(Error) = 2 /\ Error[1] = Type("-") /\ Error[2] = Line("message")
      /\ Len(Bulk) = 3 /\ Bulk[1] = Type("$") /\ Bulk[2] = Line("length") /\ Bulk[3] = Data
      /\ Len(Null) = 2 /\ Null[1] = Type("$") /\ Null[2] = Line("-1")
      /\ Len(Empty) = 2 /\ Empty[1] = Type("*") /\ Empty[2] = Line("0")
  BY DEF Error, Bulk, Null, Empty
<1>2. /\ Len(Fields) = 8 /\ Fields[1] = Type("*") /\ Fields[2] = Line("2")
      /\ \A i \in {3, 6} :
           Fields[i] = Type("$") /\ Fields[i + 1] = Line("length") /\ Fields[i + 2] = Data
  <2> DEFINE h == <<Type("*"), Line("2")>>
             g == h \o Bulk
  <2>1. h \in Seq(Part) /\ Len(h) = 2 /\ h[1] = Type("*") /\ h[2] = Line("2")
    BY DEF Type, Line, Part
  <2>2. Bulk \in Seq(Part)
    BY DEF Bulk, Type, Line, Data, Part
  <2> HIDE DEF h
  <2>3. /\ g \in Seq(Part) /\ Len(g) = 5
        /\ \A i \in 1..5 : g[i] = IF i <= 2 THEN h[i] ELSE Bulk[i - 2]
    <3>1. g \in Seq(Part) /\ Len(g) = Len(h) + Len(Bulk)
          /\ \A i \in 1..(Len(h) + Len(Bulk)) : g[i] = IF i <= Len(h) THEN h[i] ELSE Bulk[i - Len(h)]
      BY <2>1, <2>2, ConcatProperties
    <3> QED BY <1>1, <2>1, <3>1
  <2> HIDE DEF g
  <2>4. Len(g \o Bulk) = 8 /\ \A i \in 1..8 : (g \o Bulk)[i] = IF i <= 5 THEN g[i] ELSE Bulk[i - 5]
    <3>1. Len(g \o Bulk) = Len(g) + Len(Bulk)
          /\ \A i \in 1..(Len(g) + Len(Bulk)) :
               (g \o Bulk)[i] = IF i <= Len(g) THEN g[i] ELSE Bulk[i - Len(g)]
      BY <2>2, <2>3, ConcatProperties
    <3> QED BY <1>1, <2>3, <3>1
  <2>5. Fields = g \o Bulk
    BY DEF Fields, g, h
  <2> QED BY <1>1, <2>1, <2>3, <2>4, <2>5
<1> QED BY <1>1, <1>2

\* Every part of r is its reader's own.
Whole(r) == \A i \in 1..Len(r) : r[i].own

\* What the code distinguishes in a reply.
LEMMA ReplyIs ==
  ASSUME NEW x \in Methods, NEW r \in Replies(x)
  PROVE  /\ r \in Seq(Part) /\ Whole(r)
         /\ FirstRead(x) = "line" =>
              Len(r) = 2 /\ ~EndsLine(r[1]) /\ EndsLine(r[2])
         /\ FirstRead(x) = "type" =>
              /\ Len(r) >= 2 /\ r[1].k = "type"
              /\ \/ r = Error /\ r[1].v # Wanted(x)
                 \/ x = "HGETALL" /\ r \in {Fields, Empty}
                 \/ x # "HGETALL" /\ r \in {Bulk, Null}
<1>1. r \in Seq(Part)
  BY RepliesType
<1>2. CASE FirstRead(x) = "line"
  <2>1. Len(r) = 2 /\ r[1] \in {Type("+"), Type(":"), Type("-")}
        /\ r[2] \in {Line("PONG"), Line("OK"), Line("number"), Line("message")}
    BY <1>2 DEF FirstRead, Methods, Replies, Error
  <2>2. r[1].own /\ r[1].k = "type" /\ r[2].own /\ r[2].k = "line"
    BY <2>1 DEF Type, Line
  <2> QED BY <1>1, <1>2, <2>1, <2>2 DEF Whole, EndsLine
<1>3. CASE FirstRead(x) = "type"
  <2>1. \/ r = Error
        \/ x = "HGETALL" /\ r \in {Fields, Empty}
        \/ x # "HGETALL" /\ r \in {Bulk, Null}
    BY <1>3 DEF FirstRead, Methods, Replies, Null, Empty, Fields
  <2>2. CASE r = Error
    BY <1>1, <1>3, <2>2, Parts DEF Whole, Wanted, Type, Line
  <2>3. CASE x = "HGETALL" /\ r = Fields
    <3>1. \A i \in 1..8 : i \in {1, 2} \cup {3, 6} \cup {3 + 1, 6 + 1} \cup {3 + 2, 6 + 2}
      OBVIOUS
    <3>2. Whole(r)
      BY <2>3, <3>1, Parts DEF Whole, Type, Line, Data
    <3> QED BY <1>1, <1>3, <2>3, <3>2, Parts DEF Type
  <2>4. CASE x = "HGETALL" /\ r = Empty
    BY <1>1, <1>3, <2>4, Parts DEF Whole, Type, Line
  <2>5. CASE x # "HGETALL" /\ r = Bulk
    <3>1. Whole(r)
      BY <2>5, Parts DEF Whole, Type, Line, Data
    <3> QED BY <1>1, <1>3, <2>5, <3>1, Parts DEF Type
  <2>6. CASE x # "HGETALL" /\ r = Null
    BY <1>1, <1>3, <2>6, Parts DEF Whole, Type, Line
  <2> QED BY <2>1, <2>2, <2>3, <2>4, <2>5, <2>6
<1> QED BY <1>2, <1>3 DEF FirstRead

\* A stream is empty when both of its halves are.
LEMMA NothingLeft ==
  ASSUME NEW s \in Seq(Part), NEW u \in Seq(Part)
  PROVE  s \o u = <<>> <=> s = <<>> /\ u = <<>>
<1>1. Len(s \o u) = Len(s) + Len(u) /\ Len(s) \in Nat /\ Len(u) \in Nat /\ s \o u \in Seq(Part)
  BY ConcatProperties
<1>2. s \o u = <<>> <=> Len(s \o u) = 0
  BY <1>1
<1>3. (s = <<>> <=> Len(s) = 0) /\ (u = <<>> <=> Len(u) = 0)
  OBVIOUS
<1>4. Len(s \o u) = 0 <=> Len(s) = 0 /\ Len(u) = 0
  BY <1>1
<1> QED BY <1>2, <1>3, <1>4

\* Of the rest of a reply, s has arrived and u is to come.
LEMMA Split ==
  ASSUME NEW s \in Seq(Part), NEW u \in Seq(Part), NEW r \in Seq(Part), NEW k \in Nat,
         Remains(s \o u, r, k)
  PROVE  /\ Len(s) \in Nat /\ Len(u) \in Nat /\ Len(s) + Len(u) + k = Len(r)
         /\ \A i \in 1..Len(s) : s[i] = r[i + k]
         /\ \A i \in 1..Len(u) : u[i] = r[i + Len(s) + k]
<1> DEFINE w == s \o u
<1>1. /\ Len(w) = Len(s) + Len(u) /\ Len(s) \in Nat /\ Len(u) \in Nat
      /\ \A i \in 1..(Len(s) + Len(u)) : w[i] = IF i <= Len(s) THEN s[i] ELSE u[i - Len(s)]
  BY ConcatProperties
<1>2. Len(w) + k = Len(r) /\ \A i \in 1..Len(w) : w[i] = r[i + k]
  BY DEF Remains
<1> HIDE DEF w
<1>3. ASSUME NEW i \in 1..Len(s) PROVE s[i] = r[i + k]
  <2>1. i \in 1..Len(w) /\ w[i] = s[i]
    BY <1>1
  <2> QED BY <1>2, <2>1
<1>4. ASSUME NEW i \in 1..Len(u) PROVE u[i] = r[i + Len(s) + k]
  <2>1. i + Len(s) \in 1..Len(w) /\ ~(i + Len(s) <= Len(s)) /\ (i + Len(s)) - Len(s) = i
    BY <1>1
  <2>2. w[i + Len(s)] = u[i]
    BY <1>1, <2>1
  <2> QED BY <1>2, <2>1, <2>2
<1> QED BY <1>1, <1>2, <1>3, <1>4

\* n parts of what has arrived are read.
LEMMA Join ==
  ASSUME NEW s \in Seq(Part), NEW u \in Seq(Part), NEW r \in Seq(Part), NEW k \in Nat,
         Remains(s \o u, r, k), NEW n \in 0..Len(s)
  PROVE  /\ Remains(Rest(s, n) \o u, r, k + n)
         /\ k + n = Len(r) => Rest(s, n) = <<>> /\ u = <<>>
<1> DEFINE v == Rest(s, n)
           w == v \o u
<1>1. /\ Len(s) \in Nat /\ Len(u) \in Nat /\ Len(s) + Len(u) + k = Len(r)
      /\ \A i \in 1..Len(s) : s[i] = r[i + k]
      /\ \A i \in 1..Len(u) : u[i] = r[i + Len(s) + k]
  BY Split
<1>2. v \in Seq(Part) /\ Len(v) = Len(s) - n /\ \A i \in 1..(Len(s) - n) : v[i] = s[i + n]
  BY RestIs
<1> HIDE DEF v
<1>3. /\ Len(w) = Len(v) + Len(u)
      /\ \A i \in 1..(Len(v) + Len(u)) : w[i] = IF i <= Len(v) THEN v[i] ELSE u[i - Len(v)]
  BY <1>2, ConcatProperties
<1> HIDE DEF w
<1>4. n \in Nat /\ n <= Len(s) /\ Len(v) \in Nat
  BY <1>1, <1>2
<1>5. ASSUME NEW i \in 1..Len(w) PROVE w[i] = r[i + (k + n)]
  <2>1. CASE i <= Len(v)
    <3>1. i + n \in 1..Len(s) /\ (i + n) + k = i + (k + n)
      BY <1>2, <1>4, <2>1
    <3>2. w[i] = v[i] /\ v[i] = s[i + n]
      BY <1>1, <1>2, <1>3, <1>4, <2>1
    <3> QED BY <1>1, <3>1, <3>2
  <2>2. CASE ~(i <= Len(v))
    <3> DEFINE j == i - Len(v)
    <3>1. j \in 1..Len(u) /\ j + Len(s) + k = i + (k + n)
      BY <1>1, <1>2, <1>3, <1>4, <2>2
    <3>2. w[i] = u[j]
      BY <1>1, <1>3, <1>4, <2>2
    <3> HIDE DEF j
    <3> QED BY <1>1, <3>1, <3>2
  <2> QED BY <2>1, <2>2
<1>6. Len(w) + (k + n) = Len(r)
  <2>1. Len(w) = Len(v) + Len(u) /\ Len(v) = Len(s) - n
    BY <1>2, <1>3
  <2>2. Len(s) + Len(u) + k = Len(r) /\ n \in Nat /\ Len(s) \in Nat /\ Len(u) \in Nat
    BY <1>1, <1>4
  <2> QED BY <2>1, <2>2
<1>7. k + n = Len(r) => Len(v) = 0 /\ Len(u) = 0
  BY <1>1, <1>2, <1>4
<1>8. k + n = Len(r) => v = <<>> /\ u = <<>>
  BY <1>2, <1>7
<1> QED BY <1>5, <1>6, <1>8 DEF Remains, w, v

\* The stream of a thread at work is what has arrived, then what is coming.
LEMMA StreamParts ==
  ASSUME RCTypeOK, NEW t \in Threads, at[t] # "idle"
  PROVE  /\ conn[t] \in Conns /\ Here(t) = inbox[conn[t]] /\ Stream(conn[t]) = Here(t) \o coming[conn[t]]
         /\ Here(t) \in Seq(Part) /\ coming[conn[t]] \in Seq(Part)
  BY InUse DEF Here, Stream

\* A part that arrives was already in the stream.
LEMMA DeliverStream ==
  ASSUME RCTypeOK, NEW c \in Conns, Deliver(c), NEW d \in Conns
  PROVE  Stream(d)' = Stream(d)
<1>1. CASE d # c
  BY <1>1 DEF Deliver, Stream, RCTypeOK
<1>2. CASE d = c
  <2> DEFINE s == inbox[c]
             u == coming[c]
  <2>1. /\ Stream(c) = s \o u /\ Stream(c)' = Append(s, Head(u)) \o Tail(u)
        /\ s \in Seq(Part) /\ u \in Seq(Part) /\ u # <<>>
    BY DEF Deliver, RCTypeOK, Stream
  <2> HIDE DEF s, u
  <2>2. Append(s, Head(u)) \o Tail(u) = s \o u
    BY <2>1
  <2> QED BY <1>2, <2>1, <2>2
<1> QED BY <1>1, <1>2

\* Reading n parts of the reply that is on its way.
LEMMA Advance ==
  ASSUME RCTypeOK, NEW t \in Threads, at[t] # "idle", NEW n \in 0..Len(Here(t)),
         NEW next, Reads(t, n, next),
         NEW r \in Seq(Part), NEW k \in Nat, Remains(Stream(conn[t]), r, k)
  PROVE  Remains(Stream(conn[t])', r, k + n) /\ conn'[t] = conn[t]
<1>1. Remains(Rest(Here(t), n) \o coming[conn[t]], r, k + n)
  BY StreamParts, Join
<1>2. conn' = conn /\ inbox'[conn[t]] = Rest(Here(t), n) /\ coming'[conn[t]] = coming[conn[t]]
  BY StreamParts DEF Reads, RCTypeOK, poolVars
<1> QED BY <1>1, <1>2 DEF Stream

\* What has arrived is part of the reply, and nobody else's.
LEMMA Arrived ==
  ASSUME RCTypeOK, NEW t \in Threads, at[t] # "idle",
         NEW r \in Seq(Part), Whole(r), NEW k \in Nat, Remains(Stream(conn[t]), r, k)
  PROVE  /\ Len(Here(t)) \in Nat /\ Len(Here(t)) + k <= Len(r)
         /\ \A i \in 1..Len(Here(t)) : Here(t)[i] = r[i + k] /\ Here(t)[i].own
<1> DEFINE s == Here(t)
           u == coming[conn[t]]
<1>1. s \in Seq(Part) /\ u \in Seq(Part) /\ Remains(s \o u, r, k)
  BY StreamParts
<1> HIDE DEF s, u
<1>2. /\ Len(s) \in Nat /\ Len(u) \in Nat /\ Len(s) + Len(u) + k = Len(r)
      /\ \A i \in 1..Len(s) : s[i] = r[i + k]
  BY <1>1, Split
<1>3. Len(s) + k <= Len(r)
  BY <1>2
<1>4. ASSUME NEW i \in 1..Len(s) PROVE s[i] = r[i + k] /\ i + k \in 1..Len(r)
  BY <1>2, <1>3
<1>5. \A i \in 1..Len(s) : s[i] = r[i + k] /\ s[i].own
  BY <1>4 DEF Whole
<1> QED BY <1>2, <1>3, <1>5 DEF s

\* The line that readLine takes ends where the reply's next line does.
LEMMA LineAt ==
  ASSUME RCTypeOK, NEW t \in Threads, at[t] # "idle", LineHere(t),
         NEW r \in Seq(Part), Whole(r), NEW k \in Nat, Remains(Stream(conn[t]), r, k),
         NEW m \in Nat, m >= 1, EndsLine(r[m + k]), \A i \in 1..(m - 1) : ~EndsLine(r[i + k])
  PROVE  LineLen(t) = m /\ m \in 0..Len(Here(t))
<1> DEFINE n == LineLen(t)
           s == Here(t)
<1>1. n \in 1..Len(s) /\ EndsLine(s[n]) /\ \A i \in 1..(n - 1) : ~EndsLine(s[i])
  BY StreamParts, LineLenIs
<1>2. Len(s) \in Nat /\ \A i \in 1..Len(s) : s[i] = r[i + k]
  BY Arrived
<1> HIDE DEF n, s
<1>3. ~(n < m)
  <2>1. n \in 1..(m - 1) => ~EndsLine(s[n])
    BY <1>1, <1>2
  <2> QED BY <1>1, <1>2, <2>1
<1>4. ~(m < n)
  <2>1. m < n => m \in 1..(n - 1) /\ m \in 1..Len(s)
    BY <1>1, <1>2
  <2> QED BY <1>1, <1>2, <2>1
<1>5. n = m /\ m \in 0..Len(s)
  BY <1>1, <1>2, <1>3, <1>4
<1> QED BY <1>5 DEF n, s

\* A command that returns with the whole reply read leaves the connection clean.
LEMMA Finish ==
  ASSUME RCTypeOK, NEW t \in Threads, at[t] # "idle", NEW n \in 0..Len(Here(t)),
         NEW ok, Returns(t, ok, Own(t, n), Rest(Here(t), n)),
         NEW r \in Seq(Part), NEW k \in Nat, Remains(Stream(conn[t]), r, k), k + n = Len(r)
  PROVE  Stream(conn[t])' = <<>> /\ conn'[t] = conn[t]
<1>1. Rest(Here(t), n) = <<>> /\ coming[conn[t]] = <<>> /\ <<>> \in Seq(Part)
  <2> DEFINE s == Here(t)
             u == coming[conn[t]]
  <2>1. s \in Seq(Part) /\ u \in Seq(Part) /\ Remains(s \o u, r, k) /\ n \in 0..Len(s)
    BY StreamParts
  <2> HIDE DEF s, u
  <2>2. Rest(s, n) = <<>> /\ u = <<>>
    BY <2>1, Join
  <2> QED BY <2>2 DEF s, u
<1>2. /\ conn' = conn /\ inbox'[conn[t]] = Stale(Rest(Here(t), n))
      /\ coming'[conn[t]] = Stale(coming[conn[t]])
  BY StreamParts DEF Returns, RCTypeOK, poolVars
<1>3. inbox'[conn[t]] = <<>> /\ coming'[conn[t]] = <<>>
  BY <1>1, <1>2, StaleIs
<1> QED BY <1>2, <1>3, NothingLeft DEF Stream

-----------------------------------------------------------------------------
(* Every command reads its reply, and all of it *)

\* What a thread may be reading is a reply, all of it its own.
LEMMA PossibleIs ==
  ASSUME RCTypeOK, PlaceInv, NEW t \in Threads, at[t] \in Midway, NEW r \in Possible(t)
  PROVE  r \in Seq(Part) /\ Whole(r) /\ Taken(t) \in Nat
<1>1. \E x \in Methods : r \in Replies(x)
  <2>1. CASE at[t] \in {"line", "type"}
    BY <2>1 DEF Possible, RCTypeOK
  <2>2. CASE at[t] \notin {"line", "type"}
    <3>1. r \in {Error, Bulk, Null, Empty, Fields}
      BY <2>2 DEF Possible
    <3>2. Error \in Replies("GET") /\ Bulk \in Replies("GET") /\ Null \in Replies("GET")
      BY DEF Replies, Null
    <3>3. Empty \in Replies("HGETALL") /\ Fields \in Replies("HGETALL")
      BY DEF Replies, Empty, Fields
    <3> QED BY <3>1, <3>2, <3>3 DEF Methods
  <2> QED BY <2>1, <2>2
<1>2. Taken(t) \in Nat
  <2>1. left[t] \in 0..2
    BY DEF RCTypeOK
  <2>2. at[t] \in {"line", "type", "rest", "length", "count", "data", "fieldType", "fieldLength", "fieldData"}
    BY DEF Midway, Places
  <2>3. CASE at[t] \in {"fieldType", "fieldLength", "fieldData"}
    <3>1. Taken(t) \in {8 - 3 * left[t], 9 - 3 * left[t], 10 - 3 * left[t]}
      BY <2>3 DEF Taken
    <3> QED BY <2>1, <3>1
  <2>4. CASE at[t] \in {"line", "type", "rest", "length", "count", "data"}
    BY <2>4 DEF Taken
  <2> QED BY <2>2, <2>3, <2>4
<1> QED BY <1>1, <1>2, ReplyIs

\* While what is left is of a thread's own reply, so is what it reads next.
LEMMA OwnIs ==
  ASSUME RCTypeOK, NEW t \in Threads, at[t] # "idle", answer[t].own,
         NEW r \in Seq(Part), Whole(r), NEW k \in Nat, Remains(Stream(conn[t]), r, k),
         NEW n \in 0..Len(Here(t))
  PROVE  Own(t, n)
<1>1. \A i \in 1..n : i \in 1..Len(Here(t))
  BY Arrived
<1> QED BY <1>1, Arrived DEF Own

\* Reading changes in the answer only whether it is the thread's own.
LEMMA ReadsAnswer ==
  ASSUME RCTypeOK, NEW t \in Threads, at[t] # "idle", NEW n \in 0..Len(Here(t)), NEW next,
         Reads(t, n, next)
  PROVE  /\ answer'[t].own <=> Own(t, n)
         /\ answer'[t].ok = answer[t].ok /\ answer'[t].dirty = answer[t].dirty
<1> DEFINE d == Own(t, n)
<1>1. d \in BOOLEAN /\ answer' = [answer EXCEPT ![t].own = d]
  BY OwnType DEF Reads
<1>2. answer \in [Threads -> Answer]
  BY DEF RCTypeOK, Answer
<1> HIDE DEF d
<1>3. answer'[t] = [answer[t] EXCEPT !.own = d] /\ answer[t] \in Answer
  BY <1>1, <1>2
<1>4. answer'[t].own = d /\ answer'[t].ok = answer[t].ok /\ answer'[t].dirty = answer[t].dirty
  BY <1>3 DEF Answer
<1> QED BY <1>4 DEF d

\* A thread that has read Taken(t) parts of its reply reads on, or has read it all.
LEMMA CleanRead ==
  ASSUME RCTypeOK, RCTypeOK', PlaceInv, NEW t \in Threads,
         answer[t].own, ~answer[t].ok,
         NEW r \in Possible(t), Remains(Stream(conn[t]), r, Taken(t)),
         ReadLine(t) \/ ReadType(t) \/ ReadRest(t) \/ ReadLength(t) \/ ReadData(t)
           \/ ReadCount(t) \/ ReadFieldType(t) \/ ReadFieldData(t)
  PROVE  /\ answer'[t].own
         /\ \/ at'[t] = "release" /\ Stream(conn[t])' = <<>>
            \/ /\ at'[t] \in Midway /\ ~answer'[t].ok
               /\ r \in Possible(t)' /\ Remains(Stream(conn[t])', r, Taken(t)')
<1>0. at[t] \in Midway /\ at[t] # "idle"
  BY Shapes DEF Midway
<1>1. r \in Seq(Part) /\ Whole(r) /\ Taken(t) \in Nat
  BY <1>0, PossibleIs
<1>2. ASSUME NEW n \in 0..Len(Here(t)), NEW ok,
             Returns(t, ok, Own(t, n), Rest(Here(t), n)), Taken(t) + n = Len(r)
      PROVE  answer'[t].own /\ at'[t] = "release" /\ Stream(conn[t])' = <<>>
  <2>1. Stream(conn[t])' = <<>>
    BY <1>0, <1>1, <1>2, Finish
  <2>2. Own(t, n)
    BY <1>0, <1>1, OwnIs
  <2>3. answer' = [answer EXCEPT ![t] = [ok |-> ok, own |-> Own(t, n), dirty |-> answer[t].dirty]]
    BY <1>2, ReturnsAnswer
  <2>4. answer'[t].own
    BY <2>2, <2>3 DEF RCTypeOK
  <2>5. at'[t] = "release"
    BY <1>2 DEF Returns, RCTypeOK
  <2> QED BY <2>1, <2>4, <2>5
<1>3. ASSUME NEW n \in 0..Len(Here(t)), NEW next \in Midway, Reads(t, n, next),
             r \in Possible(t)', Taken(t)' = Taken(t) + n
      PROVE  /\ answer'[t].own /\ at'[t] \in Midway /\ ~answer'[t].ok
             /\ r \in Possible(t)' /\ Remains(Stream(conn[t])', r, Taken(t)')
  <2>1. Remains(Stream(conn[t])', r, Taken(t) + n)
    BY <1>0, <1>1, <1>3, Advance
  <2>2. Own(t, n)
    BY <1>0, <1>1, OwnIs
  <2>3. answer'[t].own /\ ~answer'[t].ok
    BY <1>0, <1>3, <2>2, ReadsAnswer
  <2>4. at'[t] \in Midway
    BY <1>3 DEF Reads, RCTypeOK
  <2> QED BY <1>3, <2>1, <2>3, <2>4
<1>4. /\ Len(Here(t)) \in Nat /\ Len(Here(t)) + Taken(t) <= Len(r)
      /\ \A i \in 1..Len(Here(t)) : Here(t)[i] = r[i + Taken(t)]
  BY <1>0, <1>1, Arrived
<1>5. Here(t) # <<>> => 1 \in 0..Len(Here(t)) /\ Here(t)[1] = r[1 + Taken(t)]
  BY <1>0, <1>4, StreamParts
<1>6. at \in [Threads -> Places] /\ left \in [Threads -> 0..2] /\ cmd \in [Threads -> Methods]
  BY DEF RCTypeOK
<1>7. \A n, next : Reads(t, n, next) => at'[t] = next /\ cmd'[t] = cmd[t]
  BY <1>6 DEF Reads
<1>8. ASSUME LineHere(t), EndsLine(r[1 + Taken(t)])
      PROVE  LineLen(t) = 1 /\ 1 \in 0..Len(Here(t)) /\ Here(t)[1] = r[1 + Taken(t)]
  <2>1. LineLen(t) = 1 /\ 1 \in 0..Len(Here(t))
    BY <1>0, <1>1, <1>8, LineAt
  <2> QED BY <1>4, <2>1
<1>9. CASE ReadLine(t)
  <2>1. at[t] = "line" /\ LineHere(t) /\ r \in Replies(cmd[t]) /\ Taken(t) = 0
        /\ FirstRead(cmd[t]) = "line"
    BY <1>9 DEF ReadLine, Possible, Taken, PlaceInv
  <2>2. Len(r) = 2 /\ ~EndsLine(r[1]) /\ EndsLine(r[2])
    BY <1>6, <2>1, ReplyIs
  <2>3. LineLen(t) = 2 /\ 2 \in 0..Len(Here(t))
    BY <1>0, <1>1, <2>1, <2>2, LineAt
  <2>4. \E ok : Returns(t, ok, Own(t, 2), Rest(Here(t), 2))
    BY <1>9, <2>3 DEF ReadLine
  <2> QED BY <1>2, <2>1, <2>2, <2>3, <2>4
<1>10. CASE ReadType(t)
  <2>1. at[t] = "type" /\ Here(t) # <<>> /\ r \in Replies(cmd[t]) /\ Taken(t) = 0
        /\ FirstRead(cmd[t]) = "type"
    BY <1>10 DEF ReadType, Possible, Taken, PlaceInv
  <2>2. Here(t)[1] = r[1] /\ 1 \in 0..Len(Here(t))
    BY <1>5, <2>1
  <2>3. /\ r[1].k = "type"
        /\ \/ r = Error /\ r[1].v # Wanted(cmd[t])
           \/ cmd[t] = "HGETALL" /\ r \in {Fields, Empty}
           \/ cmd[t] # "HGETALL" /\ r \in {Bulk, Null}
    BY <1>6, <2>1, ReplyIs
  <2>4. CASE Here(t)[1].v = Wanted(cmd[t])
    <3> DEFINE next == IF cmd[t] = "HGETALL" THEN "count" ELSE "length"
    <3>1. Reads(t, 1, next) /\ next \in Midway
      BY <1>10, <2>4 DEF ReadType, Midway, Places
    <3>2. at'[t] = next
      BY <1>7, <3>1
    <3>3. r \in Possible(t)' /\ Taken(t)' = 1
      BY <2>2, <2>3, <2>4, <3>2 DEF Possible, Taken
    <3> QED BY <1>3, <2>1, <2>2, <3>1, <3>3
  <2>5. CASE Here(t)[1].v # Wanted(cmd[t])
    <3>1. CharParts(t) = 1
      BY <2>2, <2>3 DEF CharParts
    <3>2. Reads(t, 1, "rest") /\ "rest" \in Midway
      BY <1>10, <2>5, <3>1 DEF ReadType, Midway, Places
    <3>3. at'[t] = "rest" /\ r = Error
      BY <1>7, <2>2, <2>3, <2>5, <3>2, Parts DEF Wanted, Type
    <3>4. r \in Possible(t)' /\ Taken(t)' = 1
      BY <3>3 DEF Possible, Taken
    <3> QED BY <1>3, <2>1, <2>2, <3>2, <3>4
  <2> QED BY <2>4, <2>5
<1>11. CASE ReadRest(t)
  <2>1. at[t] = "rest" /\ LineHere(t) /\ r = Error /\ Taken(t) = 1
    BY <1>11 DEF ReadRest, Possible, Taken
  <2>2. LineLen(t) = 1 /\ 1 \in 0..Len(Here(t))
    BY <1>8, <2>1, Parts DEF EndsLine, Line
  <2>3. Returns(t, FALSE, Own(t, 1), Rest(Here(t), 1))
    BY <1>11, <2>2 DEF ReadRest
  <2>4. Taken(t) + 1 = Len(r)
    BY <2>1, Parts
  <2> QED BY <1>2, <2>2, <2>3, <2>4
<1>12. CASE ReadLength(t)
  <2>1. CASE at[t] = "length"
    <3>1. LineHere(t) /\ r \in {Bulk, Null} /\ Taken(t) = 1
      BY <1>12, <2>1 DEF ReadLength, Possible, Taken
    <3>2. LineLen(t) = 1 /\ 1 \in 0..Len(Here(t)) /\ Here(t)[1] = r[2]
      BY <1>8, <3>1, Parts DEF EndsLine, Line
    <3>3. CASE r = Bulk
      <4>1. Reads(t, 1, "data") /\ "data" \in Midway
        BY <1>12, <2>1, <3>2, <3>3, Parts DEF ReadLength, Line, Midway, Places
      <4>2. r \in Possible(t)' /\ Taken(t)' = 2
        BY <1>7, <3>3, <4>1 DEF Possible, Taken
      <4> QED BY <1>3, <3>1, <3>2, <4>1, <4>2
    <3>4. CASE r = Null
      <4>0. Here(t)[1].v # "length"
        BY <3>2, <3>4, Parts DEF Line
      <4>1. ~(LineLen(t) = 1 /\ Here(t)[1].v = "length")
        BY <4>0
      <4>2. Returns(t, FALSE, Own(t, LineLen(t)), Rest(Here(t), LineLen(t)))
        BY <1>12, <4>1, Zenon DEF ReadLength
      <4>3. LineLen(t) \in 0..Len(Here(t)) /\ Taken(t) + LineLen(t) = Len(r)
        BY <3>1, <3>2, <3>4, Parts
      <4> QED BY <1>2, <4>2, <4>3
    <3> QED BY <3>1, <3>3, <3>4
  <2>2. CASE at[t] = "fieldLength"
    <3>1. LineHere(t) /\ r = Fields /\ Taken(t) = 9 - 3 * left[t] /\ left[t] \in {1, 2}
      BY <1>6, <1>12, <2>2 DEF ReadLength, Possible, Taken, PlaceInv
    <3>2. r[1 + Taken(t)] = Line("length")
      <4>1. 1 + Taken(t) \in {3 + 1, 6 + 1}
        BY <3>1
      <4> QED BY <3>1, <4>1, Parts
    <3>3. LineLen(t) = 1 /\ 1 \in 0..Len(Here(t)) /\ Here(t)[1] = Line("length")
      BY <1>8, <3>1, <3>2 DEF EndsLine, Line
    <3>4. Reads(t, 1, "fieldData") /\ left' = left /\ "fieldData" \in Midway
      BY <1>12, <2>2, <3>3 DEF ReadLength, Line, Midway, Places
    <3>5. r \in Possible(t)' /\ Taken(t)' = 10 - 3 * left[t]
      BY <1>7, <3>1, <3>4 DEF Possible, Taken
    <3>6. Taken(t)' = Taken(t) + 1
      BY <3>1, <3>5
    <3> QED BY <1>3, <3>3, <3>4, <3>5, <3>6
  <2> QED BY <1>12, <2>1, <2>2 DEF ReadLength
<1>13. CASE ReadData(t)
  <2>1. at[t] = "data" /\ Here(t) # <<>> /\ r = Bulk /\ Taken(t) = 2
    BY <1>13 DEF ReadData, Possible, Taken
  <2>2. Returns(t, TRUE, Own(t, 1), Rest(Here(t), 1))
    BY <1>13 DEF ReadData
  <2>3. Taken(t) + 1 = Len(r)
    BY <2>1, Parts
  <2> QED BY <1>2, <1>5, <2>1, <2>2, <2>3
<1>14. CASE ReadCount(t)
  <2>1. at[t] = "count" /\ LineHere(t) /\ r \in {Fields, Empty} /\ Taken(t) = 1
    BY <1>14 DEF ReadCount, Possible, Taken
  <2>2. LineLen(t) = 1 /\ 1 \in 0..Len(Here(t)) /\ Here(t)[1] = r[2]
    BY <1>8, <2>1, Parts DEF EndsLine, Line
  <2>3. CASE r = Fields
    <3>1. Reads(t, 1, "fieldType") /\ left'[t] = 2 /\ "fieldType" \in Midway
      BY <1>6, <1>14, <2>2, <2>3, Parts DEF ReadCount, Line, Midway, Places
    <3>2. r \in Possible(t)' /\ Taken(t)' = 8 - 3 * 2
      BY <1>7, <2>3, <3>1 DEF Possible, Taken
    <3> QED BY <1>3, <2>1, <2>2, <3>1, <3>2
  <2>4. CASE r = Empty
    <3>0. Here(t)[1].v = "0"
      BY <2>2, <2>4, Parts DEF Line
    <3>1. \E ok : Returns(t, ok, Own(t, 1), Rest(Here(t), 1))
      BY <1>14, <2>2, <3>0 DEF ReadCount
    <3> QED BY <1>2, <2>1, <2>2, <2>4, <3>1, Parts
  <2> QED BY <2>1, <2>3, <2>4
<1>15. CASE ReadFieldType(t)
  <2>1. at[t] = "fieldType" /\ Here(t) # <<>> /\ r = Fields /\ Taken(t) = 8 - 3 * left[t]
        /\ left[t] \in {1, 2}
    BY <1>6, <1>15 DEF ReadFieldType, Possible, Taken, PlaceInv
  <2>2. r[1 + Taken(t)] = Type("$")
    <3>1. 1 + Taken(t) \in {3, 6}
      BY <2>1
    <3> QED BY <2>1, <3>1, Parts
  <2>3. CharParts(t) = 1
    BY <1>5, <2>1, <2>2 DEF CharParts, Type
  <2>4. Reads(t, 1, "fieldLength") /\ left' = left /\ "fieldLength" \in Midway
    BY <1>15, <2>3 DEF ReadFieldType, Midway, Places
  <2>5. r \in Possible(t)' /\ Taken(t)' = 9 - 3 * left[t]
    BY <1>7, <2>1, <2>4 DEF Possible, Taken
  <2>6. Taken(t)' = Taken(t) + 1
    BY <2>1, <2>5
  <2> QED BY <1>3, <1>5, <2>1, <2>4, <2>5, <2>6
<1>16. CASE ReadFieldData(t)
  <2>1. at[t] = "fieldData" /\ Here(t) # <<>> /\ r = Fields /\ Taken(t) = 10 - 3 * left[t]
        /\ left[t] \in {1, 2}
    BY <1>6, <1>16 DEF ReadFieldData, Possible, Taken, PlaceInv
  <2>2. CASE left[t] > 1
    <3>1. Reads(t, 1, "fieldType") /\ left'[t] = 1 /\ "fieldType" \in Midway
      BY <1>6, <1>16, <2>1, <2>2 DEF ReadFieldData, Midway, Places
    <3>2. r \in Possible(t)' /\ Taken(t)' = 8 - 3 * 1
      BY <1>7, <2>1, <3>1 DEF Possible, Taken
    <3>3. Taken(t)' = Taken(t) + 1
      BY <2>1, <2>2, <3>2
    <3> QED BY <1>3, <1>5, <2>1, <3>1, <3>2, <3>3
  <2>3. CASE left[t] = 1
    <3>1. Returns(t, TRUE, Own(t, 1), Rest(Here(t), 1))
      <4>1. ~(left[t] > 1)
        BY <2>3
      <4> QED BY <1>16, <4>1 DEF ReadFieldData
    <3>2. Taken(t) + 1 = Len(r)
      BY <2>1, <2>3, Parts
    <3> QED BY <1>2, <1>5, <2>1, <3>1, <3>2
  <2> QED BY <2>1, <2>2, <2>3
<1> QED BY <1>9, <1>10, <1>11, <1>12, <1>13, <1>14, <1>15, <1>16

\* A step of one thread does not disturb what another is reading.
LEMMA Bystander ==
  ASSUME PoolInv, NEW t \in Threads, ThreadStep(t), NEW u \in Threads \ {t}, ReplyOf(u)
  PROVE  ReplyOf(u)'
<1>1. /\ at'[u] = at[u] /\ cmd'[u] = cmd[u] /\ left'[u] = left[u]
      /\ answer'[u] = answer[u] /\ conn'[u] = conn[u]
  BY Frame DEF PoolInv
<1>2. Possible(u)' = Possible(u) /\ Taken(u)' = Taken(u)
  BY <1>1 DEF Possible, Taken
<1>3. CASE at[u] \in Midway \cup {"send"}
  <2>1. conn[u] \in Conns \ {conn[t]}
    <3>1. at[u] # "idle" /\ at[t] # "idle"
      BY <1>3, Frame DEF Midway, PoolInv
    <3> QED BY <3>1, InUse, PoolAssumption DEF PoolInv, OneHolder
  <2>2. /\ inbox'[conn[u]] = inbox[conn[u]] /\ coming'[conn[u]] = coming[conn[u]]
        /\ conn[u] \in dirty' <=> conn[u] \in dirty
    BY <2>1, Frame DEF PoolInv
  <2>3. Stream(conn[u])' = Stream(conn[u])
    BY <1>1, <2>2 DEF Stream
  <2> QED BY <1>1, <1>2, <2>2, <2>3 DEF ReplyOf
<1>4. CASE at[u] \notin Midway \cup {"send"}
  BY <1>1, <1>4 DEF ReplyOf
<1> QED BY <1>3, <1>4

\* What a connection is like that is put to use.
LEMMA SendClean ==
  ASSUME PoolInv, StreamInv, NEW t \in Threads, at[t] = "send", conn[t] \notin dirty
  PROVE  inbox[conn[t]] = <<>> /\ coming[conn[t]] = <<>>
<1>1. conn[t] \in Conns /\ inbox[conn[t]] \in Seq(Part) /\ coming[conn[t]] \in Seq(Part)
  BY InUse DEF PoolInv, RCTypeOK
<1>2. Stream(conn[t]) = <<>>
  BY <1>1, PoolAssumption DEF StreamInv, CleanAt, PoolInv, OneHolder, Midway
<1> QED BY <1>1, <1>2, NothingLeft DEF Stream

\* A thread's own step keeps what is said of it, and of its connection.
LEMMA Actor ==
  ASSUME PoolInv, PoolInv', StreamInv, NEW t \in Threads, ThreadStep(t),
         NEW c \in Conns, c = conn[t]
  PROVE  /\ ReplyOf(t)'
         /\ c \in dirty' \/ inbox'[c] \o coming'[c] = <<>> \/ (conn'[t] = c /\ at'[t] \in Midway)
<1>0. /\ RCTypeOK /\ RCTypeOK' /\ PlaceInv /\ ReplyOf(t)
      /\ at \in [Threads -> Places] /\ conn \in [Threads -> Conns \cup {NoConn}]
      /\ inbox[c] \in Seq(Part) /\ coming[c] \in Seq(Part)
      /\ answer \in [Threads -> [ok : BOOLEAN, own : BOOLEAN, dirty : BOOLEAN]]
  BY DEF PoolInv, StreamInv, RCTypeOK
<1>1. ASSUME Disconnected(c) PROVE inbox'[c] \o coming'[c] = <<>>
  BY <1>0, <1>1, NothingLeft DEF Disconnected, RCTypeOK
<1>2. CASE release(t)
  <2>1. at'[t] = "idle" /\ answer'[t] = NoAnswer
    BY <1>0, <1>2 DEF release, Idle
  <2>2. at[t] = "release" /\ (Disconnected(c) \/ UNCHANGED socketVars)
    BY <1>2 DEF release
  <2>3. c \in dirty \/ Stream(c) = <<>>
    BY <2>2, PoolAssumption DEF StreamInv, CleanAt, PoolInv, OneHolder, Midway
  <2> QED BY <1>1, <2>1, <2>2, <2>3 DEF ReplyOf, NoAnswer, Midway, socketVars, Stream
<1>3. CASE SendFails(t) \/ TimeOut(t)
  <2>1. at'[t] = "release" /\ Disconnected(c) /\ answer' = answer
    BY <1>0, <1>3 DEF SendFails, TimeOut
  <2>2. at[t] \in Midway \cup {"send"}
    BY <1>3 DEF SendFails, TimeOut, Starved, Midway, Places
  <2>3. ~answer[t].ok
    BY <1>0, <2>2 DEF ReplyOf, Midway
  <2> QED BY <1>1, <2>1, <2>3 DEF ReplyOf, Midway
<1>4. CASE TimeOutInField(t)
  <2>1. at'[t] = "release" /\ c \in dirty' /\ answer' = answer /\ at[t] = "fieldType"
    BY <1>0, <1>4 DEF TimeOutInField
  <2> QED BY <1>0, <2>1 DEF ReplyOf, Midway
<1>5. CASE sendCommand(t)
  <2>1. PICK r \in Replies(cmd[t]) : coming' = [coming EXCEPT ![conn[t]] = @ \o r]
    BY <1>5 DEF sendCommand
  <2>2. /\ at[t] = "send" /\ at'[t] = FirstRead(cmd[t]) /\ conn' = conn /\ cmd' = cmd
        /\ answer' = answer /\ dirty' = dirty /\ inbox' = inbox /\ cmd[t] \in Methods
    BY <1>0, <1>5 DEF sendCommand, poolVars, RCTypeOK
  <2>3. at'[t] \in Midway /\ at'[t] \in {"line", "type"}
    BY <2>2 DEF FirstRead, Midway, Places
  <2>4. ASSUME c \notin dirty PROVE r \in Possible(t)' /\ Remains(Stream(conn[t])', r, Taken(t)')
    <3>1. inbox[c] = <<>> /\ coming[c] = <<>> /\ r \in Seq(Part)
      BY <2>1, <2>2, <2>4, SendClean, RepliesType
    <3>2. Stream(conn[t])' = <<>> \o (<<>> \o r)
      BY <1>0, <2>1, <2>2, <3>1 DEF Stream, RCTypeOK
    <3>3. Stream(conn[t])' = r
      BY <3>1, <3>2
    <3>4. r \in Possible(t)' /\ Taken(t)' = 0
      BY <2>1, <2>2, <2>3 DEF Possible, Taken
    <3>5. Remains(r, r, 0)
      BY <3>1 DEF Remains
    <3> QED BY <3>3, <3>4, <3>5
  <2>5. ~answer[t].ok /\ answer[t].own /\ (c \in dirty => answer[t].dirty)
    BY <1>0, <2>2 DEF ReplyOf
  <2> QED BY <2>2, <2>3, <2>4, <2>5 DEF ReplyOf, Midway
<1>6. CASE ReadLine(t) \/ ReadType(t) \/ ReadRest(t) \/ ReadLength(t) \/ ReadData(t)
             \/ ReadCount(t) \/ ReadFieldType(t) \/ ReadFieldData(t)
  <2>1. /\ at[t] \in Midway /\ at[t] # "idle" /\ at[t] # "release"
        /\ UNCHANGED <<poolVars, dirty>>
    BY <1>0, <1>6, Shapes DEF Midway, Returns, Reads
  <2>2. conn' = conn /\ dirty' = dirty /\ ~answer[t].ok
    BY <1>0, <2>1 DEF poolVars, ReplyOf
  <2>3. CASE c \notin dirty
    <3>1. PICK r \in Possible(t) : answer[t].own /\ Remains(Stream(conn[t]), r, Taken(t))
      BY <1>0, <2>1, <2>3 DEF ReplyOf
    <3>2. /\ answer'[t].own
          /\ \/ at'[t] = "release" /\ Stream(conn[t])' = <<>>
             \/ /\ at'[t] \in Midway /\ ~answer'[t].ok
                /\ r \in Possible(t)' /\ Remains(Stream(conn[t])', r, Taken(t)')
      BY <1>0, <1>6, <2>2, <3>1, CleanRead
    <3> QED BY <2>2, <2>3, <3>2 DEF ReplyOf, Midway, Stream
  <2>4. CASE c \in dirty
    <3>1. answer[t].dirty
      BY <1>0, <2>1, <2>4 DEF ReplyOf
    <3>2. PICK n \in 0..Len(Here(t)) :
            \/ \E ok \in BOOLEAN : Returns(t, ok, Own(t, n), Rest(Here(t), n))
            \/ \E next \in Midway : Reads(t, n, next)
      BY <1>0, <1>6, Shapes
    <3>3. CASE \E ok \in BOOLEAN : Returns(t, ok, Own(t, n), Rest(Here(t), n))
      <4>1. PICK ok \in BOOLEAN : Returns(t, ok, Own(t, n), Rest(Here(t), n))
        BY <3>3
      <4>2. answer' = [answer EXCEPT ![t] = [ok |-> ok, own |-> Own(t, n), dirty |-> answer[t].dirty]]
        BY <1>0, <4>1, ReturnsAnswer
      <4>3. answer'[t].dirty /\ at'[t] = "release"
        BY <1>0, <3>1, <4>1, <4>2 DEF Returns
      <4> QED BY <2>2, <2>4, <4>3 DEF ReplyOf, Midway
    <3>4. CASE \E next \in Midway : Reads(t, n, next)
      <4>1. PICK next \in Midway : Reads(t, n, next)
        BY <3>4
      <4>2. answer'[t].dirty /\ ~answer'[t].ok
        BY <1>0, <2>1, <2>2, <3>1, <4>1, ReadsAnswer
      <4>3. at'[t] \in Midway
        BY <1>0, <4>1 DEF Reads
      <4> QED BY <2>2, <2>4, <4>2, <4>3 DEF ReplyOf, Midway
    <3> QED BY <3>2, <3>3, <3>4
  <2> QED BY <2>3, <2>4
<1> QED BY <1>2, <1>3, <1>4, <1>5, <1>6 DEF ThreadStep

\* No step leaves StreamInv.
LEMMA StreamStep == PoolInv /\ PoolInv' /\ StreamInv /\ [RCNext]_rcVars => StreamInv'
<1> SUFFICES ASSUME PoolInv, PoolInv', StreamInv, [RCNext]_rcVars PROVE StreamInv'
  OBVIOUS
<1>1. ASSUME NEW t \in Threads, ThreadStep(t) PROVE StreamInv'
  <2>1. conn[t] \in Conns
    BY <1>1, Frame DEF PoolInv
  <2>2. ASSUME NEW u \in Threads PROVE ReplyOf(u)'
    BY <1>1, <2>1, Actor, Bystander DEF StreamInv
  <2>3. ASSUME NEW c \in Conns PROVE CleanAt(c)'
    <3>1. CASE c = conn[t]
      BY <1>1, <3>1, Actor DEF CleanAt, Stream
    <3>2. CASE c # conn[t]
      <4>1. /\ inbox'[c] = inbox[c] /\ coming'[c] = coming[c] /\ (c \in dirty' <=> c \in dirty)
            /\ \A u \in Threads \ {t} : at'[u] = at[u] /\ conn'[u] = conn[u]
        BY <1>1, <3>2, Frame DEF PoolInv
      <4>2. CleanAt(c)
        BY DEF StreamInv
      <4> QED BY <3>2, <4>1, <4>2 DEF CleanAt, Stream
    <3> QED BY <3>1, <3>2
  <2> QED BY <2>2, <2>3 DEF StreamInv
<1>2. ASSUME NEW t \in Threads, NEW x \in Commands, acquire(t, x) PROVE StreamInv'
  <2>1. PICK c \in Conns : /\ conn' = [conn EXCEPT ![t] = c]
                           /\ answer' = [answer EXCEPT ![t].dirty = c \in dirty]
    BY <1>2 DEF acquire
  <2>2. /\ at[t] = "idle" /\ at' = [at EXCEPT ![t] = "send"] /\ cmd' = [cmd EXCEPT ![t] = x]
        /\ UNCHANGED <<left, inbox, coming, dirty>>
    BY <1>2 DEF acquire
  <2>3. /\ at \in [Threads -> Places] /\ conn \in [Threads -> Conns \cup {NoConn}]
        /\ cmd \in [Threads -> Methods] /\ answer \in [Threads -> Answer]
    BY DEF PoolInv, RCTypeOK, Answer
  <2>4. ReplyOf(t)'
    <3>1. ~answer[t].ok /\ answer[t].own /\ answer[t] \in Answer
      BY <2>2, <2>3 DEF StreamInv, ReplyOf
    <3> DEFINE d == c \in dirty
    <3>2. d \in BOOLEAN /\ answer' = [answer EXCEPT ![t].dirty = d]
      BY <2>1
    <3> HIDE DEF d
    <3>3. answer'[t] = [answer[t] EXCEPT !.dirty = d]
      BY <2>3, <3>2
    <3>4. answer'[t].ok = answer[t].ok /\ answer'[t].own = answer[t].own /\ answer'[t].dirty = d
      BY <3>1, <3>3 DEF Answer
    <3>5. at'[t] = "send" /\ conn'[t] = c /\ dirty' = dirty
      BY <2>1, <2>2, <2>3
    <3> QED BY <3>1, <3>4, <3>5 DEF ReplyOf, Midway, d
  <2>5. ASSUME NEW u \in Threads \ {t} PROVE ReplyOf(u)'
    <3>1. /\ at'[u] = at[u] /\ cmd'[u] = cmd[u] /\ conn'[u] = conn[u] /\ answer'[u] = answer[u]
      BY <2>1, <2>2, <2>3
    <3>2. /\ Possible(u)' = Possible(u) /\ Taken(u)' = Taken(u)
          /\ Stream(conn[u])' = Stream(conn[u]) /\ dirty' = dirty
      BY <2>2, <3>1 DEF Possible, Taken, Stream
    <3>3. ReplyOf(u)
      BY DEF StreamInv
    <3> QED BY <3>1, <3>2, <3>3 DEF ReplyOf
  <2>6. ASSUME NEW d \in Conns PROVE CleanAt(d)'
    <3>1. CleanAt(d)
      BY DEF StreamInv
    <3>2. \A u \in Threads : at[u] \in Midway => at'[u] \in Midway /\ conn'[u] = conn[u]
      BY <2>1, <2>2, <2>3 DEF Midway
    <3> QED BY <2>2, <3>1, <3>2 DEF CleanAt, Stream
  <2> QED BY <2>4, <2>5, <2>6 DEF StreamInv
<1>3. ASSUME NEW c \in Conns, Deliver(c) PROVE StreamInv'
  <2>1. UNCHANGED <<conn, cmd, at, left, answer, dirty>>
    BY <1>3 DEF Deliver, poolVars, threadVars
  <2>2. \A d \in Conns : Stream(d)' = Stream(d)
    BY <1>3, DeliverStream DEF PoolInv
  <2>3. ASSUME NEW u \in Threads PROVE ReplyOf(u)'
    <3>1. ReplyOf(u) /\ Possible(u)' = Possible(u) /\ Taken(u)' = Taken(u)
      BY <2>1 DEF StreamInv, Possible, Taken
    <3>2. at[u] \in Midway => Stream(conn[u])' = Stream(conn[u])
      <4>1. at[u] \in Midway => conn[u] \in Conns
        BY InUse DEF Midway, PoolInv
      <4> QED BY <2>1, <2>2, <4>1 DEF Stream
    <3> QED BY <2>1, <3>1, <3>2 DEF ReplyOf
  <2>4. ASSUME NEW d \in Conns PROVE CleanAt(d)'
    BY <2>1, <2>2 DEF StreamInv, CleanAt
  <2> QED BY <2>3, <2>4 DEF StreamInv
<1>4. CASE UNCHANGED rcVars
  BY <1>4 DEF rcVars, poolVars, threadVars, socketVars, StreamInv, ReplyOf, CleanAt, Stream,
     Possible, Taken
<1> QED BY <1>1, <1>2, <1>3, <1>4 DEF RCNext

\* What a thread reads is its own reply, for ever.
LEMMA StreamCorrect == RCSpec => [](PoolInv /\ StreamInv)
<1>1. RCInit => StreamInv
  <2>1. <<>> \o <<>> = <<>>
    OBVIOUS
  <2> QED BY <2>1 DEF RCInit, StreamInv, ReplyOf, CleanAt, Stream, NoAnswer, Midway
<1> QED BY <1>1, PoolCorrect, StreamStep, PTL DEF RCSpec

\* A command leaves its connection closed or with nothing of its reply unread,
\* whatever the reply and wherever reading stops; only hgetall giving up between
\* two fields does not (readLine, readBytes, readBulkString, hgetall).
THEOREM PoolCleanCorrect == RCSpec => []PoolClean
<1>1. PoolInv /\ StreamInv => PoolClean
  <2> SUFFICES ASSUME PoolInv, StreamInv, NEW c \in Conns
               PROVE  \/ c \in dirty
                      \/ \E t \in Threads : conn[t] = c /\ at[t] \notin {"send", "release"}
                      \/ inbox[c] = <<>> /\ coming[c] = <<>>
    BY DEF PoolClean
  <2>1. inbox[c] \in Seq(Part) /\ coming[c] \in Seq(Part)
    BY DEF PoolInv, RCTypeOK
  <2>2. CleanAt(c)
    BY DEF StreamInv
  <2> QED BY <2>1, <2>2, NothingLeft DEF CleanAt, Stream, Midway
<1> QED BY <1>1, StreamCorrect, PTL

\* A command that succeeds has read the reply to itself, on whichever connection
\* of the pool, unless an hgetall that gave up used that connection before
\* (ping, set, get, del, hset, hget, hgetall).
THEOREM OwnReplyCorrect == RCSpec => []OwnReply
<1>1. StreamInv => OwnReply
  BY DEF StreamInv, ReplyOf, OwnReply
<1> QED BY <1>1, StreamCorrect, PTL

=============================================================================
