------------------------------ MODULE Simulator ------------------------------
(***************************************************************************)
(* The load simulator (simulator/src) against the connection handler of    *)
(* the server (Server::handleClient): bots connect, JOIN, act until told   *)
(* to stop, LEAVE, and report every request to one collector.  Between     *)
(* them are two byte streams, read in pieces cut anywhere and broken off   *)
(* at any byte.  The server has Workers threads, each of which stays with  *)
(* one connection until that connection ends.                              *)
(*                                                                         *)
(* A byte carries the number of the request its frame belongs to (of), as  *)
(* history; the program sees its value (v) only.  What the request does in *)
(* the server is kept to membership in the game and the reply's status and *)
(* size: health is left out, so any hit may eliminate.  GameState and      *)
(* RequestHandler have the rest.                                           *)
(*                                                                         *)
(* A definition named X_slip, just before X, is a plausible slip in the    *)
(* code X models; no specification uses it.                                *)
(***************************************************************************)
EXTENDS MessageFramer, FiniteSetsExt, SequencesExt

CONSTANTS
  Bots,           \* the player ids, a set of numbers
  Ghosts,         \* the players an earlier run has left in the game
  Workers,        \* threads of the server's pool
  Breakable,      \* the bots whose connection may break
  Actions,        \* what a bot does between JOIN and LEAVE
  MaxActions,     \* MaxActions[b]: how often, until durationSeconds are over
  TEXT,           \* the value of a byte of JSON text
  LargeReply      \* size of a GET_STATE reply with many players in it

ASSUME SimulatorAssumption ==
  /\ TEXT \in 0..BYTE - 1 /\ LargeReply \in U32
  /\ Actions \cap {"JOIN", "LEAVE"} = {}

\* Text read as a length is too large: JSON's characters are above 31, and four of
\* them make a length far above one MiB.
ASSUME TextAssumption == readU32LE([i \in 1..HEADER_SIZE |-> TEXT]) > MAX_MESSAGE_SIZE

VARIABLES
  botAt,          \* where the thread of each bot is
  asked,          \* asked[b]: the actions b has sent, in order (history)
  out,            \* out[b]: what writeAll has still to write
  got,            \* got[b]: what b has read of the reply's frame
  m_localMetrics, \* m_localMetrics[b]: one record for each request
  servedAt,       \* where the server is with the connection of each bot
  reading,        \* reading[b]: what the server has read of the request's frame
  writing,        \* writing[b]: what it has still to write of the reply
  handled,        \* handled[b]: was the reply "ok", for each dispatched request
  players,        \* the players in the game
  toServer, toBot,\* the bytes in flight
  cut,            \* the connections that are closed or broken
  m_stopFlag,
  m_metrics,      \* the collector
  summary         \* what Simulator::run returned

botVars == <<botAt, asked, out, got, m_localMetrics>>
serverVars == <<servedAt, reading, writing, handled, players>>
streamVars == <<toServer, toBot, cut>>
mainVars == <<m_stopFlag, m_metrics, summary>>
simVars == <<botVars, serverVars, streamVars, mainVars>>

-----------------------------------------------------------------------------
(* Frames and streams *)

Frame(r, size) ==
  LET bytes == encode([i \in 1..size |-> TEXT])
  IN  [i \in 1..Len(bytes) |-> [v |-> bytes[i], of |-> r]]
Values(bytes) == [i \in 1..Len(bytes) |-> bytes[i].v]

First(s, n) == SubSeq(s, 1, n)
Rest(s, n) == SubSeq(s, n + 1, Len(s))

\* Bytes sent into a broken connection are gone.
Sent(b, bytes, stream) ==
  IF b \in cut THEN stream ELSE [stream EXCEPT ![b] = @ \o bytes]

\* recv() in readExact: what is there, no more than is missing of the frame.
Pieces(buf, stream) == 1..Min({Missing(Values(buf)), Len(stream)})

-----------------------------------------------------------------------------
(* PlayerBot::sendAndReceive *)

FailedRequest == 0
OversizeReply == -1

Begin(b, action) ==
  /\ botAt' = [botAt EXCEPT ![b] = "write"]
  /\ asked' = [asked EXCEPT ![b] = Append(@, action)]
  /\ out' = [out EXCEPT ![b] = Frame(Len(asked[b]) + 1, 1)]
  /\ got' = [got EXCEPT ![b] = <<>>]

\* The record, and on with run().
Finish(b, reply, latency, ok) ==
  LET action == Last(asked[b])
  IN  /\ m_localMetrics' = [m_localMetrics EXCEPT ![b] =
            Append(@, [action |-> action, reply |-> reply, lat |-> latency, ok |-> ok])]
      /\ botAt' = [botAt EXCEPT ![b] = IF action = "LEAVE" THEN "flush" ELSE "loop"]
      /\ out' = [out EXCEPT ![b] = <<>>]
      /\ got' = [got EXCEPT ![b] = <<>>]
      /\ UNCHANGED <<asked, serverVars, streamVars, mainVars>>

\* writeAll goes on until all is written; Break decides how much arrives.
BotWrites(b) ==
  /\ botAt[b] = "write"
  /\ toServer' = Sent(b, out[b], toServer)
  /\ out' = [out EXCEPT ![b] = <<>>]
  /\ botAt' = [botAt EXCEPT ![b] = "read"]
  /\ UNCHANGED <<asked, got, m_localMetrics, serverVars, toBot, cut, mainVars>>

BotWriteFails(b) ==
  /\ botAt[b] = "write" /\ b \in cut
  /\ Finish(b, FailedRequest, 0, FALSE)

BotReads(b) ==
  /\ botAt[b] = "read" /\ ~TooLarge(Values(got[b])) /\ ~Complete(Values(got[b]))
  /\ \E n \in Pieces(got[b], toBot[b]) :
       /\ got' = [got EXCEPT ![b] = @ \o First(toBot[b], n)]
       /\ toBot' = [toBot EXCEPT ![b] = Rest(@, n)]
  /\ UNCHANGED <<botAt, asked, out, m_localMetrics, serverVars, toServer, cut, mainVars>>

ReadFails_empty(b) ==
  /\ botAt[b] = "read" /\ ~TooLarge(Values(got[b])) /\ ~Complete(Values(got[b]))
  /\ toBot[b] = <<>> /\ b \in cut
  /\ Finish(b, FailedRequest, 0, TRUE)

BotReadFails(b) ==
  /\ botAt[b] = "read" /\ ~TooLarge(Values(got[b])) /\ ~Complete(Values(got[b]))
  /\ toBot[b] = <<>> /\ b \in cut
  /\ Finish(b, FailedRequest, 0, FALSE)

\* A length above the maximum: false, and its payload stays in the stream.
BotRefuses(b) ==
  /\ botAt[b] = "read" /\ TooLarge(Values(got[b]))
  /\ Finish(b, OversizeReply, 0, FALSE)

\* json::parse of a whole reply, or of pieces of two.
BotParses(b) ==
  /\ botAt[b] = "read" /\ Complete(Values(got[b]))
  /\ LET r == Last(got[b]).of
     IN  IF \A i \in 1..Len(got[b]) : got[b][i].of = r
           THEN Finish(b, r, 1, handled[b][r])
           ELSE Finish(b, FailedRequest, 1, FALSE)

-----------------------------------------------------------------------------
(* PlayerBot::run *)

connectSocket(b) ==
  /\ botAt[b] = "connect"
  /\ Begin(b, "JOIN")
  /\ servedAt' = [servedAt EXCEPT ![b] = "queued"]
  /\ UNCHANGED <<m_localMetrics, reading, writing, handled, players, streamVars, mainVars>>

ConnectFails(b) ==
  /\ botAt[b] = "connect"
  /\ botAt' = [botAt EXCEPT ![b] = "done"]
  /\ m_metrics' = Append(m_metrics,
                    [action |-> "CONNECT", reply |-> FailedRequest, lat |-> 0, ok |-> FALSE])
  /\ UNCHANGED <<asked, out, got, m_localMetrics, serverVars, streamVars, m_stopFlag, summary>>

Act(b) ==
  /\ botAt[b] = "loop" /\ ~m_stopFlag /\ Len(asked[b]) <= MaxActions[b]
  /\ \E action \in Actions : Begin(b, action)
  /\ UNCHANGED <<m_localMetrics, serverVars, streamVars, mainVars>>

\* Told to stop, or the time is over.
Leave(b) ==
  /\ botAt[b] = "loop" /\ (m_stopFlag \/ Len(asked[b]) > MaxActions[b])
  /\ Begin(b, "LEAVE")
  /\ UNCHANGED <<m_localMetrics, serverVars, streamVars, mainVars>>

Flush_open(b) ==
  /\ botAt[b] = "flush"
  /\ m_metrics' = m_metrics \o m_localMetrics[b]
  /\ botAt' = [botAt EXCEPT ![b] = "done"]
  /\ UNCHANGED <<asked, out, got, m_localMetrics, serverVars, streamVars, m_stopFlag, summary>>

\* disconnectSocket and recordBatch.  A socket closed with bytes unread resets
\* the connection, and requests the server has not read may be lost.
Flush(b) ==
  /\ botAt[b] = "flush"
  /\ cut' = cut \cup {b}
  /\ toBot' = [toBot EXCEPT ![b] = <<>>]
  /\ \E p \in IF toBot[b] = <<>> THEN {toServer[b]} ELSE Prefixes(toServer[b]) :
       toServer' = [toServer EXCEPT ![b] = p]
  /\ m_metrics' = m_metrics \o m_localMetrics[b]
  /\ botAt' = [botAt EXCEPT ![b] = "done"]
  /\ UNCHANGED <<asked, out, got, m_localMetrics, serverVars, m_stopFlag, summary>>

BotStep(b) ==
  \/ connectSocket(b) \/ Act(b) \/ Leave(b) \/ Flush(b)
  \/ BotWrites(b) \/ BotWriteFails(b)
  \/ BotReads(b) \/ BotReadFails(b) \/ BotRefuses(b) \/ BotParses(b)

-----------------------------------------------------------------------------
(* Server::handleClient *)

Busy == {b \in Bots : servedAt[b] \in {"read", "write"}}

\* A worker takes the connection off the pool's queue.
Serve(b) ==
  /\ servedAt[b] = "queued" /\ Cardinality(Busy) < Workers
  /\ servedAt' = [servedAt EXCEPT ![b] = "read"]
  /\ UNCHANGED <<botVars, reading, writing, handled, players, streamVars, mainVars>>

ServerReads(b) ==
  /\ servedAt[b] = "read" /\ ~TooLarge(Values(reading[b])) /\ ~Complete(Values(reading[b]))
  /\ \E n \in Pieces(reading[b], toServer[b]) :
       /\ reading' = [reading EXCEPT ![b] = @ \o First(toServer[b], n)]
       /\ toServer' = [toServer EXCEPT ![b] = Rest(@, n)]
  /\ UNCHANGED <<botVars, servedAt, writing, handled, players, toBot, cut, mainVars>>

\* The reply's status and size.
Replies(b, action) ==
  LET inGame == b \in players
  IN  CASE action = "JOIN" -> [ok : {~inGame}, size : {1}]
        [] action = "LEAVE" -> [ok : {inGame}, size : {1}]
        [] action = "GET_STATE" -> [ok : {inGame}, size : {1, LargeReply}]
        [] OTHER -> [ok : {FALSE, inGame}, size : {1}]

\* Who may be in the game afterwards: a hit may be its target's last.
PlayersAfter(b, action, ok) ==
  CASE action = "JOIN" -> {players \cup {b}}
    [] action = "LEAVE" -> {players \ {b}}
    [] action = "ATTACK" /\ ok -> {players} \cup {players \ {t} : t \in players \ {b}}
    [] OTHER -> {players}

Dispatch_again(b) ==
  /\ servedAt[b] = "read" /\ Complete(Values(reading[b]))
  /\ LET r == reading[b][1].of
         action == asked[b][r]
     IN  \E reply \in Replies(b, action) :
           /\ handled' = [handled EXCEPT ![b] = Append(@, reply.ok)]
           /\ writing' = [writing EXCEPT ![b] = Frame(r, reply.size)]
           /\ players' \in PlayersAfter(b, action, reply.ok)
  /\ UNCHANGED reading
  /\ servedAt' = [servedAt EXCEPT ![b] = "write"]
  /\ UNCHANGED <<botVars, streamVars, mainVars>>

dispatch(b) ==
  /\ servedAt[b] = "read" /\ Complete(Values(reading[b]))
  /\ LET r == reading[b][1].of
         action == asked[b][r]
     IN  \E reply \in Replies(b, action) :
           /\ handled' = [handled EXCEPT ![b] = Append(@, reply.ok)]
           /\ writing' = [writing EXCEPT ![b] = Frame(r, reply.size)]
           /\ players' \in PlayersAfter(b, action, reply.ok)
  /\ reading' = [reading EXCEPT ![b] = <<>>]
  /\ servedAt' = [servedAt EXCEPT ![b] = "write"]
  /\ UNCHANGED <<botVars, streamVars, mainVars>>

ServerWrites(b) ==
  /\ servedAt[b] = "write"
  /\ toBot' = Sent(b, writing[b], toBot)
  /\ writing' = [writing EXCEPT ![b] = <<>>]
  /\ servedAt' = [servedAt EXCEPT ![b] = "read"]
  /\ UNCHANGED <<botVars, reading, handled, players, toServer, cut, mainVars>>

\* The loop ends: the stream does, or a frame is too large, or send() fails.
ServerCloses(b) ==
  /\ \/ servedAt[b] = "write" /\ b \in cut
     \/ servedAt[b] = "read" /\ TooLarge(Values(reading[b]))
     \/ /\ servedAt[b] = "read" /\ ~Complete(Values(reading[b]))
        /\ toServer[b] = <<>> /\ b \in cut
  /\ servedAt' = [servedAt EXCEPT ![b] = "closed"]
  /\ reading' = [reading EXCEPT ![b] = <<>>]
  /\ writing' = [writing EXCEPT ![b] = <<>>]
  /\ cut' = cut \cup {b}
  /\ toServer' = [toServer EXCEPT ![b] = <<>>]
  /\ UNCHANGED <<botVars, handled, players, toBot, mainVars>>

ServerStep(b) ==
  Serve(b) \/ ServerReads(b) \/ dispatch(b) \/ ServerWrites(b) \/ ServerCloses(b)

\* The connection breaks; of what is in flight, some may still arrive.
Break(b) ==
  /\ b \in Breakable /\ servedAt[b] # "none" /\ b \notin cut
  /\ cut' = cut \cup {b}
  /\ \E p \in Prefixes(toServer[b]) : toServer' = [toServer EXCEPT ![b] = p]
  /\ \E p \in Prefixes(toBot[b]) : toBot' = [toBot EXCEPT ![b] = p]
  /\ UNCHANGED <<botVars, serverVars, mainVars>>

-----------------------------------------------------------------------------
(* Simulator::run and main *)

\* SIGINT, SIGTERM
signalHandler ==
  /\ ~m_stopFlag
  /\ m_stopFlag' = TRUE
  /\ UNCHANGED <<botVars, serverVars, streamVars, m_metrics, summary>>

\* std::sort: the same numbers, ascending.
Sorted(s) ==
  LET n == 1..Len(s)
  IN  CHOOSE t \in [n -> {s[i] : i \in n}] :
        /\ \A i, j \in n : i <= j => t[i] <= t[j]
        /\ \A k \in n : Cardinality({i \in n : t[i] = s[k]}) = Cardinality({i \in n : s[i] = s[k]})

\* getPercentileMs
Percentile(sorted, pct) ==
  LET n == Len(sorted) IN sorted[Min({(pct * n) \div 100, n - 1}) + 1]

ComputeSummary_unsorted(metrics) ==
  LET n == Len(metrics)
      lats == [i \in 1..n |-> metrics[i].lat]
      good == Cardinality({i \in 1..n : metrics[i].ok})
  IN  [total |-> n, ok |-> good, failed |-> n - good,
       p50 |-> Percentile(lats, 50), p95 |-> Percentile(lats, 95),
       p99 |-> Percentile(lats, 99), max |-> Last(lats)]

computeSummary(metrics) ==
  LET n == Len(metrics)
      lats == Sorted([i \in 1..n |-> metrics[i].lat])
      good == Cardinality({i \in 1..n : metrics[i].ok})
  IN  IF n = 0
        THEN [total |-> 0, ok |-> 0, failed |-> 0, p50 |-> 0, p95 |-> 0, p99 |-> 0, max |-> 0]
        ELSE [total |-> n, ok |-> good, failed |-> n - good,
              p50 |-> Percentile(lats, 50), p95 |-> Percentile(lats, 95),
              p99 |-> Percentile(lats, 99), max |-> Last(lats)]

\* All threads are joined.
RunReturns ==
  /\ summary = <<>> /\ \A b \in Bots : botAt[b] = "done"
  /\ summary' = <<computeSummary(m_metrics)>>
  /\ UNCHANGED <<botVars, serverVars, streamVars, m_stopFlag, m_metrics>>

Empty == [b \in Bots |-> <<>>]

SimInit ==
  /\ botAt = [b \in Bots |-> "connect"]
  /\ servedAt = [b \in Bots |-> "none"]
  /\ asked = Empty /\ out = Empty /\ got = Empty /\ m_localMetrics = Empty
  /\ reading = Empty /\ writing = Empty /\ handled = Empty
  /\ toServer = Empty /\ toBot = Empty
  /\ players = Ghosts
  /\ cut = {}
  /\ m_stopFlag = FALSE /\ m_metrics = <<>> /\ summary = <<>>

SimNext ==
  \/ \E b \in Bots : BotStep(b) \/ ConnectFails(b) \/ ServerStep(b) \/ Break(b)
  \/ signalHandler \/ RunReturns

\* Threads run, a dispatch returns, a time that is up is noticed.  Nothing is
\* assumed of Break, of signals, or of connect() succeeding.
SimSpec ==
  /\ SimInit /\ [][SimNext]_simVars
  /\ \A b \in Bots : /\ WF_simVars(BotStep(b) \/ ConnectFails(b))
                     /\ WF_simVars(ServerStep(b))
  /\ WF_simVars(RunReturns)

-----------------------------------------------------------------------------
(* Properties *)

\* The connections implement Exchange: a request is carried out at most once and
\* in order, and a bot that gets a reply gets the one to its request, however the
\* frames are cut and wherever the connection breaks.
E == INSTANCE Exchange WITH
       Clients <- Bots, Failed <- FailedRequest, Oversize <- OversizeReply,
       asked <- [b \in Bots |-> Len(asked[b])],
       done <- [b \in Bots |-> Len(handled[b])],
       result <- [b \in Bots |-> [i \in 1..Len(m_localMetrics[b]) |-> m_localMetrics[b][i].reply]]

ImplementsExchange == E!Spec

\* A player that is still in the game when its bot is gone was not forgotten by
\* anybody: the bot could not connect, or reported that its LEAVE failed.  A bot
\* that met a reply above the maximum cannot tell.
GhostExplained ==
  \A b \in players \cap Bots :
    botAt[b] = "done" /\ m_localMetrics[b] # <<>> =>
      ~Last(m_localMetrics[b]).ok \/ E!Lost(b)

\* The report: every request of every bot and every failed connect once, the
\* latencies in order, and a maximum of 0 only if no reply came at all.
SummaryTrue ==
  LET made(b) == {b} \X (1..(IF asked[b] = <<>> THEN 1 ELSE Len(asked[b])))
      succeeded(b) == {b} \X {n \in 1..Len(handled[b]) : handled[b][n]}
      answered(b) == \E n \in 1..Len(m_localMetrics[b]) : m_localMetrics[b][n].reply > 0
  IN  \A i \in 1..Len(summary) :
        LET s == summary[i]
        IN  /\ s.total = Cardinality(UNION {made(b) : b \in Bots})
            /\ s.total = s.ok + s.failed
            /\ s.ok <= Cardinality(UNION {succeeded(b) : b \in Bots})
            /\ s.p50 <= s.p95 /\ s.p95 <= s.p99 /\ s.p99 <= s.max
            /\ (\E b \in Bots : answered(b)) => s.max > 0

\* decode, given what has been read of a frame and all that follows it in the
\* stream, takes the frame that handleClient and sendAndReceive read, when they
\* have it, and throws when they refuse it.
DecodeAgrees ==
  \A b \in Bots :
    \A s \in {<<reading[b], toServer[b]>>, <<got[b], toBot[b]>>} :
      LET buf == Values(s[1])
          d == decode(buf)
          later == decode(buf \o Values(s[2]))
      IN  /\ d.result = "message" <=> Complete(buf)
          /\ d.result = "throw" <=> TooLarge(buf)
          /\ Complete(buf) => /\ encode(d.out) = buf /\ d.rest = <<>>
                              /\ later.out = d.out /\ later.rest = Values(s[2])

\* Wherever connections break, as long as both ends notice it, every bot comes to
\* its end and run() returns, also the bots that wait for a thread of the server and
\* cannot look at m_stopFlag meanwhile.  recv() has no time-out: a peer that falls
\* silent without closing, or two ends that both block in send(), would hold a bot
\* for ever, and neither is modelled.
SimulatorEnds == <>(summary # <<>>)
=============================================================================
