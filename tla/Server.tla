------------------------------- MODULE Server -------------------------------
(***************************************************************************)
(* The life of the server process: main and its signal handler (main.cpp), *)
(* Server::run, stop and ~Server (Server.cpp), and the thread that serves  *)
(* /metrics (HttpMetricsServer.cpp), on top of the pool (ThreadPool).      *)
(*                                                                         *)
(* The main thread is the only caller of submit and of the pool's stop.    *)
(* The signal handler calls Server::stop and interrupts the main thread:   *)
(* while stopAt # "none" the main thread is inside Server::stop, and does  *)
(* nothing else.  ~Server calls stop in the ordinary way.                  *)
(*                                                                         *)
(* A definition named X_slip, just before X, is a plausible slip in the    *)
(* code X models; no specification uses it.                                *)
(***************************************************************************)
EXTENDS ThreadPool

CONSTANTS
  Main,           \* the main thread
  MaxSignals,     \* bound: SIGINTs and SIGTERMs in a behaviour
  EarlySignals    \* may a signal arrive before run() has stored m_running?

ASSUME MainAssumption == Callers = {Main}

ASSUME SignalsAssumption == MaxSignals \in Nat /\ EarlySignals \in BOOLEAN

VARIABLES
  main,           \* where the main thread is
  stopAt,         \* where it is inside Server::stop, or "none"
  m_running,
  m_listenFd,     \* the listening socket
  m_pool,         \* has run() made the pool?
  http,           \* the HttpMetricsServer: see NoHttp
  accepted,       \* the connection between accept and submit, or NoTask
  signals         \* number of signals so far

srvVars == <<main, stopAt, m_running, m_listenFd, m_pool, http, accepted, signals>>
serverVars == <<poolVars, srvVars>>

\* made: m_httpMetricsServer is set.  running, fd: its m_running, m_listenFd.
\* joinable: m_thread has been started and not joined.  at: where that thread is.
NoHttp == [made |-> FALSE, running |-> FALSE, fd |-> "none",
           joinable |-> FALSE, at |-> "none"]

StartUp == {"setup", "metrics", "bind", "flag", "spawn", "pool", "store"}
AcceptLoop == {"loop", "accept", "failed", "submit", "notify"}
InRun == StartUp \cup AcceptLoop \cup {"drain"}

\* The main thread executes its program at l, no signal handler on top of it.
MainAt(l) == main = l /\ stopAt = "none"

-----------------------------------------------------------------------------
(* run: start-up *)

\* setupListenSocket succeeds, or run() returns.
SetupListenSocket ==
  /\ MainAt("setup")
  /\ \/ m_listenFd' = "open" /\ main' = "metrics"
     \/ main' = "destroy" /\ UNCHANGED m_listenFd
  /\ UNCHANGED <<poolVars, stopAt, m_running, m_pool, http, accepted, signals>>

MakeMetrics ==
  /\ MainAt("metrics")
  /\ http' = [http EXCEPT !.made = TRUE]
  /\ main' = "bind"
  /\ UNCHANGED <<poolVars, stopAt, m_running, m_listenFd, m_pool, accepted, signals>>

\* HttpMetricsServer::start: the port may be taken, and run() goes on without.
BindMetrics ==
  /\ MainAt("bind")
  /\ \/ http' = [http EXCEPT !.fd = "open"] /\ main' = "flag"
     \/ main' = "pool" /\ UNCHANGED http
  /\ UNCHANGED <<poolVars, stopAt, m_running, m_listenFd, m_pool, accepted, signals>>

FlagMetrics ==
  /\ MainAt("flag")
  /\ http' = [http EXCEPT !.running = TRUE]
  /\ main' = "spawn"
  /\ UNCHANGED <<poolVars, stopAt, m_running, m_listenFd, m_pool, accepted, signals>>

SpawnMetrics ==
  /\ MainAt("spawn")
  /\ http' = [http EXCEPT !.joinable = TRUE, !.at = "loop"]
  /\ main' = "pool"
  /\ UNCHANGED <<poolVars, stopAt, m_running, m_listenFd, m_pool, accepted, signals>>

MakePool ==
  /\ MainAt("pool")
  /\ m_pool' = TRUE
  /\ main' = "store"
  /\ UNCHANGED <<poolVars, stopAt, m_running, m_listenFd, http, accepted, signals>>

StoreRunning ==
  /\ MainAt("store")
  /\ m_running' = TRUE
  /\ main' = "loop"
  /\ UNCHANGED <<poolVars, stopAt, m_listenFd, m_pool, http, accepted, signals>>

-----------------------------------------------------------------------------
(* run: the accept loop *)

TestRunning ==
  /\ MainAt("loop")
  /\ main' = IF m_running THEN "accept" ELSE "drain"
  /\ UNCHANGED <<poolVars, stopAt, m_running, m_listenFd, m_pool, http, accepted, signals>>

AcceptClient(conn) ==
  /\ MainAt("accept")
  /\ m_listenFd = "open" /\ fd[conn] = "new"
  /\ accepted' = conn
  /\ main' = "submit"
  /\ UNCHANGED <<poolVars, stopAt, m_running, m_listenFd, m_pool, http, signals>>

\* accept fails although the socket listens (no descriptor left, client gone).
AcceptError ==
  /\ MainAt("accept")
  /\ m_listenFd = "open"
  /\ main' = "failed"
  /\ UNCHANGED <<poolVars, stopAt, m_running, m_listenFd, m_pool, http, accepted, signals>>

\* The socket was shut down: accept fails at once, every time.
AcceptShut ==
  /\ MainAt("accept")
  /\ m_listenFd = "shut"
  /\ main' = "failed"
  /\ UNCHANGED <<poolVars, stopAt, m_running, m_listenFd, m_pool, http, accepted, signals>>

TestAfterFailure ==
  /\ MainAt("failed")
  /\ main' = IF m_running THEN "loop" ELSE "drain"
  /\ UNCHANGED <<poolVars, stopAt, m_running, m_listenFd, m_pool, http, accepted, signals>>

HandOff ==
  /\ MainAt("submit")
  /\ Submit(Main, accepted)
  /\ accepted' = NoTask
  /\ main' = IF m_stopping THEN "loop" ELSE "notify"
  /\ UNCHANGED <<stopAt, m_running, m_listenFd, m_pool, http, signals>>

NotifyPool ==
  /\ MainAt("notify")
  /\ NotifyOne(Main)
  /\ main' = "loop"
  /\ UNCHANGED <<stopAt, m_running, m_listenFd, m_pool, http, accepted, signals>>

\* m_pool->stop(), then run() returns.
DrainPool ==
  /\ MainAt("drain")
  /\ StopNext
  /\ main' = IF stopper = "joining" THEN "destroy" ELSE "drain"
  /\ UNCHANGED <<stopAt, m_running, m_listenFd, m_pool, http, accepted, signals>>

-----------------------------------------------------------------------------
(* ~Server: stop(), a second m_pool->stop() that finds no worker left, close. *)

Destroy ==
  /\ MainAt("destroy")
  /\ stopAt' = "flag"
  /\ main' = "closing"
  /\ UNCHANGED <<poolVars, m_running, m_listenFd, m_pool, http, accepted, signals>>

\* The destructor of a std::thread that is still joinable terminates the process.
\* ~HttpMetricsServer joins nothing: Server::stop has cleared its m_running.
CloseListener ==
  /\ MainAt("closing")
  /\ m_listenFd' = IF m_listenFd = "none" THEN "none" ELSE "closed"
  /\ main' = IF http.joinable THEN "aborted" ELSE "exited"
  /\ UNCHANGED <<poolVars, stopAt, m_running, m_pool, http, accepted, signals>>

-----------------------------------------------------------------------------
(* Server::stop, in the signal handler or in ~Server *)

StopFlag ==
  /\ stopAt = "flag"
  /\ m_running' = FALSE
  /\ stopAt' = IF http.made THEN "test" ELSE "shut"
  /\ UNCHANGED <<poolVars, main, m_listenFd, m_pool, http, accepted, signals>>

\* HttpMetricsServer::stop returns at once when it is not running.
StopTestHttp ==
  /\ stopAt = "test"
  /\ stopAt' = IF http.running THEN "unflag" ELSE "shut"
  /\ UNCHANGED <<poolVars, main, m_running, m_listenFd, m_pool, http, accepted, signals>>

StopUnflagHttp ==
  /\ stopAt = "unflag"
  /\ http' = [http EXCEPT !.running = FALSE]
  /\ stopAt' = "close"
  /\ UNCHANGED <<poolVars, main, m_running, m_listenFd, m_pool, accepted, signals>>

StopCloseHttp ==
  /\ stopAt = "close"
  /\ http' = [http EXCEPT !.fd = "closed"]
  /\ stopAt' = "join"
  /\ UNCHANGED <<poolVars, main, m_running, m_listenFd, m_pool, accepted, signals>>

StopJoinHttp_unjoined ==
  /\ stopAt = "join"
  /\ stopAt' = "shut"
  /\ UNCHANGED <<poolVars, main, m_running, m_listenFd, m_pool, http, accepted, signals>>

\* if (m_thread.joinable()) m_thread.join();
StopJoinHttp ==
  /\ stopAt = "join"
  /\ http.joinable => http.at = "exited"
  /\ http' = [http EXCEPT !.joinable = FALSE]
  /\ stopAt' = "shut"
  /\ UNCHANGED <<poolVars, main, m_running, m_listenFd, m_pool, accepted, signals>>

ShutListener_never ==
  /\ stopAt = "shut"
  /\ stopAt' = "none"
  /\ UNCHANGED <<poolVars, main, m_running, m_listenFd, m_pool, http, accepted, signals>>

ShutListener ==
  /\ stopAt = "shut"
  /\ m_listenFd' = IF m_listenFd = "open" THEN "shut" ELSE m_listenFd
  /\ stopAt' = "none"
  /\ UNCHANGED <<poolVars, main, m_running, m_pool, http, accepted, signals>>

-----------------------------------------------------------------------------
(* HttpMetricsServer::listenLoop *)

HttpMoves(from, to) ==
  /\ http.at = from
  /\ http' = [http EXCEPT !.at = to]
  /\ UNCHANGED <<poolVars, main, stopAt, m_running, m_listenFd, m_pool, accepted, signals>>

HttpTest == HttpMoves("loop", IF http.running THEN "accept" ELSE "exited")

HttpAccept == http.fd = "open" /\ HttpMoves("accept", "recv")

HttpAcceptError == http.fd = "open" /\ HttpMoves("accept", "failed")

HttpAcceptClosed == http.fd = "closed" /\ HttpMoves("accept", "failed")

HttpAfterFailure_break == HttpMoves("failed", "exited")

HttpAfterFailure == HttpMoves("failed", IF http.running THEN "loop" ELSE "exited")

\* handleHttpClient: the client has sent its request, or gone; the report only
\* reads counters.
HttpServe == HttpMoves("recv", "loop")

-----------------------------------------------------------------------------
(* Signals (external) and the workers *)

\* Linux hands a signal of the process to the main thread.
Signal ==
  /\ main \in InRun /\ stopAt = "none"
  /\ signals < MaxSignals
  /\ EarlySignals \/ main \notin StartUp
  /\ signals' = signals + 1
  /\ stopAt' = "flag"
  /\ UNCHANGED <<poolVars, main, m_running, m_listenFd, m_pool, http, accepted>>

PoolWorker(w) == m_pool /\ WorkerStep(w) /\ UNCHANGED srvVars

PoolWakeup(w) == m_pool /\ SpuriousWakeup(w) /\ UNCHANGED srvVars

-----------------------------------------------------------------------------
ServerInit ==
  /\ PoolInit
  /\ main = "setup"
  /\ stopAt = "none"
  /\ m_running = FALSE
  /\ m_listenFd = "none"
  /\ m_pool = FALSE
  /\ http = NoHttp
  /\ accepted = NoTask
  /\ signals = 0

\* What the main thread does without waiting for a client.
MainStep ==
  \/ SetupListenSocket
  \/ MakeMetrics
  \/ BindMetrics
  \/ FlagMetrics
  \/ SpawnMetrics
  \/ MakePool
  \/ StoreRunning
  \/ TestRunning
  \/ AcceptShut
  \/ TestAfterFailure
  \/ HandOff
  \/ NotifyPool
  \/ DrainPool
  \/ Destroy
  \/ CloseListener

StopStep ==
  \/ StopFlag
  \/ StopTestHttp
  \/ StopUnflagHttp
  \/ StopCloseHttp
  \/ StopJoinHttp
  \/ ShutListener

HttpOwnStep == HttpTest \/ HttpAcceptClosed \/ HttpAfterFailure

ServerNext ==
  \/ MainStep
  \/ AcceptError
  \/ \E conn \in Conns : AcceptClient(conn)
  \/ StopStep
  \/ HttpOwnStep
  \/ HttpServe
  \/ HttpAccept
  \/ HttpAcceptError
  \/ Signal
  \/ \E w \in Workers : PoolWorker(w) \/ PoolWakeup(w)

ServerSpec == ServerInit /\ [][ServerNext]_serverVars

(***************************************************************************)
(* The scheduler runs every thread that can run, and a submit that waits   *)
(* for the pool's mutex gets it in the end.  Nobody has to connect, and no *)
(* signal has to come.                                                     *)
(***************************************************************************)
ProgramFairness ==
  /\ WF_serverVars(MainStep) /\ SF_serverVars(HandOff)
  /\ WF_serverVars(StopStep)
  /\ WF_serverVars(HttpOwnStep)
  /\ \A w \in Workers : WF_serverVars(PoolWorker(w) /\ pc[w] # "handler")

\* Clients disconnect in the end.
ClientsLeave == \A w \in Workers : WF_serverVars(PoolWorker(w) /\ pc[w] = "handler")

\* A client of /metrics sends its request or goes.
ScrapersAsk == WF_serverVars(HttpServe)

FairServerSpec == ServerSpec /\ ProgramFairness /\ ClientsLeave /\ ScrapersAsk

-----------------------------------------------------------------------------
(* Properties *)

ServerTypeOK ==
  /\ main \in InRun \cup {"destroy", "closing", "exited", "aborted"}
  /\ stopAt \in {"none", "flag", "test", "unflag", "close", "join", "shut"}
  /\ m_running \in BOOLEAN /\ m_pool \in BOOLEAN
  /\ m_listenFd \in {"none", "open", "shut", "closed"}
  /\ http \in [made : BOOLEAN, running : BOOLEAN, fd : {"none", "open", "closed"},
               joinable : BOOLEAN,
               at : {"none", "loop", "accept", "failed", "recv", "exited"}]
  /\ accepted \in IF main = "submit" THEN Conns ELSE {NoTask}
  /\ signals \in 0..MaxSignals

\* The process never ends in std::terminate, and when it has ended nothing is
\* left behind: every accepted connection was served and closed, unless its handler
\* threw (ThreadPool's "leaked" sockets), the workers and the metrics thread are
\* gone, and both listening sockets are closed (run, stop and ~Server, with signals
\* at any moment after start-up).
CleanExit ==
  /\ main # "aborted"
  /\ main = "exited" =>
       /\ \A c \in Conns : fd[c] # "open"
       /\ \A w \in Workers : m_pool => pc[w] = "exited"
       /\ http.at \in {"none", "exited"} /\ http.fd # "open"
       /\ m_listenFd \in {"none", "closed"}

\* /metrics answers as long as the server runs: while HttpMetricsServer's
\* m_running holds its thread lives and its socket listens, whatever accept
\* returns and however far a stop() is.
MetricsAlive ==
  http.running =>
    /\ http.fd = "open"
    /\ main = "spawn" \/ http.at \in {"loop", "accept", "failed", "recv"}

\* A worker that slept through the pool's notify_all (see ThreadPool).
Overslept == stopper = "joining" /\ \E w \in Workers : pc[w] \in {"blocking", "waiting"}

\* "Graceful shutdown on SIGINT (Ctrl-C) and SIGTERM": after a signal the process
\* ends, if no worker overslept.  It needs clients that leave (ClientsLeave), clients
\* of /metrics that ask (ScrapersAsk) and signals that wait for the end of start-up.
GracefulShutdown == signals > 0 ~> main = "exited" \/ Overslept
=============================================================================
