# A TLA+ model of the game server

The modules in this directory model the multiplayer game server (`server/`) and the
load simulator (`simulator/`): the game state, the pool of workers, the request
handlers with the stores they write to, the connections to MySQL and Redis, the
metrics and the reports read from them, the registry of connections, the life of
the process from start-up to a signal that ends it, and the bots that talk to it
over byte streams. TLC checks them on small instances; TLAPS proves the central
properties for any number of players, workers and connections. `PROJECT.json`
maps every definition to the lines it models.

## The system

| Component | State | Operations | Works with |
|---|---|---|---|
| `GameState` | player table, match status, kill total, event log, next event id | add, remove, move, attack, set score, record event; queries | called by the handlers, from every worker; one mutex, except for the event id |
| `ThreadPool` | task queue, `m_stopping`, `m_activeTasks`, worker threads | `submit`, `workerLoop`, `stop` | fed by the accept loop, runs `Server::handleClient` |
| `RequestHandler` | none of its own | one handler for each of eight actions | `GameState`, `CacheManager`, `DatabaseManager`, `MetricsRegistry` |
| `CacheManager`, `RedisClient`, `RedisPool` | pooled connections, each a socket with what is unread on it; Redis holds session and position keys | SET, GET, DEL, HSET, HGET, HGETALL with a time-out of one second on every read | called by the handlers, results ignored |
| `DatabaseManager` | one MySQL handle, `m_connected` and a mutex; tables `players`, `game_events`, `matches`, `test_runs` | `open`, `close`, `initSchema`, four writers, three readers | called by the handlers, results ignored |
| `MetricsRegistry` | atomic counters, gauge, latency histogram | increments, `recordRequestLatency`, `setActivePlayers`, two reports | written by everybody, read by `HttpMetricsServer` and GET_METRICS |
| `Server`, `main` | listening socket, `m_running` | `run`, `stop` (from a signal handler), `handleClient` | owns all of the above |
| `ConnectionManager` | registry of connections | register, unregister, count messages | `handleClient` |
| `MessageFramer` | none | length-prefixed frames over TCP | `handleClient`, simulator |
| `HttpMetricsServer` | listening thread | `/metrics`, `/health` | started by `run`, stopped by `stop` |
| simulator | bots with a connection each, stop flag, collector | JOIN, actions, LEAVE; the summary | a client of the server |
| web bridge, scripts | | clients of the server | one connection per request |

What makes each part correct:

- `GameState`: status, table and counters agree after every operation; positions and
  integers stay in range; event ids are unique and the log loses only its oldest.
- `ThreadPool`: each connection is served once, no wakeup is missed, `stop()`
  returns and leaves nothing queued, in hand or open, but the sockets of handlers
  that threw.
- `RequestHandler` and its stores: each request is counted once whatever fails;
  stores and log follow each player's history.
- `Server` and `HttpMetricsServer`: a signal ends the process, cleanly.
- `ConnectionManager`: the registry holds the connections being served.
- `DatabaseManager`: what is acknowledged is stored, once; an outage is survived; the
  handle is not null when it is used.
- `RedisClient`, `RedisPool`: nobody reads the reply to another command; no connection
  leaks or has two holders.
- `MetricsRegistry`: nothing is lost, and a report is torn by no more than what was
  going on while it was read.
- `MessageFramer` and the two ends of a connection: requests and replies pair up
  however the stream is cut and wherever it breaks.
- simulator: every request is in the summary once, the summary agrees with what the
  server did, and `run` returns.

What is hard here: handlers of several workers interleave between any two calls
they make; ids, counts and final scores are read under one lock and used after
it; Redis executes commands the server has given up on; a wakeup can be lost
between a condition variable's predicate and its sleep; integers arrive with 64
bits and are kept in 32; the database connection is checked in one critical section
and used in another; reports are read counter by counter while workers write; a
time-out leaves the rest of a reply on its way. `PROJECT.json` lists these hazards at their lines.

## Modules

`GameState`, `ThreadPool`, `RequestHandler` (on `GameState`), `Server` (on
`ThreadPool`), `ConnectionManager`, `DatabaseManager`, `Metrics`, `RedisClient` and
`Simulator` (on `MessageFramer`, implementing `Exchange`) are specifications; an
`MC...` module bounds each for TLC; a `...Proofs` module holds its theorems. In each
specification a definition named `X_slip`, just before `X`, is a plausible slip
in the code that `X` models; no specification uses it, it is there to be put in
the place of `X` to see that a property notices.

### GameState

Variables carry the names of the C++ members. Every public operation holds
`m_mutex` for its whole body and is one action. `recordEvent` does not: it takes
its id from an atomic counter before it locks, so it is two actions,
`takeEventId` and `pushEvent`, and `ev[t]` is the event thread `t` holds between
them. An operation that returns `false` changes nothing; its condition is the
negation of the `...OK` operator. Error texts, timestamps and `snapshot`, which
only reads, are left out. Signed overflow of a score is undefined behaviour; the
build adds with a plain instruction, so `AddInt` wraps. `INT_MAX` is a constant,
127 in the runs.

### ThreadPool

One action for each critical section of `m_mutex`, and separate actions for what
is not covered by it: `submit` notifies after unlocking, `stop` stores and
notifies without locking. `condition_variable::wait` is `StartWait` (the
predicate is false, the mutex is held) and `Block` (release and sleep in one
step); workers also wake up for no reason. A handler returns, having closed its
socket, or throws: `workerLoop` catches the exception, nobody closes the socket,
and it is `"leaked"` from then on. The model allows several
threads to call `submit` concurrently with `stop`, as the class promises;
`Server` itself calls both from its main thread.

### RequestHandler

Extends `GameState`. `todo[t]` is the list of calls worker `t` has still to make
for its request `req[t]`, and `Route` is that list for every action, in the
order of the source; each call is one action, and other workers act in between.
A refused request goes on with `Refused`. The results of cache and database are
ignored by the handlers, so a failing store changes what is stored and never
which calls are made. `GetInt` is what `get<int>()` does to a wider integer.
Requests that are refused before the first call (bad JSON, missing field, text
too long) are one kind, `INVALID`; a chat text is not kept.

Redis (external) executes a command at once, or, when the caller has given up
after its time-out, later or never: `late` holds such commands. Keys expire at
any moment. MySQL (external) executes a statement or fails; a failure is counted
in the metrics except when `open()` had failed. A statement reported as failed
and executed after all is the case of success, since only the number of
operations is kept.

`Speaks[t]` says whose requests worker `t` gets: one player each (a bot keeps
one connection, `OwnPlayer`) or everybody (the web bridge opens a connection for
each request, `AnyPlayer`). `CacheSettings` says whether the cache may be enabled;
`redis.enabled` is which it is. `farewell`, `finals` and `unsaved` are history variables:
the final score of a LEAVE until the player joins again, all of them, and the players for
whom an `upsertPlayer` has failed.

### Server

Extends `ThreadPool`. `main` is where the main thread is in `main`, `run` and
`~Server`; `stopAt` is where it is inside `Server::stop`, which either a signal
handler or the destructor has called. A handler suspends the main thread, so every
step of its program requires `stopAt = "none"`. The main thread is the only caller
of the pool's `submit` and `stop`, and `HandOff`, `NotifyPool` and `DrainPool` are
those actions of `ThreadPool`; workers act as soon as the pool exists. `http` is the
`HttpMetricsServer` with its thread. `accept` on a socket that was shut down fails
at once; on a listening one it may fail too (`AcceptError`) and need not.

A signal interrupts the main thread, to which Linux hands it; one that another
thread takes while the main thread is already in the handler is left out, and so
is one that arrives while the destructor runs. `EarlySignals` says whether a signal
may arrive before `run` has stored `m_running`.

### ConnectionManager

`handleClient` call by call for any number of workers, with the registry they share.
`registerConnection` is three actions: an id from an atomic counter, the entry under
the mutex, a second atomic counter. `openFds` is the kernel's: `accept` returns any
descriptor that is not open, and `handleClient` closes its socket before it
unregisters. A frame arrives whole or the read fails (also for a length above the
limit). `Throw` is an exception out of the loop: socket and entry stay, and
`abandoned`, a history variable, remembers the id.

### DatabaseManager

An operation is two critical sections of `m_mutex`: `open()` (`OpenPings`,
`OpenReconnects`, `OpenFails`) and the statement (`StatementSucceeds`,
`StatementFails`, `StmtInitFails`, `StatementCut`, `InitSchema`), with those of
other callers in between. `open()` of another caller may close the handle and fail
to make a new one: the statement then follows a null handle (`UseNull`), which ends
the process. `Shapes` says what the seven operations differ in: whether they
write, whether the key may be there only once, whether they prepare a statement, and
which of their exits count the operation. MySQL (external) goes away with its
session and comes back, also between executing a statement and answering it
(`StatementCut`); `mysql_options(MYSQL_OPT_RECONNECT)` lets a statement restore the session.
Memory may be short, which makes `mysql_init` and `mysql_stmt_init` fail. `getPlayer`
returns nothing and is counted as a success when no row comes, whether there is none
or MySQL went away before the fetch; `nullopts` counts these calls. The values
bound and fetched are left out: what the rows hold is `RequestHandler`'s.

### Metrics

Every atomic access is an action: a worker counts the request, its outcome and, in
`recordRequestLatency`, the count, the sum (a compare-and-exchange loop that may
fail for no reason) and the buckets one by one; a reader takes the counters one by
one in the order of `toPrometheusText` or `toJson`. `busy[r]` remembers the workers
that had a request in hand while `r` read: by how many a report is torn. The
accesses are interleaved as if sequentially consistent. The code asks for
`memory_order_relaxed`; on x86-64 every update is a locked instruction and loads are
not reordered with each other, so it gets that. On a weaker machine a report could
be torn further.

### RedisClient

A reply is a sequence of parts (a type character, a line, the data of a bulk string);
`coming[c]` has still to arrive, `inbox[c]` is unread. Each read of a part is an
action and may time out, which closes the socket; only `hgetall` returns without
closing it when the type of a field does not come (`TimeOutInField`), and the rest of
its reply is then read by whoever takes the connection next. The server never calls
`hgetall`; the module models it because the class offers it, and `PoolClean` and
`OwnReply` make an exception of exactly the connections it leaves behind (`dirty`).
`acquire` and `release` are the pool with its limit.

### MessageFramer, Exchange, Simulator

`MessageFramer` has the header, `encode` and `decode`, and what `readExact` has still
to read (`Missing`). `Exchange` is the abstract specification of a connection: a
request is carried out at most once and in order, and the client gets the reply to
it or learns that it failed. `Simulator` has both ends: `PlayerBot::run` and
`sendAndReceive`, `Server::handleClient` with a limited number of threads, two byte
streams per bot read in pieces of any size, connections that break at any byte
(`Break`) or are reset by a close with bytes unread (`Flush`), the stop flag and the
collector. Its refinement mapping counts what was asked and dispatched and takes the
replies from `m_localMetrics`. Every byte carries the number of its request as
history; the program sees the value only. What a request does is kept to membership
in the game and the size and status of the reply: JOIN adds a player, LEAVE removes it,
and an ATTACK that hits may remove another one, whichever and at any hit, since health
is left out (`PlayersAfter`).

A reply above the maximum size is refused by the bot with its payload left in the
stream, so that the bot reads text as a length or an old reply as a new one
from then on: `Exchange` has that as `Overflow` and `Stray`. The server's replies to
GET_STATE grow with the number of players, and `handleClient` does not check
their size.

## Runs

| Run | Shows |
|---|---|
| `game` | status and table agree through every order of joins, hits, eliminations and departures; coordinates off both ends and scores that wrap stay in range; event ids are unique and no event is lost before the log is full |
| `pool` | no connection lost or served twice; no missed wakeup; no worker dies of an exception or leaves before the queue is empty, and `m_activeTasks` counts the busy ones; every queued connection is served; `stop()` returns if nobody slept through its `notify_all`, and then nothing is queued, in hand or open but the sockets of handlers that threw |
| `own` | two clients who attack each other: stores, cached positions and event log follow each player's history |
| `shared` | two connections for one player, every kind of request, Redis on and off, both stores failing in every way: each request is counted once and timed once, at every step, and the high score survives any reordering unless an `upsertPlayer` failed |
| `server` | signals at any moment after start-up: the process ends, without `std::terminate` and with nothing left open but the sockets of handlers that threw; `/metrics` lives as long as it should |
| `connections` | the registry stays exact while handlers overlap and descriptors are reused |
| `database` | through outages, restarts and short memory: a null handle needs a second caller who failed to reconnect; an acknowledged write is stored, none twice; the counter of successes has every operation that succeeded and at most `getPlayer` calls that returned nothing besides; once MySQL is back for good operations succeed |
| `metrics` | reports read while workers count: how far buckets, count and outcomes can differ, counters that never go down, and a sum that loses no addition |
| `redis` | time-outs at every read, errors and null replies: a connection has one holder, goes back clean or closed, and a command that succeeds has read its own reply |
| `simulator` | frames cut anywhere and connections that break at any byte: `Exchange` is implemented, a player left in the game is accounted for, the summary is true, and `run` returns |

Two runs end in a violation. Both are about `stop()`, where the code does something else
than `ThreadPool.h` says:

| Run | What is said | What happens |
|---|---|---|
| `pool_stop` | line 26: `stop()` notifies all workers, then joins each thread | it can lose its wakeup and join a sleeping worker for ever |
| `pool_discard` | line 27: queued tasks are discarded | the workers serve the queue before they leave |

Types, and some invariants besides, are proved for every instance and not also
checked by a run (see Proofs).

### More divergences

The modules show these as well, without a run of their own. No property contradicts
them; each says where what is checked stops.

| Where | What is said | What happens |
|---|---|---|
| `GameState.cpp:117` | `scripts/test_milestone4.py:9`: "Match finishes when last player eliminated" | the attacker is still in the table, so no elimination ever finishes a match, not even one that leaves nobody else: the branch is unreachable (`EliminationNeverEndsMatch`) |
| `GameState.cpp:107` | `docs/architecture.md:81`: an elimination awards 100 points | near `INT_MAX`, where UPDATE_SCORE can set it, the score wraps to a negative one (`AddInt`; `GSTypeOK` holds all the same) |
| `RequestHandler.cpp:282` | `python/chaos_test.py:124`: giant out-of-bounds numbers should clamp | an integer wider than `int` loses its high bits first and may land inside the map (`GetInt`) |
| `RequestHandler.cpp:80` | `Metrics.cpp:104`: the gauge is the number of active players | two concurrent JOINs can store their counts in the wrong order (`CountPlayers`, `SetGauge`) |
| `RequestHandler.cpp:143` | the same | an elimination does not set the gauge at all, and leaves the session cached |
| `RequestHandler.cpp:89` | `docs/architecture.md:84`: LEAVE persists final scores | a JOIN on another connection can reach the database late and overwrite the score with 0; `FinalScorePersisted` needs one connection per player |
| `RedisClient.cpp:83` | the same line: LEAVE cleans up cached sessions | a SET that the server gave up on may be executed after the DEL (`ExecuteLate`); `SessionDropped` needs a Redis that answers |
| `ThreadPool.cpp:73` | `main.cpp:93`: graceful shutdown on SIGINT and SIGTERM | a client that stays connected holds a worker that `run` joins (`ClientsLeave` excludes it) |
| `HttpMetricsServer.cpp:70` | the same | a client of `/metrics` that sends nothing holds the thread that the signal handler joins (`ScrapersAsk` excludes it) |
| `Server.cpp:84` | the same | a signal before `run` stores `m_running = true` is forgotten (`EarlySignals = FALSE` excludes it) |

Two more things a reader of the code may not expect, though nothing in the repository says
otherwise: `getPlayer` counts a fetch that failed as a success (`StatementSucceeds`,
`StatementCut`), and the socket of a handler that threw stays open until the process ends
(`HandlerThrows`); `StopLeavesNone` and `CleanExit` make an exception of it.

### Bounds and fairness

**Bounds.** `game`: two players and two threads, two hits kill with damage left
over, the map is one point with coordinates off both of its ends, a score of 120
is seven short of `INT_MAX`, and a log of one event overflows with calls pending.
Players and threads are symmetric there. `pool`: three workers let one sleep, one
serve and one be on its way, with two callers and two connections. `own`: two workers and
four requests (`MaxRequests`) are enough to join, change a score, leave and join again with
two handlers overlapping at every point. `shared`: two interchangeable workers and three
requests, which run all handlers against each other and let a JOIN or LEAVE overtake another
one, with one Redis command late at a time (`MaxLate`), no keys that expire (`MayExpire`; they
do in `own`) and a log of one event; GET_METRICS stands for the GET_STATE of a spectator as
well, which makes the same calls; of its integers one stays and one is
truncated to a negative score and a coordinate off the map. In `own` one of the integers is wider than `INT_MAX` and is truncated. `server`:
two workers, two connections and two signals. `connections`: three workers, three
descriptors, four connections of at most two requests (`MaxConnections`,
`MaxMessages`), symmetric in workers and descriptors. `MaxKills`, `MaxEvents` and
`MaxScore` bound counters that only grow. `database`: two callers and three operations
(`MaxCalls`), so that a statement can meet what another caller's `open()` did, twice.
`metrics`: two workers with a request each (`MaxRequests`), one bound with a latency on
either side of it, and one reader per behaviour with a second report after one that
showed something (`MCStartReport`), since readers do not disturb each other. `redis`: two threads,
room for one connection in the pool and three connections, at most
three stale parts on a connection that is used again (`MaxBacklog`) and one HGETALL at
a time. `simulator`: headers of two bytes, bytes of four values and a maximum of one
byte make every case of the framing happen in frames of three or four bytes; of two
bots one acts twice at most and its connection may break, the other only joins and leaves and finds its
player in the game already (`Ghosts`); one server thread makes a bot wait for the
other. Deadlock is not checked: a server without requests may
rest, and a pool that was stopped has stopped.

**Fairness.** `PoolFairness`: the scheduler runs every worker that can run, a
caller of `submit` or `stop` goes on once it is inside, and clients disconnect in
the end; nobody has to call `submit` or `stop`, and spurious wakeups need not
happen. `FairServerSpec` has three parts. `ProgramFairness`: the main thread, the metrics
thread and the workers outside their handlers run, with strong fairness for
the lock in `submit`, which workers that wake up for no reason could otherwise keep
taking for ever. `ClientsLeave` and `ScrapersAsk` are assumptions on others, since
`handleClient` and `handleHttpClient` read without a time-out: clients disconnect in the
end, and clients of `/metrics` send or go. Without either of them a signal need not end the
process (see More divergences).
`FairDBSpec`: a caller inside an operation goes on. `DatabaseManager` sets a time-out for connecting
only, so that MySQL answers in the end is an assumption on the deployment; MySQL need
not come back, and `Recovers` speaks only of the time after it has. `SimSpec`: the
threads of bots and server run and a dispatch returns; nothing is assumed of
breaking connections, of signals, or of `connect` succeeding. A connection breaks for
both of its ends: `recv` has no time-out, and a peer that falls silent without closing
is outside the model, as are two ends that both block in `send`.

## Proofs

All theorems hold for every value of the constants that satisfies the
assumptions stated beside them: finite sets of threads and of player ids, which are
`int`s (`ThreadsAssumption`, `PlayersAssumption`, `MetricsAssumption`), buckets in
ascending order (`MetricsAssumption`), headers and bytes that can count
(`ByteAssumption`), a maximum size a header can tell (`FrameAssumption`), text made of
bytes and actions other than JOIN and LEAVE (`SimulatorAssumption`), JSON text that as a
length exceeds the maximum size (`TextAssumption`), at
least one worker (`WorkersAssumption`), constants of their C++ types with
`INT_MAX >= 100` (`ConstantsAssumption`), requests whose integers reach
`GameState` within what it is specified for (`RequestAssumption`), a cache that is enabled
or not (`CacheAssumption`), the methods
`RedisConnection` has (`PoolAssumption`), and values for "no row", "no position" and
so on that are not rows or positions (`NothingAssumption`, `NoEventAssumption`,
`PoolAssumption`). Hypotheses about how the server is used are in the theorems
themselves: `Owned` (two workers never speak for the same player) and stores that do
not fail (`"mysql" \notin MayFail`, `"redis" \notin MayFail`), as in the run `own`. Without
them the properties that have them as hypotheses are false, as the list of divergences says.

**GameStateProofs.** `GSTypeOK` is inductive. `MatchLifecycle` and `PlayersAlive`
are inductive given the types, and `EliminationNeverEndsMatch` follows because
the attacker remains in the table. `EventIdsUnique` is inductive as it stands
because it speaks of the log and of the pending calls at once. `KillAccounting` is a
sum over the player table, stated as the size of a set with one element for each kill
(`StandingKills`): an elimination adds one element at most, and everything else none
(`KillInv`). `LogAccounting`
counts the pending calls: `takeEventId` adds one to both sides of
`m_nextEventId - 1 - |Pending|`, `pushEvent` moves one over.

**RequestHandlerProofs.** `WellFormed` is the first inductive invariant: every `todo[t]`
ends with exactly one answer and the timer, and `req[t]` carries the arguments of
every call in it. From it follow the refinement `RHSpec => GSSpec`, hence
`GameStateSafe` (GameState's invariants hold of the whole server), and
`RequestsBalance`: the first call of a well-formed list tells its length, so each
step moves at most one worker out of the unanswered or the untimed ones, together
with the counter.

What the stores keep depends on how far a handler is. `Guided` says that the list of a
worker is always the end of the route of its action, or `Refused`, so that the
next call (`Place`) tells all that follow; `TypesInv` is that with all types
(`RHTypeCorrect`). On it rest, each with an invariant of its own:

- `HighScoreKept`: a score read by a LEAVE stays below the row's high score from
  `upsertPlayer` on, since GREATEST never lowers it, unless that `upsertPlayer` failed and
  its player is in `unsaved`. It needs no `Owned` and no store that works: any two
  connections may speak for one player.
- `OwnInv`: with `Owned`, the player of a LEAVE that was carried out is out of the
  game until the answer and beyond (`Gone`, `Farewell`), since nobody else can let it
  join. From this, `FinalScorePersisted`: the row has the final score from
  `upsertPlayer` on (`FinalInv`); and `SessionDropped`: the session is gone from
  `deletePlayerSession` on.
- `PositionFresh`: the cached position of a player in the game is the player's or has
  expired, unless the player's worker has just spawned or moved it and is about to
  store where (`FreshInv`); other workers can hit and eliminate the player, but not move it.
- `DbHistory`: of a player in the game the last row in `game_events` is a JOIN, or one
  is on its way, and a LEAVE on its way finds a JOIN before it (`DbInv`).
- `PlayerHistory`: the event a worker holds has a higher id than any its player has in the
  log (`EvInv`), and a player whose last event is LEAVE is out of the game and comes back
  with a JOIN (`LeftInv`); `EventIdsUnique` helps.

**ServerProofs**, the pool. `Base` is the types, `WaitHoldsMutex` (the worker between
predicate and sleep, and only it, holds the mutex) and `StopProgress` (how far
`stop()` is and what `m_stopping` says). On it rest `ActiveTasksCount`,
`OneOwner`, `WorkConserving` (a bound between queue length and the workers and
notifications on their way, preserved because whoever goes to sleep found the
queue empty under the mutex), `ExitedDrained`, `StopLeavesNone` and
`AtMostOneAsleep` (only one worker can be between predicate and sleep when the
flag is stored). These
theorems are about `PoolSpec`, with any set of callers, and use nothing of `Server`.

**ServerProofs**, the server. `ServerUsesPool` is the refinement `ServerSpec => PoolSpec`; with it
every theorem about the pool holds of the server (`PoolSafe`). `Life` is the inductive
invariant behind `MetricsCorrect` and `CleanExitCorrect`: for each position of
start-up and of `stop()` it says what is known of the metrics server, and that the
pool has been stopped once `run` is left. Its part `Orderly` holds only if no signal
interrupts start-up: a signal between `m_running.store(true)` and the creation of
the thread in `HttpMetricsServer::start` leaves a thread nobody joins.

**ConnectionManagerProofs.** `CMInv` adds to the types that ids taken and not yet
entered are fresh (`IdOwner`) and who owns an open descriptor (`FdHeld`);
`RegistryExact` and `MessagesCounted` are then inductive, and `FdOwner` follows.
`TotalsAgree` counts the workers inside `registerConnection`.

**DatabaseManagerProofs.** `DBInv` adds to the types `Numbered`: the number of a call in
progress is its own, borne by no other call and by nothing stored or acknowledged.
With it `AckedStored` is inductive, and so is `SuccessCounted`, two bounds on one counter:
it lies between the counted operations that returned true and these plus the `getPlayer`
calls that returned nothing. `NullExplained` needs the types only: a handle that is null after one's own `open()` was closed by an `open()`
that failed, and that adds its caller to `spoilt`.

**MetricsProofs.** `MInv` relates the live counters: `Live` (each counter is the next
one plus the workers between the two updates) and `Cumulative` (each bucket exceeds
the next by the workers between them at most), both counted as cardinalities of sets of
workers, and `ActiveBusy` and `Behind` (who is at work is in `busy`; a finished or
partial report never exceeds the counters). The reports then follow from one idea:
`Val(r, c)`, what a report has read of `c` or would read now. Reading a counter does
not change it, an update changes it only for counters still unread, and the
differences between the values of counters in reading order are bounded by the
workers in `busy`; that statement is inductive where the one about
finished reports is not. `SumExact` says what the sum
lacks as the size of a set again (`Owed`): timing a request adds the column of its
worker, and an exchange that succeeds takes away that column and adds as much to the sum.

**RedisClientProofs.** `PoolInv` has the types, the places (`PlaceInv`: a thread that
reads has a socket) and `OneHolder`, which is inductive with them. `StreamInv` is about
replies. `Taken(t)` is how many parts thread `t` has read, told by its place alone, and
`Possible(t)` are the replies that can have brought it there; as long as its
connection is not dirty, all that is in the socket or on its way is the
rest of one of these replies after `Taken(t)` parts (`Remains`), so no part of another
reply is ever in reach. A connection on which nobody reads has an empty stream, or is
dirty (`CleanAt`). A method that succeeds has read to the end of the reply, one
that fails has closed the socket, and `hgetall` giving up between two fields makes the
connection dirty. `PoolClean` and `OwnReply` follow.

**SimulatorProofs.** First the frames. `readU32LE` and `writeU32LE` are recursive
functions over the bytes of a header; that each undoes the other, for a header of any size
and bytes of any base, is shown by induction in which the set of the positions where a
statement holds takes the place of the induction predicate (`Induct`, `Upward`,
`Downward`). With it `decode` returns what `encode` was given, whatever follows it
(`DecodeEncode`), and agrees with a reader that takes the stream piece by piece
(`DecodeCorrect`).

`SimInv` is the inductive invariant, one `BotInv(b)` for each bot. What the server has
read, followed by what is on its way, are the frames of the requests asked and not yet
handled, whole and in order, up to the byte where the connection broke
(`RequestsInv`); so what a thread dispatches is always the next request (`DispatchIs`).
What the bot has read, followed by what is on its way, is nothing unless the bot
waits, and then the one reply it waits for (`RepliesInv`), which holds up to the first
reply above the maximum: from there on the bot reads text as lengths, and the invariant
says only which requests can have been answered. `PairedInv` pairs the recorded results with
requests and replies; `GhostInv` says that no player is in the game whose bot's LEAVE was handled, and
that a bot whose last request succeeded had them all handled. None of these is inductive alone: `GhostExplained`, for example,
needs that a bot that leaves without an error has got the reply to its own LEAVE and not an
earlier one. A step about one bot keeps the parts of the others (`OthersSame`, `SameKept`),
which is what makes the proof one lemma for each action.

From it follow `GhostCorrect` (for the bots' own players; those that were in the game before
are nobody's to remove) and `ExchangeCorrect`, the refinement `SimSpec => E!Spec`: each step
of the program is a step of `Exchange` or none (`ExchangeStep`).

`ReportInv`, inductive with `SimInv`, is behind `SummaryCorrect`. That the report counts no
success twice needs that no bot takes one reply for two requests, also after a
reply above the maximum, when replies are out of step with requests. `OnceInv` says
why: replies are on their way in the order of their requests, and what is left of
one that has been recorded is text; text read as a length is too large
(`TextAssumption`), so nothing is parsed that starts inside a reply. `CollectorInv` is a
bijection between the collector's records and the requests and failed connects of the
bots that are done, which makes totals sizes of sets, as in `KillAccounting`.
`std::sort` is modelled by what it returns, the same numbers ascending (`Sorted`), and
`SortedIs` shows that there is such a sequence.

`ServerTypeCorrect`, `CMTypeCorrect`, `DBTypeCorrect`, `PoolTypeCorrect`,
`MTypeCorrect`, `RHTypeCorrect`, `RCTypeCorrect` and `SimTypeCorrect` are the type invariants, with
`AliveCorrect`, `KillsCorrect`, `MessagesCorrect`, `TotalsCorrect` and `DecodeCorrect` the invariants
that no run repeats. That handlers
and server use `GameState` and the pool as specified (`HandlersUseGameState`,
`ServerUsesPool`) is proved, too, and not run.

Only model-checked: the liveness properties `TaskServed`, `JoinReturns`, `GracefulShutdown`, `Recovers` and `SimulatorEnds` (fairness and
`ENABLED` are outside the prover). Every invariant and every action property a passing run
checks is proved as well.

## Not modelled

- `Logger`, formatting of answers, JSON parsing, the deployment files.
- A player id wider than 32 bits, which is truncated onto another player's id:
  ids are drawn from `Players`.
- Command-line parsing; signals taken by another thread than the main one.
- Exceptions inside a handler other than those of the pool (out of memory).
- Two identical Redis commands given up at the same time count as one.
- `getPlayerPosition`, which nothing calls; `snapshot`, `recentEvents` and the reading
  side of GET_STATE, which only read (the check and the snapshot are under two locks,
  and a client may see a state without its player).
- The web bridge and the scripts as programs of their own. To the server the bridge is a
  client with a connection per request that gives up after two seconds: `AnyPlayer` in
  `RequestHandler`, and in `Simulator` a connection that breaks.
- Throughput, averages, the printed report and the JSON file of the simulator.
- A null handle inside `libmysqlclient` is taken to end the process; what really happens
  is undefined.

## Plan

`RequestHandler` with `DatabaseManager`'s two critical sections in the place of one
statement: what a null handle does to requests under way.
