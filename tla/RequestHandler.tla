--------------------------- MODULE RequestHandler ---------------------------
(***************************************************************************)
(* The request handlers (server/src/RequestHandler.cpp) run concurrently   *)
(* by the pool's workers against the one GameState, and what they do to    *)
(* Redis (CacheManager), to MySQL (DatabaseManager) and to the metrics     *)
(* (MetricsRegistry).                                                      *)
(*                                                                         *)
(* A handler is a sequence of calls, each atomic on its own (one mutex,    *)
(* one Redis command, one SQL statement, one atomic counter) with other    *)
(* workers' calls in between.  todo[t] holds the calls worker t still has  *)
(* to make, first call first; Route is that sequence for each action.      *)
(* Results of calls on the stores are ignored by the handlers, so a store  *)
(* that fails changes what is stored and never which calls are made.       *)
(*                                                                         *)
(* A definition named X_slip, just before X, is a plausible slip in the    *)
(* code X models; no specification uses it.                                *)
(***************************************************************************)
EXTENDS GameState

CONSTANTS
  Actions,        \* the kinds of request the clients send
  Speaks,         \* Speaks[t]: the player ids named in requests to worker t
  JsonInts,       \* the integers found in requests, of up to 64 bits
  CacheSettings,  \* what m_cache->isEnabled() may be
  MayFail,        \* the stores that may fail, among "redis" and "mysql"
  NoRequest, NoPos, NoRow, NoScore

VARIABLES
  req,            \* req[t]: the request worker t is handling
  todo,           \* todo[t]: the calls it still has to make
  count,          \* count[t]: what activePlayerCount returned to it
  finalScore,     \* finalScore[t]: what removePlayer returned to it
  metrics,        \* MetricsRegistry
  redis,          \* the session and position keys, and whether the cache is enabled
  late,           \* Redis commands given up by their caller, still to be executed
  dbPlayers,      \* rows of table players
  dbEvents,       \* dbEvents[p]: the rows of table game_events for player p
  farewell,       \* history: the final score of the last LEAVE answered for p,
                  \* until p joins again
  finals,         \* history: the final scores of all LEAVEs answered for p
  unsaved         \* history: the players for whom upsertPlayer has failed

workerVars == <<req, todo, count, finalScore>>
historyVars == <<farewell, finals, unsaved>>
storeVars == <<metrics, redis, late, dbPlayers, dbEvents, historyVars>>
rhVars == <<gsVars, workerVars, storeVars>>

-----------------------------------------------------------------------------
(* Requests *)

\* j.get<int>() of a 64-bit JSON integer keeps its low bits.
GetInt(v) == ((v - INT_MIN) % (2 * (INT_MAX + 1))) + INT_MIN

PlayerRequest == [action : {"JOIN", "LEAVE", "CHAT", "GET_STATE"}, player_id : Players]
MoveRequest   == [action : {"MOVE"}, player_id : Players, x : JsonInts, y : JsonInts]
AttackRequest == [action : {"ATTACK"}, player_id : Players, target_id : Players]
ScoreRequest  == [action : {"UPDATE_SCORE"}, player_id : Players, score : JsonInts]
\* No player is named: GET_STATE of a spectator, GET_METRICS, and the requests
\* refused before any call: bad JSON, no action, unknown action, a missing or
\* mistyped field, an empty or overlong chat message.
OtherRequest  == [action : {"SPECTATE", "GET_METRICS", "INVALID"}]

NamedRequest == PlayerRequest \cup MoveRequest \cup AttackRequest \cup ScoreRequest
Request == NamedRequest \cup OtherRequest

\* What the stores keep: a row of table players, and a cached position.
Row == [score : CInt, high_score : CInt]
Position == (MAP_MIN..MAP_MAX) \X (MAP_MIN..MAP_MAX)

ASSUME RequestAssumption ==
  /\ JsonInts \subseteq Int
  /\ \A v \in JsonInts : Clamp(GetInt(v)) \in Coords /\ GetInt(v) \in Scores
  /\ {"JOIN", "LEAVE", "CHAT", "MOVE", "ATTACK", "UPDATE_SCORE"} \subseteq EventTypes
  /\ NoRequest \notin Request

ASSUME CacheAssumption == CacheSettings \subseteq BOOLEAN

ASSUME NothingAssumption ==
  NoRow \notin Row /\ NoPos \notin Position /\ NoScore \notin CInt

Answered == <<"succeed", "timer">>
Refused == <<"fail", "timer">>
Recorded == <<"takeEventId", "pushEvent">> \o Answered

\* The calls of handleJoin, handleMove, ... in the order they are made.
Route(r) ==
  CASE r.action = "JOIN" ->
         <<"addPlayer", "activePlayerCount", "setActivePlayers", "setPlayerSession",
           "setSpawnPosition", "upsertPlayer", "dbRecordEvent">> \o Recorded
    [] r.action = "MOVE" -> <<"movePlayer", "setPlayerPosition">> \o Recorded
    [] r.action = "ATTACK" -> <<"attackPlayer">> \o Recorded
    [] r.action = "CHAT" -> <<"hasPlayer">> \o Recorded
    [] r.action = "GET_STATE" -> <<"hasPlayer", "getPlayerSession">> \o Answered
    [] r.action = "UPDATE_SCORE" ->
         IF GetInt(r.score) < 0 THEN Refused ELSE <<"setScore">> \o Recorded
    [] r.action = "LEAVE" ->
         <<"removePlayer", "activePlayerCount", "setActivePlayers",
           "deletePlayerSession", "upsertPlayer", "dbRecordEvent">> \o Recorded
    [] r.action \in {"SPECTATE", "GET_METRICS"} -> Answered
    [] r.action = "INVALID" -> Refused

Calls == {"addPlayer", "removePlayer", "movePlayer", "attackPlayer", "setScore",
          "hasPlayer", "activePlayerCount", "setActivePlayers", "setPlayerSession",
          "setSpawnPosition", "setPlayerPosition", "deletePlayerSession",
          "getPlayerSession", "upsertPlayer", "dbRecordEvent", "takeEventId",
          "pushEvent", "succeed", "fail", "timer"}

Idle(t) == todo[t] = <<>>
At(t, call) == todo[t] # <<>> /\ Head(todo[t]) = call
Proceed(t) == todo' = [todo EXCEPT ![t] = Tail(@)]
Refuse(t) == todo' = [todo EXCEPT ![t] = Refused]

\* handle() up to the dispatch: the request is counted.
Receive(t, r) ==
  /\ Idle(t)
  /\ r.action \in Actions
  /\ "player_id" \in DOMAIN r => r.player_id \in Speaks[t]
  /\ req' = [req EXCEPT ![t] = r]
  /\ todo' = [todo EXCEPT ![t] = Route(r)]
  /\ metrics' = [metrics EXCEPT !.requestsTotal = @ + 1]
  /\ UNCHANGED <<gsVars, count, finalScore, redis, late, dbPlayers, dbEvents, historyVars>>

-----------------------------------------------------------------------------
(* Calls on GameState *)

\* A call on GameState that may refuse the request, its effect and the rest.
JoinGame(t) ==
  /\ At(t, "addPlayer")
  /\ LET p == req[t].player_id
     IN  \/ /\ addPlayer(p) /\ Proceed(t)
            /\ farewell' = [farewell EXCEPT ![p] = NoScore]
         \/ /\ ~addPlayerOK(p) /\ Refuse(t)
            /\ UNCHANGED <<gsVars, farewell>>
  /\ UNCHANGED <<req, count, finalScore, metrics, redis, late, dbPlayers, dbEvents, finals,
                 unsaved>>

LeaveGame_goOn(t) ==
  /\ At(t, "removePlayer") /\ Proceed(t)
  /\ LET p == req[t].player_id
     IN  \/ /\ removePlayer(p)
            /\ finalScore' = [finalScore EXCEPT ![t] = m_players[p].score]
         \/ /\ ~removePlayerOK(p)
            /\ UNCHANGED <<gsVars, finalScore>>
  /\ UNCHANGED <<req, count, storeVars>>

LeaveGame(t) ==
  /\ At(t, "removePlayer")
  /\ LET p == req[t].player_id
     IN  \/ /\ removePlayer(p) /\ Proceed(t)
            /\ finalScore' = [finalScore EXCEPT ![t] = m_players[p].score]
         \/ /\ ~removePlayerOK(p) /\ Refuse(t)
            /\ UNCHANGED <<gsVars, finalScore>>
  /\ UNCHANGED <<req, count, storeVars>>

\* handleMove clamps, and movePlayer clamps again.
MoveInGame(t) ==
  /\ At(t, "movePlayer")
  /\ LET r == req[t]
     IN  \/ /\ movePlayer(r.player_id, Clamp(GetInt(r.x)), Clamp(GetInt(r.y)))
            /\ Proceed(t)
         \/ ~movePlayerOK(r.player_id) /\ Refuse(t) /\ UNCHANGED gsVars
  /\ UNCHANGED <<req, count, finalScore, storeVars>>

AttackInGame(t) ==
  /\ At(t, "attackPlayer")
  /\ LET r == req[t]
     IN  \/ attackPlayer(r.player_id, r.target_id) /\ Proceed(t)
         \/ /\ ~attackPlayerOK(r.player_id, r.target_id) /\ Refuse(t)
            /\ UNCHANGED gsVars
  /\ UNCHANGED <<req, count, finalScore, storeVars>>

ScoreInGame(t) ==
  /\ At(t, "setScore")
  /\ LET r == req[t]
     IN  \/ setScore(r.player_id, GetInt(r.score)) /\ Proceed(t)
         \/ ~setScoreOK(r.player_id) /\ Refuse(t) /\ UNCHANGED gsVars
  /\ UNCHANGED <<req, count, finalScore, storeVars>>

CheckInGame(t) ==
  /\ At(t, "hasPlayer")
  /\ IF hasPlayer(req[t].player_id) THEN Proceed(t) ELSE Refuse(t)
  /\ UNCHANGED <<gsVars, req, count, finalScore, storeVars>>

\* m_state.recordEvent, in its two steps.
StartEvent(t) ==
  /\ At(t, "takeEventId")
  /\ takeEventId(t, req[t].player_id, req[t].action)
  /\ Proceed(t)
  /\ UNCHANGED <<req, count, finalScore, storeVars>>

LogEvent(t) ==
  /\ At(t, "pushEvent")
  /\ pushEvent(t)
  /\ Proceed(t)
  /\ UNCHANGED <<req, count, finalScore, storeVars>>

-----------------------------------------------------------------------------
(* Metrics *)

\* setActivePlayers(activePlayerCount()): read under the lock, stored after it.
CountPlayers(t) ==
  /\ At(t, "activePlayerCount")
  /\ count' = [count EXCEPT ![t] = activePlayerCount]
  /\ Proceed(t)
  /\ UNCHANGED <<gsVars, req, finalScore, storeVars>>

SetGauge(t) ==
  /\ At(t, "setActivePlayers")
  /\ metrics' = [metrics EXCEPT !.activePlayers = count[t]]
  /\ Proceed(t)
  /\ UNCHANGED <<gsVars, req, count, finalScore, redis, late, dbPlayers, dbEvents,
                 historyVars>>

Succeed(t) ==
  /\ At(t, "succeed")
  /\ metrics' = [metrics EXCEPT !.successful = @ + 1]
  /\ farewell' = IF req[t].action = "LEAVE" /\ ~hasPlayer(req[t].player_id)
                   THEN [farewell EXCEPT ![req[t].player_id] = finalScore[t]]
                   ELSE farewell
  /\ finals' = IF req[t].action = "LEAVE"
                 THEN [finals EXCEPT ![req[t].player_id] = @ \cup {finalScore[t]}]
                 ELSE finals
  /\ Proceed(t)
  /\ UNCHANGED <<gsVars, req, count, finalScore, redis, late, dbPlayers, dbEvents, unsaved>>

Fail_both(t) ==
  /\ At(t, "fail")
  /\ metrics' = [metrics EXCEPT !.failed = @ + 1, !.successful = @ + 1]
  /\ Proceed(t)
  /\ UNCHANGED <<gsVars, req, count, finalScore, redis, late, dbPlayers, dbEvents,
                 historyVars>>

Fail(t) ==
  /\ At(t, "fail")
  /\ metrics' = [metrics EXCEPT !.failed = @ + 1]
  /\ Proceed(t)
  /\ UNCHANGED <<gsVars, req, count, finalScore, redis, late, dbPlayers, dbEvents,
                 historyVars>>

\* ScopedLatencyTimer's destructor; the worker is free, its locals are gone.
StopTimer(t) ==
  /\ At(t, "timer")
  /\ metrics' = [metrics EXCEPT !.latencyCount = @ + 1]
  /\ req' = [req EXCEPT ![t] = NoRequest]
  /\ count' = [count EXCEPT ![t] = 0]
  /\ finalScore' = [finalScore EXCEPT ![t] = 0]
  /\ Proceed(t)
  /\ UNCHANGED <<gsVars, redis, late, dbPlayers, dbEvents, historyVars>>

-----------------------------------------------------------------------------
(* Redis *)

SetSession(p) == [op |-> "SET session", player |-> p]
DelSession(p) == [op |-> "DEL session", player |-> p]
SetPosition(p, at) == [op |-> "SET pos", player |-> p, pos |-> at]

\* Set once, when the server starts.
CacheEnabled == redis.enabled

\* What Redis does on a command.
Executed(c) ==
  CASE c.op = "SET session" -> [redis EXCEPT !.session = @ \cup {c.player}]
    [] c.op = "DEL session" -> [redis EXCEPT !.session = @ \ {c.player}]
    [] c.op = "SET pos"     -> [redis EXCEPT !.pos[c.player] = c.pos]

\* RedisConnection sends a command and waits one second for the reply.  The
\* command is executed, or the caller gives up and closes the connection: then
\* it is executed later or, if it never got there, not at all.
Command(c) ==
  \/ redis' = Executed(c) /\ UNCHANGED late
  \/ "redis" \in MayFail /\ late' = late \cup {c} /\ UNCHANGED redis

\* The command of a cache call, when the cache is enabled.
Cache(t, c) ==
  /\ IF CacheEnabled THEN Command(c) ELSE UNCHANGED <<redis, late>>
  /\ Proceed(t)
  /\ UNCHANGED <<gsVars, req, count, finalScore, metrics, dbPlayers, dbEvents, historyVars>>

CacheSession(t) ==
  At(t, "setPlayerSession") /\ Cache(t, SetSession(req[t].player_id))

CacheSpawn(t) ==
  At(t, "setSpawnPosition") /\ Cache(t, SetPosition(req[t].player_id, <<SPAWN, SPAWN>>))

CachePosition_swapped(t) ==
  At(t, "setPlayerPosition")
    /\ Cache(t, SetPosition(req[t].player_id,
                            <<Clamp(GetInt(req[t].y)), Clamp(GetInt(req[t].x))>>))

CachePosition(t) ==
  At(t, "setPlayerPosition")
    /\ Cache(t, SetPosition(req[t].player_id,
                            <<Clamp(GetInt(req[t].x)), Clamp(GetInt(req[t].y))>>))

DropSession_position(t) ==
  At(t, "deletePlayerSession") /\ Cache(t, SetPosition(req[t].player_id, NoPos))

DropSession(t) ==
  At(t, "deletePlayerSession") /\ Cache(t, DelSession(req[t].player_id))

\* getPlayerSession counts a hit or a miss and the handler drops the session.
LookUpSession(t) ==
  /\ At(t, "getPlayerSession")
  /\ \/ /\ CacheEnabled /\ req[t].player_id \in redis.session
        /\ metrics' = [metrics EXCEPT !.hits = @ + 1]
     \/ /\ CacheEnabled
        /\ req[t].player_id \notin redis.session \/ "redis" \in MayFail
        /\ metrics' = [metrics EXCEPT !.misses = @ + 1]
     \/ ~CacheEnabled /\ UNCHANGED metrics
  /\ Proceed(t)
  /\ UNCHANGED <<gsVars, req, count, finalScore, redis, late, dbPlayers, dbEvents,
                 historyVars>>

\* A command its caller gave up is executed after all.
ExecuteLate ==
  \E c \in late :
    /\ redis' = Executed(c)
    /\ late' = late \ {c}
    /\ UNCHANGED <<gsVars, workerVars, metrics, dbPlayers, dbEvents, historyVars>>

\* A key's time to live runs out (300 s for a session, 60 s for a position).
Expire(p) ==
  /\ \/ p \in redis.session /\ redis' = [redis EXCEPT !.session = @ \ {p}]
     \/ redis.pos[p] # NoPos /\ redis' = [redis EXCEPT !.pos[p] = NoPos]
  /\ UNCHANGED <<gsVars, workerVars, metrics, late, dbPlayers, dbEvents, historyVars>>

-----------------------------------------------------------------------------
(* MySQL *)

Upserted_last(row, score) == [score |-> score, high_score |-> score]

\* INSERT ... ON DUPLICATE KEY UPDATE.  Every caller passes kills = 0, so the
\* kills column stays 0 and is left out.
Upserted(row, score) ==
  [score |-> score,
   high_score |-> IF row = NoRow \/ row.high_score < score THEN score
                                                           ELSE row.high_score]

ScoreToStore_zero(t) == 0

\* handleJoin stores a score of 0, handleLeave the final score.
ScoreToStore(t) == IF req[t].action = "LEAVE" THEN finalScore[t] ELSE 0

\* A statement is executed and counted; or it fails, which is counted when it
\* got as far as the statement and not when open() had failed.
Statement(t, effect) ==
  /\ \/ effect /\ metrics' = [metrics EXCEPT !.dbOperations = @ + 1] /\ UNCHANGED unsaved
     \/ /\ "mysql" \in MayFail /\ UNCHANGED <<dbPlayers, dbEvents>>
        /\ unsaved' = IF At(t, "upsertPlayer") THEN unsaved \cup {req[t].player_id} ELSE unsaved
        /\ \/ metrics' = [metrics EXCEPT !.dbOperations = @ + 1]
           \/ UNCHANGED metrics
  /\ Proceed(t)
  /\ UNCHANGED <<gsVars, req, count, finalScore, redis, late, farewell, finals>>

SavePlayer(t) ==
  /\ At(t, "upsertPlayer")
  /\ LET p == req[t].player_id
     IN  Statement(t, /\ dbPlayers' = [dbPlayers EXCEPT ![p] = Upserted(@, ScoreToStore(t))]
                      /\ UNCHANGED dbEvents)

SaveEvent(t) ==
  /\ At(t, "dbRecordEvent")
  /\ LET p == req[t].player_id
     IN  Statement(t, /\ dbEvents' = [dbEvents EXCEPT ![p] = Append(@, req[t].action)]
                      /\ UNCHANGED dbPlayers)

-----------------------------------------------------------------------------
RHInit ==
  /\ GSInit
  /\ req = [t \in Threads |-> NoRequest]
  /\ todo = [t \in Threads |-> <<>>]
  /\ count = [t \in Threads |-> 0]
  /\ finalScore = [t \in Threads |-> 0]
  /\ metrics = [requestsTotal |-> 0, successful |-> 0, failed |-> 0, latencyCount |-> 0,
                activePlayers |-> 0, hits |-> 0, misses |-> 0, dbOperations |-> 0]
  /\ \E enabled \in CacheSettings :
       redis = [enabled |-> enabled, session |-> {}, pos |-> [p \in Players |-> NoPos]]
  /\ late = {}
  /\ dbPlayers = [p \in Players |-> NoRow]
  /\ dbEvents = [p \in Players |-> <<>>]
  /\ farewell = [p \in Players |-> NoScore]
  /\ finals = [p \in Players |-> {}]
  /\ unsaved = {}

\* The next call of worker t's handler.
Step(t) ==
  \/ JoinGame(t) \/ LeaveGame(t) \/ MoveInGame(t) \/ AttackInGame(t)
  \/ ScoreInGame(t) \/ CheckInGame(t) \/ StartEvent(t) \/ LogEvent(t)
  \/ CountPlayers(t) \/ SetGauge(t) \/ Succeed(t) \/ Fail(t) \/ StopTimer(t)
  \/ CacheSession(t) \/ CacheSpawn(t) \/ CachePosition(t) \/ DropSession(t)
  \/ LookUpSession(t) \/ SavePlayer(t) \/ SaveEvent(t)

RHNext ==
  \/ \E t \in Threads : Step(t) \/ \E r \in Request : Receive(t, r)
  \/ ExecuteLate
  \/ \E p \in Players : Expire(p)

RHSpec == RHInit /\ [][RHNext]_rhVars

-----------------------------------------------------------------------------
(* Properties *)

RedisCommand ==
  {SetSession(p) : p \in Players} \cup {DelSession(p) : p \in Players}
    \cup {SetPosition(p, pos) : p \in Players, pos \in Position}

RHTypeOK ==
  /\ GSTypeOK
  /\ req \in [Threads -> Request \cup {NoRequest}]
  /\ todo \in [Threads -> Seq(Calls)]
  /\ count \in [Threads -> Nat] /\ finalScore \in [Threads -> CInt]
  /\ metrics \in [{"requestsTotal", "successful", "failed", "latencyCount",
                   "activePlayers", "hits", "misses", "dbOperations"} -> Nat]
  /\ redis \in [enabled : BOOLEAN, session : SUBSET Players,
                pos : [Players -> Position \cup {NoPos}]]
  /\ late \subseteq RedisCommand
  /\ dbPlayers \in [Players -> Row \cup {NoRow}]
  /\ dbEvents \in [Players -> Seq(EventTypes)]
  /\ farewell \in [Players -> CInt \cup {NoScore}]
  /\ finals \in [Players -> SUBSET CInt]
  /\ unsaved \subseteq Players

Unanswered == {t \in Threads : Len(todo[t]) > 1}
Untimed == {t \in Threads : Len(todo[t]) = 1}

\* The request counters agree at every moment, not only at rest: each request
\* received is a success, a failure or still with a worker, and each answered
\* one has been timed or is about to be (handle, ScopedLatencyTimer).
RequestsBalance ==
  /\ metrics.requestsTotal =
       metrics.successful + metrics.failed + Cardinality(Unanswered)
  /\ metrics.successful + metrics.failed = metrics.latencyCount + Cardinality(Untimed)

\* high_score is never below a final score that a LEAVE has answered, in
\* whatever order concurrent JOINs and LEAVEs of the player reach the database:
\* GREATEST in upsertPlayer is immune to reordering, unlike score itself.  Only an
\* upsertPlayer that fails for the player can lose it, since nobody repeats it.
HighScoreKept ==
  \A p \in Players \ unsaved : \A s \in finals[p] :
    dbPlayers[p] # NoRow /\ dbPlayers[p].high_score >= s

\* docs/architecture.md: LEAVE "persists final scores to MySQL".  Once LEAVE has
\* been answered the row holds the final score until the player joins again.  Two
\* connections that speak for one player can undo it: upsertPlayer of a JOIN that
\* was carried out before the LEAVE may come after it, with a score of 0.
FinalScorePersisted ==
  \A p \in Players :
    farewell[p] # NoScore => dbPlayers[p] # NoRow /\ dbPlayers[p].score = farewell[p]

\* docs/architecture.md: LEAVE "cleans up cached sessions".  Once LEAVE has been
\* answered no session is cached for the player until it joins again.
SessionDropped ==
  \A p \in Players : farewell[p] # NoScore => p \notin redis.session

\* Between the requests of the one client that moves a player, the cached
\* position is the player's position, or has expired.
PositionFresh ==
  \A t \in Threads, p \in Players :
    Idle(t) /\ p \in Speaks[t] /\ hasPlayer(p) =>
      redis.pos[p] \in {NoPos, <<m_players[p].x, m_players[p].y>>}

\* Event j of the log is the next one of the player of event i.
NextOf(i, j) ==
  /\ i < j /\ m_events[i].player_id = m_events[j].player_id
  /\ \A k \in (i + 1)..(j - 1) : m_events[k].player_id # m_events[i].player_id

\* The events of one player form a history, though ids are taken outside the
\* lock and other clients hit and eliminate the player meanwhile: they are
\* logged in the order of their ids, and after LEAVE comes nothing but JOIN.
PlayerHistory ==
  \A i, j \in 1..Len(m_events) : NextOf(i, j) =>
    /\ m_events[i].event_id < m_events[j].event_id
    /\ m_events[i].event_type = "LEAVE" => m_events[j].event_type = "JOIN"

\* Table game_events, which gets only JOIN and LEAVE, never shows a player
\* leaving without having joined.
DbHistory ==
  \A p \in Players : \A i \in 1..Len(dbEvents[p]) :
    dbEvents[p][i] = "LEAVE" => i > 1 /\ dbEvents[p][i - 1] = "JOIN"
=============================================================================
