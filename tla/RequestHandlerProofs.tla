------------------------ MODULE RequestHandlerProofs ------------------------
(***************************************************************************)
(* Proofs about RequestHandler, for any number of workers and players, any *)
(* mix of requests and any failure of the stores:                          *)
(*   - the handlers use GameState only as its specification allows, so     *)
(*     what GameStateProofs proves of GameState holds of the whole server; *)
(*   - the request counters balance;                                       *)
(*   - the cache, the database and the log agree with the game: high       *)
(*     scores, and, where each player is spoken for by one worker (Owned), *)
(*     final scores, sessions, positions and histories.                    *)
(* The inductive invariants are about the calls a worker still has to      *)
(* make: they end with exactly one answer and the timer, each is made for  *)
(* a request that carries its arguments (WellFormed), and they are made in *)
(* the order of the handler (Guided), so that the next call alone tells    *)
(* which calls of the request have been made.                              *)
(***************************************************************************)
EXTENDS RequestHandler, GameStateProofs

\* The calls that use req[t].player_id.
PlayerCalls == Calls \ {"activePlayerCount", "setActivePlayers", "pushEvent",
                        "succeed", "fail", "timer"}

\* A list of calls ends with one answer and the timer, and the request r has
\* the arguments of each call.
Itinerary(s, r) ==
  /\ s # <<>> => Len(s) >= 1 /\ s[Len(s)] = "timer"
  /\ \A i \in 1..Len(s) : /\ s[i] = "timer" => i = Len(s)
                          /\ s[i] \in {"succeed", "fail"} <=> i = Len(s) - 1
                          /\ s[i] \in PlayerCalls => r \in NamedRequest
                          /\ s[i] = "movePlayer" => r \in MoveRequest
                          /\ s[i] = "attackPlayer" => r \in AttackRequest
                          /\ s[i] = "setScore" => r \in ScoreRequest
                          /\ s[i] = "takeEventId" => r.action \in EventTypes

WellFormed ==
  /\ todo \in [Threads -> Seq(Calls)]
  /\ req \in [Threads -> Request \cup {NoRequest}]
  /\ \A t \in Threads : Itinerary(todo[t], req[t])

-----------------------------------------------------------------------------
(* Lists of calls *)

\* Every handler's list of calls is a proper one.
LEMMA RouteItinerary ==
  \A r \in Request : Route(r) \in Seq(Calls) /\ Itinerary(Route(r), r)
<1> SUFFICES ASSUME NEW r \in Request
             PROVE Route(r) \in Seq(Calls) /\ Itinerary(Route(r), r)
  OBVIOUS
<1>0. {"JOIN", "LEAVE", "CHAT", "MOVE", "ATTACK", "UPDATE_SCORE"} \subseteq EventTypes
  BY RequestAssumption
<1> USE <1>0 DEF Calls, PlayerCalls, Recorded, Answered, Refused
<1>1. CASE r \in PlayerRequest
  <2>0. r \in NamedRequest /\ r.action \in {"JOIN", "LEAVE", "CHAT", "GET_STATE"}
    BY <1>1 DEF NamedRequest, PlayerRequest
  <2>1. CASE r.action = "JOIN"
    BY <2>0, <2>1 DEF Route, Itinerary
  <2>2. CASE r.action = "LEAVE"
    BY <2>0, <2>2 DEF Route, Itinerary
  <2>3. CASE r.action = "CHAT"
    BY <2>0, <2>3 DEF Route, Itinerary
  <2>4. CASE r.action = "GET_STATE"
    BY <2>0, <2>4 DEF Route, Itinerary
  <2> QED BY <2>0, <2>1, <2>2, <2>3, <2>4
<1>2. CASE r \in MoveRequest
  <2>1. r \in NamedRequest /\ r.action = "MOVE"
    BY <1>2 DEF NamedRequest, MoveRequest
  <2>2. Route(r) = <<"movePlayer", "setPlayerPosition">> \o Recorded
    BY <2>1 DEF Route
  <2> QED BY <1>2, <2>1, <2>2 DEF Itinerary
<1>3. CASE r \in AttackRequest
  <2>1. r \in NamedRequest /\ r.action = "ATTACK"
    BY <1>3 DEF NamedRequest, AttackRequest
  <2>2. Route(r) = <<"attackPlayer">> \o Recorded
    BY <2>1 DEF Route
  <2> QED BY <1>3, <2>1, <2>2 DEF Itinerary
<1>4. CASE r \in ScoreRequest
  <2>1. r \in NamedRequest /\ r.action = "UPDATE_SCORE"
    BY <1>4 DEF NamedRequest, ScoreRequest
  <2>2. CASE GetInt(r.score) < 0
    BY <2>1, <2>2 DEF Route, Itinerary
  <2>3. CASE ~(GetInt(r.score) < 0)
    BY <1>4, <2>1, <2>3 DEF Route, Itinerary
  <2> QED BY <2>2, <2>3
<1>5. CASE r \in OtherRequest
  <2>1. r.action \in {"SPECTATE", "GET_METRICS", "INVALID"}
    BY <1>5 DEF OtherRequest
  <2>2. CASE r.action = "INVALID"
    BY <2>2 DEF Route, Itinerary
  <2>3. CASE r.action \in {"SPECTATE", "GET_METRICS"}
    <3>1. Route(r) = Answered
      BY <2>3 DEF Route
    <3> QED BY <3>1 DEF Itinerary
  <2> QED BY <2>1, <2>2, <2>3
<1> QED BY <1>1, <1>2, <1>3, <1>4, <1>5 DEF Request, NamedRequest

\* Making the first call leaves a proper list.
LEMMA TailItinerary ==
  ASSUME NEW s \in Seq(Calls), NEW r, s # <<>>, Itinerary(s, r)
  PROVE  /\ Tail(s) \in Seq(Calls) /\ Itinerary(Tail(s), r)
         /\ Head(s) = s[1] /\ 1 \in 1..Len(s) /\ Len(Tail(s)) = Len(s) - 1
<1>1. /\ Tail(s) \in Seq(Calls) /\ Len(Tail(s)) = Len(s) - 1
      /\ Len(s) \in Nat \ {0}
      /\ \A i \in 1..Len(Tail(s)) : Tail(s)[i] = s[i + 1]
      /\ Head(s) = s[1]
  OBVIOUS
<1>2. \A i \in 1..Len(Tail(s)) : i + 1 \in 1..Len(s)
  BY <1>1
<1>3. Itinerary(Tail(s), r)
  <2>1. Tail(s) # <<>> => Len(Tail(s)) >= 1 /\ Tail(s)[Len(Tail(s))] = "timer"
    <3> SUFFICES ASSUME Tail(s) # <<>>
                 PROVE Len(Tail(s)) >= 1 /\ Tail(s)[Len(Tail(s))] = "timer"
      OBVIOUS
    <3>1. Len(Tail(s)) \in 1..Len(Tail(s))
      BY <1>1
    <3>2. Tail(s)[Len(Tail(s))] = s[Len(s)]
      BY <1>1, <3>1
    <3>3. Len(Tail(s)) >= 1
      BY <1>1, <3>1
    <3>4. s[Len(s)] = "timer"
      BY DEF Itinerary
    <3> QED BY <3>2, <3>3, <3>4
  <2>2. ASSUME NEW i \in 1..Len(Tail(s))
        PROVE  /\ Tail(s)[i] = "timer" => i = Len(Tail(s))
               /\ Tail(s)[i] \in {"succeed", "fail"} <=> i = Len(Tail(s)) - 1
               /\ Tail(s)[i] \in PlayerCalls => r \in NamedRequest
               /\ Tail(s)[i] = "movePlayer" => r \in MoveRequest
               /\ Tail(s)[i] = "attackPlayer" => r \in AttackRequest
               /\ Tail(s)[i] = "setScore" => r \in ScoreRequest
               /\ Tail(s)[i] = "takeEventId" => r.action \in EventTypes
    <3> DEFINE j == i + 1
    <3>1. j \in 1..Len(s) /\ Tail(s)[i] = s[j]
      BY <1>1, <1>2
    <3>2. i = Len(Tail(s)) <=> j = Len(s)
      BY <1>1
    <3>3. i = Len(Tail(s)) - 1 <=> j = Len(s) - 1
      BY <1>1
    <3> HIDE DEF j
    <3> QED BY <3>1, <3>2, <3>3 DEF Itinerary
  <2> QED BY <2>1, <2>2 DEF Itinerary
<1> QED BY <1>1, <1>3

\* A refusal is a proper list.
LEMMA RefusedItinerary == \A r : Refused \in Seq(Calls) /\ Itinerary(Refused, r)
  BY DEF Refused, Calls, PlayerCalls, Itinerary

\* The first call of a proper list tells how far from its end the handler is.
LEMMA HeadLength ==
  ASSUME NEW s \in Seq(Calls), NEW r, s # <<>>, Itinerary(s, r)
  PROVE  /\ Head(s) = "timer" <=> Len(s) = 1
         /\ Head(s) \in {"succeed", "fail"} <=> Len(s) = 2
<1>1. Len(s) \in Nat \ {0} /\ Head(s) = s[1] /\ 1 \in 1..Len(s)
  OBVIOUS
<1>2. /\ s[Len(s)] = "timer"
      /\ s[1] = "timer" => 1 = Len(s)
      /\ s[1] \in {"succeed", "fail"} <=> 1 = Len(s) - 1
  BY <1>1 DEF Itinerary
<1> QED BY <1>1, <1>2

-----------------------------------------------------------------------------
(* Every worker's list stays proper *)

\* Making the next call leaves the rest of the request well formed.
LEMMA ProceedWellFormed ==
  ASSUME WellFormed, NEW t \in Threads, todo[t] # <<>>, Proceed(t), req' = req
  PROVE  WellFormed'
<1>1. /\ todo \in [Threads -> Seq(Calls)] /\ Itinerary(todo[t], req[t])
      /\ todo' = [todo EXCEPT ![t] = Tail(todo[t])]
  BY DEF WellFormed, Proceed
<1>2. Tail(todo[t]) \in Seq(Calls) /\ Itinerary(Tail(todo[t]), req[t])
  BY <1>1, TailItinerary
<1>3. todo' \in [Threads -> Seq(Calls)]
  BY <1>1, <1>2
<1>4. ASSUME NEW u \in Threads PROVE Itinerary(todo'[u], req'[u])
  <2>1. CASE u = t BY <1>1, <1>2, <2>1
  <2>2. CASE u # t BY <1>1, <2>2 DEF WellFormed
  <2> QED BY <2>1, <2>2
<1> QED BY <1>3, <1>4 DEF WellFormed

\* So does refusing the request, which leaves only the answer to send.
LEMMA RefuseWellFormed ==
  ASSUME WellFormed, NEW t \in Threads, Refuse(t), req' = req
  PROVE  WellFormed'
<1>1. /\ todo \in [Threads -> Seq(Calls)]
      /\ todo' = [todo EXCEPT ![t] = Refused]
  BY DEF WellFormed, Refuse
<1>2. Refused \in Seq(Calls) /\ Itinerary(Refused, req[t])
  BY RefusedItinerary
<1>3. todo' \in [Threads -> Seq(Calls)]
  BY <1>1, <1>2
<1>4. ASSUME NEW u \in Threads PROVE Itinerary(todo'[u], req'[u])
  <2>1. CASE u = t BY <1>1, <1>2, <2>1
  <2>2. CASE u # t BY <1>1, <2>2 DEF WellFormed
  <2> QED BY <2>1, <2>2
<1> QED BY <1>3, <1>4 DEF WellFormed

\* So does stopping the timer.
LEMMA TimerWellFormed ==
  ASSUME WellFormed, NEW t \in Threads, StopTimer(t)
  PROVE  WellFormed'
<1>1. /\ todo \in [Threads -> Seq(Calls)] /\ Itinerary(todo[t], req[t])
      /\ todo[t] # <<>> /\ Head(todo[t]) = "timer"
      /\ todo' = [todo EXCEPT ![t] = Tail(todo[t])]
      /\ req' = [req EXCEPT ![t] = NoRequest]
  BY DEF WellFormed, Proceed, StopTimer, At
<1>2. Len(todo[t]) = 1
  BY <1>1, HeadLength
<1>3. Tail(todo[t]) = <<>>
  BY <1>1, <1>2
<1>4. Itinerary(<<>>, NoRequest)
  BY DEF Itinerary
<1>5. todo' \in [Threads -> Seq(Calls)] /\ req' \in [Threads -> Request \cup {NoRequest}]
  BY <1>1, <1>3 DEF WellFormed
<1>6. ASSUME NEW u \in Threads PROVE Itinerary(todo'[u], req'[u])
  <2>1. CASE u = t
    <3>1. todo'[u] = <<>> /\ req'[u] = NoRequest
      BY <1>1, <1>3, <2>1 DEF WellFormed
    <3> QED BY <3>1, <1>4
  <2>2. CASE u # t
    <3>1. todo'[u] = todo[u] /\ req'[u] = req[u]
      BY <1>1, <2>2 DEF WellFormed
    <3> QED BY <3>1 DEF WellFormed
  <2> QED BY <2>1, <2>2
<1> QED BY <1>5, <1>6 DEF WellFormed

\* A request that arrives is well formed.
LEMMA ReceiveWellFormed ==
  ASSUME WellFormed, NEW t \in Threads, NEW r \in Request, Receive(t, r)
  PROVE  WellFormed'
<1>1. /\ todo' = [todo EXCEPT ![t] = Route(r)]
      /\ req' = [req EXCEPT ![t] = r]
  BY DEF Receive
<1>2. Route(r) \in Seq(Calls) /\ Itinerary(Route(r), r)
  BY RouteItinerary
<1>3. todo' \in [Threads -> Seq(Calls)] /\ req' \in [Threads -> Request \cup {NoRequest}]
  BY <1>1, <1>2 DEF WellFormed
<1>4. ASSUME NEW u \in Threads PROVE Itinerary(todo'[u], req'[u])
  <2>1. CASE u = t
    <3>1. todo'[u] = Route(r) /\ req'[u] = r
      BY <1>1, <2>1 DEF WellFormed
    <3> QED BY <3>1, <1>2
  <2>2. CASE u # t
    <3>1. todo'[u] = todo[u] /\ req'[u] = req[u]
      BY <1>1, <2>2 DEF WellFormed
    <3> QED BY <3>1 DEF WellFormed
  <2> QED BY <2>1, <2>2
<1> QED BY <1>3, <1>4 DEF WellFormed

\* A handler's step moves down the list of calls, cuts it short to a refusal, or
\* is the last one.
LEMMA StepShape ==
  ASSUME NEW t, Step(t)
  PROVE  /\ todo[t] # <<>>
         /\ \/ StopTimer(t)
            \/ req' = req /\ Proceed(t)
            \/ /\ req' = req /\ Refuse(t)
               /\ Head(todo[t]) \in {"addPlayer", "removePlayer", "movePlayer",
                                     "attackPlayer", "setScore", "hasPlayer"}
<1> USE DEF At
<1>1. CASE JoinGame(t) BY <1>1 DEF JoinGame
<1>2. CASE LeaveGame(t) BY <1>2 DEF LeaveGame
<1>3. CASE MoveInGame(t) BY <1>3 DEF MoveInGame
<1>4. CASE AttackInGame(t) BY <1>4 DEF AttackInGame
<1>5. CASE ScoreInGame(t) BY <1>5 DEF ScoreInGame
<1>6. CASE CheckInGame(t) BY <1>6 DEF CheckInGame
<1>7. CASE StartEvent(t) \/ LogEvent(t) BY <1>7 DEF StartEvent, LogEvent
<1>8. CASE CountPlayers(t) \/ SetGauge(t) \/ Succeed(t) \/ Fail(t)
  BY <1>8 DEF CountPlayers, SetGauge, Succeed, Fail
<1>9. CASE StopTimer(t) BY <1>9 DEF StopTimer
<1>10. CASE CacheSession(t) \/ CacheSpawn(t) \/ CachePosition(t) \/ DropSession(t)
  BY <1>10 DEF CacheSession, CacheSpawn, CachePosition, DropSession, Cache
<1>11. CASE LookUpSession(t) BY <1>11 DEF LookUpSession
<1>12. CASE SavePlayer(t) \/ SaveEvent(t)
  BY <1>12 DEF SavePlayer, SaveEvent, Statement
<1> QED BY <1>1, <1>2, <1>3, <1>4, <1>5, <1>6, <1>7, <1>8, <1>9, <1>10, <1>11,
           <1>12 DEF Step

\* At the start no worker has a request.
LEMMA WellFormedInit == RHInit => WellFormed
  BY DEF RHInit, WellFormed, Itinerary

\* Every step keeps the requests well formed.
LEMMA WellFormedStep == WellFormed /\ [RHNext]_rhVars => WellFormed'
<1> SUFFICES ASSUME WellFormed, [RHNext]_rhVars PROVE WellFormed'
  OBVIOUS
<1>1. ASSUME NEW t \in Threads, Step(t) PROVE WellFormed'
  BY <1>1, StepShape, ProceedWellFormed, RefuseWellFormed, TimerWellFormed
<1>2. ASSUME NEW t \in Threads, NEW r \in Request, Receive(t, r) PROVE WellFormed'
  BY <1>2, ReceiveWellFormed
<1>3. CASE UNCHANGED <<req, todo>>
  BY <1>3 DEF WellFormed
<1>4. CASE ExecuteLate BY <1>3, <1>4 DEF ExecuteLate, workerVars
<1>5. CASE \E p \in Players : Expire(p) BY <1>3, <1>5 DEF Expire, workerVars
<1>6. CASE UNCHANGED rhVars BY <1>3, <1>6 DEF rhVars, workerVars
<1> QED BY <1>1, <1>2, <1>4, <1>5, <1>6 DEF RHNext

\* In every state of the server, the calls each worker still has to make end
\* with exactly one answer and one stop of the latency timer, and the request
\* carries the arguments of each call (handle and the eight handlers).
THEOREM WellFormedCorrect == RHSpec => []WellFormed
  BY WellFormedInit, WellFormedStep, PTL DEF RHSpec

-----------------------------------------------------------------------------
(* The handlers implement GameState's specification *)

\* The arguments a handler passes to GameState are among those GSNext allows.
LEMMA Arguments ==
  ASSUME WellFormed, NEW t \in Threads, todo[t] # <<>>
  PROVE  LET c == Head(todo[t])  r == req[t] IN
         /\ c \in PlayerCalls => r.player_id \in Players
         /\ c = "movePlayer" => /\ Clamp(GetInt(r.x)) \in Coords
                                /\ Clamp(GetInt(r.y)) \in Coords
         /\ c = "attackPlayer" => r.target_id \in Players
         /\ c = "setScore" => GetInt(r.score) \in Scores
         /\ c = "takeEventId" => r.action \in EventTypes
<1> DEFINE c == Head(todo[t])
           r == req[t]
<1>1. todo[t] \in Seq(Calls) /\ Itinerary(todo[t], r)
  BY DEF WellFormed
<1>2. c = todo[t][1] /\ 1 \in 1..Len(todo[t])
  BY <1>1, TailItinerary
<1> HIDE DEF c, r
<1>3. /\ c \in PlayerCalls => r \in NamedRequest
      /\ c = "movePlayer" => r \in MoveRequest
      /\ c = "attackPlayer" => r \in AttackRequest
      /\ c = "setScore" => r \in ScoreRequest
      /\ c = "takeEventId" => r.action \in EventTypes
  BY <1>1, <1>2 DEF Itinerary
<1>4. r \in NamedRequest => r.player_id \in Players
  BY DEF NamedRequest, PlayerRequest, MoveRequest, AttackRequest, ScoreRequest
<1>5. r \in MoveRequest => r.x \in JsonInts /\ r.y \in JsonInts
  BY DEF MoveRequest
<1>6. r \in AttackRequest => r.target_id \in Players
  BY DEF AttackRequest
<1>7. r \in ScoreRequest => r.score \in JsonInts
  BY DEF ScoreRequest
<1>8. \A v \in JsonInts : Clamp(GetInt(v)) \in Coords /\ GetInt(v) \in Scores
  BY RequestAssumption
<1>9. /\ c \in PlayerCalls => r.player_id \in Players
      /\ c = "movePlayer" => /\ Clamp(GetInt(r.x)) \in Coords
                             /\ Clamp(GetInt(r.y)) \in Coords
      /\ c = "attackPlayer" => r.target_id \in Players
      /\ c = "setScore" => GetInt(r.score) \in Scores
      /\ c = "takeEventId" => r.action \in EventTypes
  BY <1>3, <1>4, <1>5, <1>6, <1>7, <1>8
<1> QED BY <1>9 DEF c, r

\* Each step of a handler is a step of GameState, or leaves it alone.
LEMMA StepRefines ==
  ASSUME WellFormed, NEW t \in Threads, Step(t)
  PROVE  GSNext \/ UNCHANGED gsVars
<1>0. todo[t] # <<>>
  BY StepShape
<1> USE DEF At, PlayerCalls, Calls
<1>1. CASE JoinGame(t)
  <2>1. req[t].player_id \in Players
    BY <1>0, <1>1, Arguments DEF JoinGame
  <2>2. addPlayer(req[t].player_id) \/ UNCHANGED gsVars
    BY <1>1 DEF JoinGame
  <2> QED BY <2>1, <2>2 DEF GSNext, PlayerNext
<1>2. CASE LeaveGame(t)
  <2>1. req[t].player_id \in Players
    BY <1>0, <1>2, Arguments DEF LeaveGame
  <2>2. removePlayer(req[t].player_id) \/ UNCHANGED gsVars
    BY <1>2 DEF LeaveGame
  <2> QED BY <2>1, <2>2 DEF GSNext, PlayerNext
<1>3. CASE MoveInGame(t)
  <2> DEFINE x == Clamp(GetInt(req[t].x))
             y == Clamp(GetInt(req[t].y))
  <2>1. req[t].player_id \in Players /\ x \in Coords /\ y \in Coords
    BY <1>0, <1>3, Arguments DEF MoveInGame
  <2>2. movePlayer(req[t].player_id, x, y) \/ UNCHANGED gsVars
    BY <1>3 DEF MoveInGame
  <2> HIDE DEF x, y
  <2> QED BY <2>1, <2>2 DEF GSNext, PlayerNext
<1>4. CASE AttackInGame(t)
  <2>1. req[t].player_id \in Players /\ req[t].target_id \in Players
    BY <1>0, <1>4, Arguments DEF AttackInGame
  <2>2. attackPlayer(req[t].player_id, req[t].target_id) \/ UNCHANGED gsVars
    BY <1>4 DEF AttackInGame
  <2> QED BY <2>1, <2>2 DEF GSNext, PlayerNext
<1>5. CASE ScoreInGame(t)
  <2>1. req[t].player_id \in Players /\ GetInt(req[t].score) \in Scores
    BY <1>0, <1>5, Arguments DEF ScoreInGame
  <2>2. setScore(req[t].player_id, GetInt(req[t].score)) \/ UNCHANGED gsVars
    BY <1>5 DEF ScoreInGame
  <2> QED BY <2>1, <2>2 DEF GSNext, PlayerNext
<1>6. CASE StartEvent(t)
  <2>1. req[t].player_id \in Players /\ req[t].action \in EventTypes
    BY <1>0, <1>6, Arguments DEF StartEvent
  <2>2. takeEventId(t, req[t].player_id, req[t].action)
    BY <1>6 DEF StartEvent
  <2> QED BY <2>1, <2>2 DEF GSNext, EventNext
<1>7. CASE LogEvent(t)
  BY <1>7 DEF LogEvent, GSNext, EventNext
<1>8. CASE CheckInGame(t) BY <1>8 DEF CheckInGame
<1>9. CASE CountPlayers(t) \/ SetGauge(t) \/ Succeed(t) \/ Fail(t) \/ StopTimer(t)
  BY <1>9 DEF CountPlayers, SetGauge, Succeed, Fail, StopTimer
<1>10. CASE CacheSession(t) \/ CacheSpawn(t) \/ CachePosition(t) \/ DropSession(t)
  BY <1>10 DEF CacheSession, CacheSpawn, CachePosition, DropSession, Cache
<1>11. CASE LookUpSession(t) BY <1>11 DEF LookUpSession
<1>12. CASE SavePlayer(t) \/ SaveEvent(t)
  BY <1>12 DEF SavePlayer, SaveEvent, Statement
<1> QED BY <1>1, <1>2, <1>3, <1>4, <1>5, <1>6, <1>7, <1>8, <1>9, <1>10, <1>11,
           <1>12 DEF Step

\* The handlers, however many workers run them and whatever the stores do, use
\* GameState only in the ways its own specification describes: the server
\* implements GSSpec.
THEOREM HandlersUseGameState == RHSpec => GSSpec
<1>1. RHInit => GSInit
  BY DEF RHInit
<1>2. WellFormed /\ [RHNext]_rhVars => [GSNext]_gsVars
  <2> SUFFICES ASSUME WellFormed, [RHNext]_rhVars
               PROVE GSNext \/ UNCHANGED gsVars
    OBVIOUS
  <2>1. ASSUME NEW t \in Threads, Step(t) PROVE GSNext \/ UNCHANGED gsVars
    BY <2>1, StepRefines
  <2>2. ASSUME NEW t \in Threads, NEW r \in Request, Receive(t, r)
        PROVE  UNCHANGED gsVars
    BY <2>2 DEF Receive
  <2>3. CASE ExecuteLate BY <2>3 DEF ExecuteLate
  <2>4. CASE \E p \in Players : Expire(p) BY <2>4 DEF Expire
  <2>5. CASE UNCHANGED rhVars BY <2>5 DEF rhVars
  <2> QED BY <2>1, <2>2, <2>3, <2>4, <2>5 DEF RHNext
<1> QED BY <1>1, <1>2, WellFormedCorrect, PTL DEF RHSpec, GSSpec

\* The match life cycle, the absence of dead players, the accounting of kills, the
\* uniqueness of event ids and the accounting of the log, proved of GameState
\* alone, hold of the whole server under concurrent requests.
THEOREM GameStateSafe ==
  RHSpec => [](MatchLifecycle /\ PlayersAlive /\ KillAccounting
                 /\ EventIdsUnique /\ LogAccounting)
  BY HandlersUseGameState, LifecycleCorrect, AliveCorrect, KillsCorrect, IdsCorrect,
     LogCorrect, PTL

-----------------------------------------------------------------------------
(* The request counters balance *)

MetricNames == {"requestsTotal", "successful", "failed", "latencyCount",
                "activePlayers", "hits", "misses", "dbOperations"}

\* The four request counters are natural numbers.
Counters ==
  /\ DOMAIN metrics = MetricNames
  /\ metrics = [n \in MetricNames |-> metrics[n]]
  /\ metrics.requestsTotal \in Nat /\ metrics.successful \in Nat
  /\ metrics.failed \in Nat /\ metrics.latencyCount \in Nat

BalanceInv == WellFormed /\ Counters /\ RequestsBalance

\* The numbers of busy workers when the list of one of them changes length.
LEMMA BusyCounts ==
  ASSUME WellFormed, WellFormed', NEW t \in Threads,
         \A u \in Threads \ {t} : todo'[u] = todo[u]
  PROVE  /\ Cardinality(Unanswered) \in Nat /\ Cardinality(Untimed) \in Nat
         /\ Len(todo[t]) > 1 /\ Len(todo'[t]) > 1 =>
              Unanswered' = Unanswered /\ Untimed' = Untimed
         /\ Len(todo[t]) = 2 /\ Len(todo'[t]) = 1 =>
              /\ Cardinality(Unanswered') = Cardinality(Unanswered) - 1
              /\ Cardinality(Untimed') = Cardinality(Untimed) + 1
         /\ Len(todo[t]) = 1 /\ Len(todo'[t]) = 0 =>
              /\ Unanswered' = Unanswered
              /\ Cardinality(Untimed') = Cardinality(Untimed) - 1
         /\ Len(todo[t]) = 0 /\ Len(todo'[t]) > 1 =>
              /\ Cardinality(Unanswered') = Cardinality(Unanswered) + 1
              /\ Untimed' = Untimed
<1>0. /\ \A u \in Threads : Len(todo[u]) \in Nat /\ Len(todo'[u]) \in Nat
      /\ \A u \in Threads \ {t} : Len(todo'[u]) = Len(todo[u])
  BY DEF WellFormed
<1>t. /\ Len(todo[t]) > 1 => Len(todo[t]) # 1
      /\ Len(todo'[t]) > 1 => Len(todo'[t]) # 1
  <2> DEFINE n == Len(todo[t])
             m == Len(todo'[t])
  <2>1. n \in Nat /\ m \in Nat
    BY <1>0
  <2> HIDE DEF n, m
  <2>2. (n > 1 => n # 1) /\ (m > 1 => m # 1)
    BY <2>1
  <2> QED BY <2>2 DEF n, m
<1>1. IsFiniteSet(Unanswered) /\ IsFiniteSet(Untimed)
  BY FS_Subset, ThreadsAssumption DEF Unanswered, Untimed
<1>2. Cardinality(Unanswered) \in Nat /\ Cardinality(Untimed) \in Nat
  BY <1>1, FS_CardinalityType
<1>3. ASSUME Len(todo[t]) > 1, Len(todo'[t]) > 1
      PROVE  Unanswered' = Unanswered /\ Untimed' = Untimed
  <2>1. ASSUME NEW u \in Threads
        PROVE  /\ Len(todo'[u]) > 1 <=> Len(todo[u]) > 1
               /\ Len(todo'[u]) = 1 <=> Len(todo[u]) = 1
    <3>1. CASE u = t
      <4>1. Len(todo'[t]) # 1 /\ Len(todo[t]) # 1 BY <1>t, <1>3
      <4> QED BY <1>3, <3>1, <4>1
    <3>2. CASE u # t BY <1>0, <3>2
    <3> QED BY <3>1, <3>2
  <2> QED BY <2>1 DEF Unanswered, Untimed
<1>4. ASSUME Len(todo[t]) = 2, Len(todo'[t]) = 1
      PROVE  /\ Cardinality(Unanswered') = Cardinality(Unanswered) - 1
             /\ Cardinality(Untimed') = Cardinality(Untimed) + 1
  <2>1. Unanswered' = Unanswered \ {t} /\ t \in Unanswered
    <3>1. ASSUME NEW u \in Threads
          PROVE  Len(todo'[u]) > 1 <=> Len(todo[u]) > 1 /\ u # t
      <4>1. CASE u = t
        <5>1. ~(Len(todo'[t]) > 1) BY <1>4
        <5> QED BY <4>1, <5>1
      <4>2. CASE u # t BY <1>0, <4>2
      <4> QED BY <4>1, <4>2
    <3>2. Len(todo[t]) > 1
      BY <1>4
    <3> QED BY <3>1, <3>2 DEF Unanswered
  <2>2. Untimed' = Untimed \cup {t} /\ t \notin Untimed
    BY <1>0, <1>4 DEF Untimed
  <2> QED BY <1>1, <2>1, <2>2, FS_RemoveElement, FS_AddElement
<1>5. ASSUME Len(todo[t]) = 1, Len(todo'[t]) = 0
      PROVE  /\ Unanswered' = Unanswered
             /\ Cardinality(Untimed') = Cardinality(Untimed) - 1
  <2>1. Unanswered' = Unanswered
    <3>1. ASSUME NEW u \in Threads PROVE Len(todo'[u]) > 1 <=> Len(todo[u]) > 1
      <4>1. CASE u = t
        <5>1. ~(Len(todo'[t]) > 1) /\ ~(Len(todo[t]) > 1) BY <1>5
        <5> QED BY <4>1, <5>1
      <4>2. CASE u # t BY <1>0, <4>2
      <4> QED BY <4>1, <4>2
    <3> QED BY <3>1 DEF Unanswered
  <2>2. Untimed' = Untimed \ {t} /\ t \in Untimed
    BY <1>0, <1>5 DEF Untimed
  <2> QED BY <1>1, <2>1, <2>2, FS_RemoveElement
<1>6. ASSUME Len(todo[t]) = 0, Len(todo'[t]) > 1
      PROVE  /\ Cardinality(Unanswered') = Cardinality(Unanswered) + 1
             /\ Untimed' = Untimed
  <2>1. Unanswered' = Unanswered \cup {t} /\ t \notin Unanswered
    BY <1>0, <1>6 DEF Unanswered
  <2>2. Untimed' = Untimed
    <3>1. ASSUME NEW u \in Threads PROVE Len(todo'[u]) = 1 <=> Len(todo[u]) = 1
      <4>1. CASE u = t
        <5>1. Len(todo'[t]) # 1 /\ Len(todo[t]) # 1 BY <1>t, <1>6
        <5> QED BY <4>1, <5>1
      <4>2. CASE u # t BY <1>0, <4>2
      <4> QED BY <4>1, <4>2
    <3> QED BY <3>1 DEF Untimed
  <2> QED BY <1>1, <2>1, <2>2, FS_AddElement
<1> QED BY <1>2, <1>3, <1>4, <1>5, <1>6

\* What a handler's step does to the request counters depends on the call alone.
LEMMA CounterStep ==
  ASSUME Counters, NEW t \in Threads, Step(t)
  PROVE  /\ Counters'
         /\ metrics'.requestsTotal = metrics.requestsTotal
         /\ metrics'.successful = IF Head(todo[t]) = "succeed"
                                    THEN metrics.successful + 1 ELSE metrics.successful
         /\ metrics'.failed = IF Head(todo[t]) = "fail"
                                THEN metrics.failed + 1 ELSE metrics.failed
         /\ metrics'.latencyCount = IF Head(todo[t]) = "timer"
                                      THEN metrics.latencyCount + 1
                                      ELSE metrics.latencyCount
<1> USE DEF At, Counters, MetricNames
<1>0. CASE UNCHANGED metrics /\ Head(todo[t]) \notin {"succeed", "fail", "timer"}
  BY <1>0
<1>1. CASE JoinGame(t) BY <1>0, <1>1 DEF JoinGame
<1>2. CASE LeaveGame(t) BY <1>0, <1>2 DEF LeaveGame, storeVars
<1>3. CASE MoveInGame(t) BY <1>0, <1>3 DEF MoveInGame, storeVars
<1>4. CASE AttackInGame(t) BY <1>0, <1>4 DEF AttackInGame, storeVars
<1>5. CASE ScoreInGame(t) BY <1>0, <1>5 DEF ScoreInGame, storeVars
<1>6. CASE CheckInGame(t) BY <1>0, <1>6 DEF CheckInGame, storeVars
<1>7. CASE StartEvent(t) \/ LogEvent(t) \/ CountPlayers(t)
  BY <1>0, <1>7 DEF StartEvent, LogEvent, CountPlayers, storeVars
<1>8. CASE CacheSession(t) \/ CacheSpawn(t) \/ CachePosition(t) \/ DropSession(t)
  BY <1>0, <1>8 DEF CacheSession, CacheSpawn, CachePosition, DropSession, Cache
<1>9. CASE SetGauge(t) BY <1>9 DEF SetGauge
<1>10. CASE LookUpSession(t) BY <1>10 DEF LookUpSession
<1>11. CASE SavePlayer(t) \/ SaveEvent(t)
  BY <1>11 DEF SavePlayer, SaveEvent, Statement
<1>12. CASE Succeed(t)
  <2>1. Head(todo[t]) = "succeed" /\ metrics' = [metrics EXCEPT !.successful = @ + 1]
    BY <1>12 DEF Succeed
  <2> QED BY <2>1
<1>13. CASE Fail(t)
  <2>1. Head(todo[t]) = "fail" /\ metrics' = [metrics EXCEPT !.failed = @ + 1]
    BY <1>13 DEF Fail
  <2> QED BY <2>1
<1>14. CASE StopTimer(t)
  <2>1. Head(todo[t]) = "timer" /\ metrics' = [metrics EXCEPT !.latencyCount = @ + 1]
    BY <1>14 DEF StopTimer
  <2> QED BY <2>1
<1> QED BY <1>1, <1>2, <1>3, <1>4, <1>5, <1>6, <1>7, <1>8, <1>9, <1>10, <1>11,
           <1>12, <1>13, <1>14 DEF Step

\* A handler's step takes its list one nearer to the end, or to a refusal from
\* before the answer; what it does to the counters follows from the length.
LEMMA LengthStep ==
  ASSUME WellFormed, NEW t \in Threads, Step(t)
  PROVE  /\ \A u \in Threads \ {t} : todo'[u] = todo[u]
         /\ \/ /\ Len(todo[t]) > 1 /\ Len(todo'[t]) > 1
               /\ Head(todo[t]) \notin {"succeed", "fail", "timer"}
            \/ /\ Len(todo[t]) = 2 /\ Len(todo'[t]) = 1
               /\ Head(todo[t]) \in {"succeed", "fail"}
            \/ /\ Len(todo[t]) = 1 /\ Len(todo'[t]) = 0
               /\ Head(todo[t]) = "timer"
<1> DEFINE n == Len(todo[t])
           m == Len(todo'[t])
           c == Head(todo[t])
<1>1. /\ todo[t] \in Seq(Calls) /\ todo[t] # <<>> /\ Itinerary(todo[t], req[t])
      /\ todo \in [Threads -> Seq(Calls)]
  BY StepShape DEF WellFormed
<1>2. Len(Tail(todo[t])) = n - 1
  BY <1>1, TailItinerary
<1>3. /\ n \in Nat \ {0}
      /\ c = "timer" <=> n = 1
      /\ c \in {"succeed", "fail"} <=> n = 2
  BY <1>1, HeadLength
<1>4. \/ Proceed(t)
      \/ /\ Refuse(t)
         /\ c \in {"addPlayer", "removePlayer", "movePlayer", "attackPlayer",
                   "setScore", "hasPlayer"}
  BY StepShape DEF StopTimer
<1>5. \/ m = n - 1
      \/ m = 2 /\ c \notin {"succeed", "fail", "timer"}
  <2>1. CASE Proceed(t)
    <3>1. todo'[t] = Tail(todo[t])
      BY <1>1, <2>1 DEF Proceed
    <3> QED BY <1>2, <3>1
  <2>2. CASE /\ Refuse(t)
             /\ c \in {"addPlayer", "removePlayer", "movePlayer", "attackPlayer",
                       "setScore", "hasPlayer"}
    <3>1. todo'[t] = Refused
      BY <1>1, <2>2 DEF Refuse
    <3>2. Len(Refused) = 2
      BY DEF Refused
    <3> QED BY <2>2, <3>1, <3>2
  <2> QED BY <1>4, <2>1, <2>2
<1>6. \A u \in Threads \ {t} : todo'[u] = todo[u]
  BY <1>1, <1>4 DEF Proceed, Refuse
<1> HIDE DEF n, m, c
<1>7. \/ n > 2 /\ c \notin {"succeed", "fail", "timer"}
      \/ n = 2 /\ c \in {"succeed", "fail"}
      \/ n = 1 /\ c = "timer"
  BY <1>3
<1>8. \/ n > 1 /\ m > 1 /\ c \notin {"succeed", "fail", "timer"}
      \/ n = 2 /\ m = 1 /\ c \in {"succeed", "fail"}
      \/ n = 1 /\ m = 0 /\ c = "timer"
  <2>1. CASE n > 2 /\ c \notin {"succeed", "fail", "timer"}
    BY <1>3, <1>5, <2>1
  <2>2. CASE n = 2 /\ c \in {"succeed", "fail"}
    BY <1>5, <2>2
  <2>3. CASE n = 1 /\ c = "timer"
    BY <1>5, <2>3
  <2> QED BY <1>7, <2>1, <2>2, <2>3
<1> QED BY <1>6, <1>8 DEF n, m, c

\* A call of a worker keeps the counters in balance.
LEMMA BalanceStepOf ==
  ASSUME BalanceInv, WellFormed', NEW t \in Threads, Step(t)
  PROVE  Counters' /\ RequestsBalance'
<1>1. Counters /\ Counters' /\ WellFormed
  BY CounterStep DEF BalanceInv
<1>2. \A u \in Threads \ {t} : todo'[u] = todo[u]
  BY <1>1, LengthStep
<1>3. Cardinality(Unanswered) \in Nat /\ Cardinality(Untimed) \in Nat
  BY <1>1, <1>2, BusyCounts
<1>4. /\ metrics.requestsTotal \in Nat /\ metrics.successful \in Nat
      /\ metrics.failed \in Nat /\ metrics.latencyCount \in Nat
      /\ metrics.requestsTotal =
           metrics.successful + metrics.failed + Cardinality(Unanswered)
      /\ metrics.successful + metrics.failed =
           metrics.latencyCount + Cardinality(Untimed)
  BY DEF BalanceInv, Counters, RequestsBalance
<1>5. CASE /\ Len(todo[t]) > 1 /\ Len(todo'[t]) > 1
           /\ Head(todo[t]) \notin {"succeed", "fail", "timer"}
  <2>1. Unanswered' = Unanswered /\ Untimed' = Untimed
    BY <1>1, <1>2, <1>5, BusyCounts
  <2>2. /\ metrics'.requestsTotal = metrics.requestsTotal
        /\ metrics'.successful = metrics.successful
        /\ metrics'.failed = metrics.failed
        /\ metrics'.latencyCount = metrics.latencyCount
    BY <1>1, <1>5, CounterStep
  <2> QED BY <1>1, <1>4, <2>1, <2>2 DEF RequestsBalance
<1>6. CASE /\ Len(todo[t]) = 2 /\ Len(todo'[t]) = 1
           /\ Head(todo[t]) \in {"succeed", "fail"}
  <2>1. /\ Cardinality(Unanswered') = Cardinality(Unanswered) - 1
        /\ Cardinality(Untimed') = Cardinality(Untimed) + 1
    BY <1>1, <1>2, <1>6, BusyCounts
  <2>2. /\ metrics'.requestsTotal = metrics.requestsTotal
        /\ metrics'.successful + metrics'.failed = metrics.successful + metrics.failed + 1
        /\ metrics'.latencyCount = metrics.latencyCount
    <3>1. CASE Head(todo[t]) = "succeed" BY <1>1, <1>4, <3>1, CounterStep
    <3>2. CASE Head(todo[t]) = "fail" BY <1>1, <1>4, <3>2, CounterStep
    <3> QED BY <1>6, <3>1, <3>2
  <2>3. metrics'.successful \in Nat /\ metrics'.failed \in Nat
    BY <1>1 DEF Counters
  <2> QED BY <1>1, <1>3, <1>4, <2>1, <2>2, <2>3 DEF RequestsBalance
<1>7. CASE /\ Len(todo[t]) = 1 /\ Len(todo'[t]) = 0
           /\ Head(todo[t]) = "timer"
  <2>1. /\ Unanswered' = Unanswered
        /\ Cardinality(Untimed') = Cardinality(Untimed) - 1
    BY <1>1, <1>2, <1>7, BusyCounts
  <2>2. /\ metrics'.requestsTotal = metrics.requestsTotal
        /\ metrics'.successful = metrics.successful
        /\ metrics'.failed = metrics.failed
        /\ metrics'.latencyCount = metrics.latencyCount + 1
    BY <1>1, <1>7, CounterStep
  <2> DEFINE n == metrics.latencyCount
             k == Cardinality(Untimed)
  <2>3. n \in Int /\ k \in Int
    BY <1>3, <1>4
  <2> HIDE DEF n, k
  <2>4. (n + 1) + (k - 1) = n + k
    BY <2>3
  <2>5. metrics'.latencyCount + Cardinality(Untimed') = n + k
    BY <2>1, <2>2, <2>4 DEF n, k
  <2> QED BY <1>1, <1>4, <2>1, <2>2, <2>5 DEF RequestsBalance, n, k
<1> QED BY <1>1, <1>5, <1>6, <1>7, LengthStep

\* A handler's list holds at least an answer and the timer.
LEMMA RouteLength == \A r \in Request : Len(Route(r)) > 1
<1> SUFFICES ASSUME NEW r \in Request PROVE Len(Route(r)) > 1
  OBVIOUS
<1>1. r.action \in {"JOIN", "LEAVE", "CHAT", "GET_STATE", "MOVE", "ATTACK",
                    "UPDATE_SCORE", "SPECTATE", "GET_METRICS", "INVALID"}
  BY DEF Request, NamedRequest, PlayerRequest, MoveRequest, AttackRequest,
         ScoreRequest, OtherRequest
<1> USE DEF Recorded, Answered, Refused
<1>2. CASE r.action \in {"JOIN", "LEAVE"} BY <1>2 DEF Route
<1>3. CASE r.action \in {"CHAT", "GET_STATE", "MOVE", "ATTACK"} BY <1>3 DEF Route
<1>4. CASE r.action = "UPDATE_SCORE" BY <1>4 DEF Route
<1>5. CASE r.action \in {"SPECTATE", "GET_METRICS", "INVALID"} BY <1>5 DEF Route
<1> QED BY <1>1, <1>2, <1>3, <1>4, <1>5

\* So does a request that arrives.
LEMMA BalanceReceive ==
  ASSUME BalanceInv, WellFormed', NEW t \in Threads, NEW r \in Request, Receive(t, r)
  PROVE  Counters' /\ RequestsBalance'
<1>1. /\ todo \in [Threads -> Seq(Calls)] /\ todo[t] = <<>>
      /\ todo' = [todo EXCEPT ![t] = Route(r)]
  BY DEF BalanceInv, WellFormed, Receive, Idle
<1>2. Len(todo[t]) = 0 /\ Len(todo'[t]) > 1
  BY <1>1, RouteLength
<1>3. WellFormed /\ \A u \in Threads \ {t} : todo'[u] = todo[u]
  BY <1>1 DEF BalanceInv
<1>4. /\ Cardinality(Unanswered) \in Nat /\ Cardinality(Untimed) \in Nat
      /\ Cardinality(Unanswered') = Cardinality(Unanswered) + 1
      /\ Untimed' = Untimed
  BY <1>2, <1>3, BusyCounts
<1>5. /\ Counters'
      /\ metrics'.requestsTotal = metrics.requestsTotal + 1
      /\ metrics'.successful = metrics.successful
      /\ metrics'.failed = metrics.failed
      /\ metrics'.latencyCount = metrics.latencyCount
  BY DEF BalanceInv, Counters, MetricNames, Receive
<1>6. /\ metrics.requestsTotal \in Nat /\ metrics.successful \in Nat
      /\ metrics.failed \in Nat /\ metrics.latencyCount \in Nat
      /\ metrics.requestsTotal =
           metrics.successful + metrics.failed + Cardinality(Unanswered)
      /\ metrics.successful + metrics.failed =
           metrics.latencyCount + Cardinality(Untimed)
  BY DEF BalanceInv, Counters, RequestsBalance
<1> QED BY <1>4, <1>5, <1>6 DEF RequestsBalance

\* However the workers' steps interleave and whatever the stores do, every
\* request counted is counted as a success, as a failure, or is still with a
\* worker, and every answer is timed (handle, MetricsRegistry).
THEOREM BalanceCorrect == RHSpec => []RequestsBalance
<1>1. RHInit => BalanceInv
  <2> SUFFICES ASSUME RHInit PROVE BalanceInv
    OBVIOUS
  <2>1. WellFormed /\ Counters
    BY WellFormedInit DEF RHInit, Counters, MetricNames
  <2>2. Unanswered = {} /\ Untimed = {}
    BY DEF RHInit, Unanswered, Untimed
  <2>3. Cardinality({}) = 0
    BY FS_EmptySet
  <2> QED BY <2>1, <2>2, <2>3 DEF BalanceInv, RequestsBalance, RHInit
<1>2. BalanceInv /\ [RHNext]_rhVars => BalanceInv'
  <2> SUFFICES ASSUME BalanceInv, [RHNext]_rhVars PROVE BalanceInv'
    OBVIOUS
  <2>0. WellFormed'
    BY WellFormedStep DEF BalanceInv
  <2>1. ASSUME NEW t \in Threads, Step(t) PROVE BalanceInv'
    BY <2>0, <2>1, BalanceStepOf DEF BalanceInv
  <2>2. ASSUME NEW t \in Threads, NEW r \in Request, Receive(t, r) PROVE BalanceInv'
    BY <2>0, <2>2, BalanceReceive DEF BalanceInv
  <2>3. CASE UNCHANGED <<todo, metrics>>
    BY <2>0, <2>3 DEF BalanceInv, Counters, RequestsBalance, Unanswered, Untimed
  <2>4. CASE ExecuteLate BY <2>3, <2>4 DEF ExecuteLate, workerVars
  <2>5. CASE \E p \in Players : Expire(p) BY <2>3, <2>5 DEF Expire, workerVars
  <2>6. CASE UNCHANGED rhVars BY <2>3, <2>6 DEF rhVars, workerVars, storeVars
  <2> QED BY <2>1, <2>2, <2>4, <2>5, <2>6 DEF RHNext
<1> QED BY <1>1, <1>2, PTL DEF RHSpec, BalanceInv

-----------------------------------------------------------------------------
(* Where a worker is in its handler *)

\* Where worker t is: the call it makes next.
Place(t) == IF todo[t] = <<>> THEN "idle" ELSE Head(todo[t])

\* The actions whose handlers make a call.
MadeBy(c) ==
  CASE c \in {"addPlayer", "setPlayerSession", "setSpawnPosition"} -> {"JOIN"}
    [] c \in {"removePlayer", "deletePlayerSession"} -> {"LEAVE"}
    [] c \in {"activePlayerCount", "setActivePlayers", "upsertPlayer", "dbRecordEvent"} ->
         {"JOIN", "LEAVE"}
    [] c \in {"movePlayer", "setPlayerPosition"} -> {"MOVE"}
    [] c = "attackPlayer" -> {"ATTACK"}
    [] c = "setScore" -> {"UPDATE_SCORE"}
    [] c = "hasPlayer" -> {"CHAT", "GET_STATE"}
    [] c = "getPlayerSession" -> {"GET_STATE"}
    [] c \in {"takeEventId", "pushEvent"} ->
         {"JOIN", "MOVE", "ATTACK", "CHAT", "UPDATE_SCORE", "LEAVE"}
    [] OTHER -> {"JOIN", "MOVE", "ATTACK", "CHAT", "GET_STATE", "UPDATE_SCORE", "LEAVE",
                 "SPECTATE", "GET_METRICS", "INVALID"}

\* The call that follows c in the handler of action a, unless the request is refused.
Follow(a, c) ==
  CASE c \in {"addPlayer", "removePlayer"} -> "activePlayerCount"
    [] c = "activePlayerCount" -> "setActivePlayers"
    [] c = "setActivePlayers" -> IF a = "JOIN" THEN "setPlayerSession" ELSE "deletePlayerSession"
    [] c = "setPlayerSession" -> "setSpawnPosition"
    [] c \in {"setSpawnPosition", "deletePlayerSession"} -> "upsertPlayer"
    [] c = "upsertPlayer" -> "dbRecordEvent"
    [] c = "movePlayer" -> "setPlayerPosition"
    [] c = "hasPlayer" -> IF a = "CHAT" THEN "takeEventId" ELSE "getPlayerSession"
    [] c \in {"dbRecordEvent", "setPlayerPosition", "attackPlayer", "setScore"} -> "takeEventId"
    [] c = "takeEventId" -> "pushEvent"
    [] c \in {"pushEvent", "getPlayerSession"} -> "succeed"
    [] OTHER -> "timer"

\* The calls s are made by the handler of request r, in its order.
Guide(s, r) ==
  \A i \in 1..Len(s) :
    r.action \in MadeBy(s[i]) /\ (i < Len(s) => s[i + 1] = Follow(r.action, s[i]))

\* Every worker makes the calls of its request's handler.
Guided ==
  \A t \in Threads : Guide(todo[t], req[t]) /\ (todo[t] # <<>> => req[t] \in Request)

\* Follow and MadeBy, call by call.
LEMMA Calling ==
  /\ \A a : Follow(a, "addPlayer") = "activePlayerCount"
  /\ \A a : Follow(a, "removePlayer") = "activePlayerCount"
  /\ \A a : Follow(a, "activePlayerCount") = "setActivePlayers"
  /\ Follow("JOIN", "setActivePlayers") = "setPlayerSession"
  /\ Follow("LEAVE", "setActivePlayers") = "deletePlayerSession"
  /\ \A a : Follow(a, "setPlayerSession") = "setSpawnPosition"
  /\ \A a : Follow(a, "setSpawnPosition") = "upsertPlayer"
  /\ \A a : Follow(a, "deletePlayerSession") = "upsertPlayer"
  /\ \A a : Follow(a, "upsertPlayer") = "dbRecordEvent"
  /\ \A a : Follow(a, "dbRecordEvent") = "takeEventId"
  /\ \A a : Follow(a, "movePlayer") = "setPlayerPosition"
  /\ \A a : Follow(a, "setPlayerPosition") = "takeEventId"
  /\ \A a : Follow(a, "attackPlayer") = "takeEventId"
  /\ \A a : Follow(a, "setScore") = "takeEventId"
  /\ Follow("CHAT", "hasPlayer") = "takeEventId"
  /\ Follow("GET_STATE", "hasPlayer") = "getPlayerSession"
  /\ \A a : Follow(a, "getPlayerSession") = "succeed"
  /\ \A a : Follow(a, "takeEventId") = "pushEvent"
  /\ \A a : Follow(a, "pushEvent") = "succeed"
  /\ \A a : Follow(a, "succeed") = "timer"
  /\ \A a : Follow(a, "fail") = "timer"
  BY DEF Follow

\* The actions that make each call.
LEMMA Makers ==
  /\ MadeBy("addPlayer") = {"JOIN"} /\ MadeBy("setPlayerSession") = {"JOIN"}
  /\ MadeBy("setSpawnPosition") = {"JOIN"}
  /\ MadeBy("removePlayer") = {"LEAVE"} /\ MadeBy("deletePlayerSession") = {"LEAVE"}
  /\ MadeBy("activePlayerCount") = {"JOIN", "LEAVE"}
  /\ MadeBy("setActivePlayers") = {"JOIN", "LEAVE"}
  /\ MadeBy("upsertPlayer") = {"JOIN", "LEAVE"}
  /\ MadeBy("dbRecordEvent") = {"JOIN", "LEAVE"}
  /\ MadeBy("movePlayer") = {"MOVE"} /\ MadeBy("setPlayerPosition") = {"MOVE"}
  /\ MadeBy("attackPlayer") = {"ATTACK"} /\ MadeBy("setScore") = {"UPDATE_SCORE"}
  /\ MadeBy("hasPlayer") = {"CHAT", "GET_STATE"}
  /\ MadeBy("getPlayerSession") = {"GET_STATE"}
  /\ \A c \in {"takeEventId", "pushEvent"} :
       MadeBy(c) = {"JOIN", "MOVE", "ATTACK", "CHAT", "UPDATE_SCORE", "LEAVE"}
  /\ \A c \in {"succeed", "fail", "timer"} :
       MadeBy(c) = {"JOIN", "MOVE", "ATTACK", "CHAT", "GET_STATE", "UPDATE_SCORE", "LEAVE",
                    "SPECTATE", "GET_METRICS", "INVALID"}
  BY DEF MadeBy

\* The lists of calls in Route are the handlers' lists.
LEMMA RouteGuide == \A r \in Request : Guide(Route(r), r)
<1> SUFFICES ASSUME NEW r \in Request PROVE Guide(Route(r), r)
  OBVIOUS
<1> USE DEF Recorded, Answered, Refused
<1> DEFINE s == Route(r)
<1>1. CASE r.action = "JOIN"
  <2>1. /\ Len(s) = 11 /\ s[1] = "addPlayer" /\ s[2] = "activePlayerCount"
        /\ s[3] = "setActivePlayers" /\ s[4] = "setPlayerSession"
        /\ s[5] = "setSpawnPosition" /\ s[6] = "upsertPlayer"
        /\ s[7] = "dbRecordEvent" /\ s[8] = "takeEventId" /\ s[9] = "pushEvent"
        /\ s[10] = "succeed" /\ s[11] = "timer"
    BY <1>1 DEF Route
  <2> QED BY <1>1, <2>1, Calling, Makers DEF Guide
<1>2. CASE r.action = "LEAVE"
  <2>1. /\ Len(s) = 10 /\ s[1] = "removePlayer" /\ s[2] = "activePlayerCount"
        /\ s[3] = "setActivePlayers" /\ s[4] = "deletePlayerSession"
        /\ s[5] = "upsertPlayer" /\ s[6] = "dbRecordEvent"
        /\ s[7] = "takeEventId" /\ s[8] = "pushEvent" /\ s[9] = "succeed"
        /\ s[10] = "timer"
    BY <1>2 DEF Route
  <2> QED BY <1>2, <2>1, Calling, Makers DEF Guide
<1>3. CASE r.action = "MOVE"
  <2>1. /\ Len(s) = 6 /\ s[1] = "movePlayer" /\ s[2] = "setPlayerPosition"
        /\ s[3] = "takeEventId" /\ s[4] = "pushEvent" /\ s[5] = "succeed"
        /\ s[6] = "timer"
    BY <1>3 DEF Route
  <2> QED BY <1>3, <2>1, Calling, Makers DEF Guide
<1>4. CASE r.action = "ATTACK"
  <2>1. /\ Len(s) = 5 /\ s[1] = "attackPlayer" /\ s[2] = "takeEventId"
        /\ s[3] = "pushEvent" /\ s[4] = "succeed" /\ s[5] = "timer"
    BY <1>4 DEF Route
  <2> QED BY <1>4, <2>1, Calling, Makers DEF Guide
<1>5. CASE r.action = "CHAT"
  <2>1. /\ Len(s) = 5 /\ s[1] = "hasPlayer" /\ s[2] = "takeEventId"
        /\ s[3] = "pushEvent" /\ s[4] = "succeed" /\ s[5] = "timer"
    BY <1>5 DEF Route
  <2> QED BY <1>5, <2>1, Calling, Makers DEF Guide
<1>6. CASE r.action = "GET_STATE"
  <2>1. /\ Len(s) = 4 /\ s[1] = "hasPlayer" /\ s[2] = "getPlayerSession"
        /\ s[3] = "succeed" /\ s[4] = "timer"
    BY <1>6 DEF Route
  <2> QED BY <1>6, <2>1, Calling, Makers DEF Guide
<1>7. CASE r.action = "UPDATE_SCORE" /\ ~(GetInt(r.score) < 0)
  <2>1. /\ Len(s) = 5 /\ s[1] = "setScore" /\ s[2] = "takeEventId"
        /\ s[3] = "pushEvent" /\ s[4] = "succeed" /\ s[5] = "timer"
    BY <1>7 DEF Route
  <2> QED BY <1>7, <2>1, Calling, Makers DEF Guide
<1>8. CASE r.action \in {"SPECTATE", "GET_METRICS"}
  <2>1. Route(r) = Answered
    BY <1>8 DEF Route
  <2> QED BY <1>8, <2>1, Calling, Makers DEF Guide
<1>9. CASE r.action = "INVALID" \/ (r.action = "UPDATE_SCORE" /\ GetInt(r.score) < 0)
  <2>1. Route(r) = Refused
    BY <1>9 DEF Route
  <2> QED BY <1>9, <2>1, Calling, Makers DEF Guide
<1>10. r.action \in {"JOIN", "LEAVE", "MOVE", "ATTACK", "CHAT", "GET_STATE", "UPDATE_SCORE",
                     "SPECTATE", "GET_METRICS", "INVALID"}
  BY DEF Request, NamedRequest, PlayerRequest, MoveRequest, AttackRequest, ScoreRequest,
         OtherRequest
<1> QED BY <1>1, <1>2, <1>3, <1>4, <1>5, <1>6, <1>7, <1>8, <1>9, <1>10

\* What is left of a handler's list after one call is still in its order.
LEMMA TailGuide ==
  ASSUME NEW s \in Seq(Calls), NEW r, s # <<>>, Guide(s, r)
  PROVE  /\ Guide(Tail(s), r) /\ r.action \in MadeBy(Head(s))
         /\ Tail(s) # <<>> => Head(Tail(s)) = Follow(r.action, Head(s))
<1>1. /\ Len(Tail(s)) = Len(s) - 1 /\ Len(s) \in Nat \ {0}
      /\ \A i \in 1..Len(Tail(s)) : Tail(s)[i] = s[i + 1]
      /\ Head(s) = s[1] /\ Tail(s) \in Seq(Calls)
  OBVIOUS
<1>2. ASSUME NEW i \in 1..Len(Tail(s))
      PROVE  /\ r.action \in MadeBy(Tail(s)[i])
             /\ i < Len(Tail(s)) => Tail(s)[i + 1] = Follow(r.action, Tail(s)[i])
  <2> DEFINE j == i + 1
  <2>1. j \in 1..Len(s) /\ Tail(s)[i] = s[j]
    BY <1>1
  <2>2. i < Len(Tail(s)) => j < Len(s) /\ Tail(s)[j] = s[j + 1]
    BY <1>1
  <2> HIDE DEF j
  <2>3. r.action \in MadeBy(s[j]) /\ (j < Len(s) => s[j + 1] = Follow(r.action, s[j]))
    BY <2>1 DEF Guide
  <2> QED BY <2>1, <2>2, <2>3 DEF j
<1>3. Guide(Tail(s), r)
  BY <1>2 DEF Guide
<1>4. 1 \in 1..Len(s)
  BY <1>1
<1>5. r.action \in MadeBy(s[1]) /\ (1 < Len(s) => s[1 + 1] = Follow(r.action, s[1]))
  BY <1>4 DEF Guide
<1>6. Tail(s) # <<>> => 1 < Len(s) /\ Head(Tail(s)) = s[1 + 1]
  BY <1>1
<1> QED BY <1>1, <1>3, <1>5, <1>6

\* A refused request is answered with an error.
LEMMA RefusedGuide == \A r \in Request : Guide(Refused, r) /\ Head(Refused) = "fail"
<1> SUFFICES ASSUME NEW r \in Request PROVE Guide(Refused, r) /\ Head(Refused) = "fail"
  OBVIOUS
<1>1. r.action \in {"JOIN", "LEAVE", "MOVE", "ATTACK", "CHAT", "GET_STATE", "UPDATE_SCORE",
                    "SPECTATE", "GET_METRICS", "INVALID"}
  BY DEF Request, NamedRequest, PlayerRequest, MoveRequest, AttackRequest, ScoreRequest,
         OtherRequest
<1> QED BY <1>1, Calling, Makers DEF Guide, Refused

\* A place is one call.
LEMMA OneCall ==
  ASSUME NEW s \in Seq(Calls), s # <<>> PROVE Len(s) = 1 <=> Tail(s) = <<>>
<1>1. Tail(s) \in Seq(Calls) /\ Len(Tail(s)) = Len(s) - 1 /\ Len(s) \in Nat
  OBVIOUS
<1>2. \A q \in Seq(Calls) : q = <<>> <=> Len(q) = 0
  OBVIOUS
<1>3. Tail(s) = <<>> <=> Len(Tail(s)) = 0
  BY <1>1, <1>2
<1> QED BY <1>1, <1>3

\* The calls a handler may begin with, each of which may refuse the request.
Checks == {"addPlayer", "removePlayer", "movePlayer", "attackPlayer", "setScore", "hasPlayer"}

\* Where a worker's step takes it: to the next call of its handler, to a refusal,
\* or to rest.  Nobody else moves.
LEMMA Moves ==
  ASSUME WellFormed, Guided, NEW t \in Threads, Step(t)
  PROVE  /\ Place(t) \in Calls /\ Place(t) = Head(todo[t]) /\ todo[t] # <<>>
         /\ req[t] \in Request /\ req[t].action \in MadeBy(Place(t))
         /\ \A u \in Threads \ {t} : Place(u)' = Place(u) /\ req'[u] = req[u]
         /\ Place(t) = "timer" => Place(t)' = "idle"
         /\ Place(t) # "timer" => req' = req /\ (Proceed(t) \/ Refuse(t))
         /\ Place(t) \notin Checks => Proceed(t)
         /\ Place(t) # "timer" /\ Proceed(t) => Place(t)' = Follow(req[t].action, Place(t))
         /\ Refuse(t) => Place(t)' = "fail"
         /\ Guided'
<1>1. /\ todo \in [Threads -> Seq(Calls)] /\ req \in [Threads -> Request \cup {NoRequest}]
      /\ todo[t] # <<>> /\ Itinerary(todo[t], req[t])
      /\ Guide(todo[t], req[t]) /\ req[t] \in Request
  BY StepShape DEF WellFormed, Guided
<1>2. Place(t) = Head(todo[t]) /\ Head(todo[t]) \in Calls
  BY <1>1 DEF Place
<1>3. /\ Guide(Tail(todo[t]), req[t]) /\ req[t].action \in MadeBy(Place(t))
      /\ Tail(todo[t]) # <<>> => Head(Tail(todo[t])) = Follow(req[t].action, Place(t))
  BY <1>1, <1>2, TailGuide
<1>4. Head(todo[t]) = "timer" <=> Tail(todo[t]) = <<>>
  <2>1. Head(todo[t]) = "timer" <=> Len(todo[t]) = 1
    BY <1>1, HeadLength
  <2>2. todo[t] \in Seq(Calls)
    BY <1>1
  <2>3. Len(todo[t]) = 1 <=> Tail(todo[t]) = <<>>
    BY <1>1, <2>2, OneCall
  <2> QED BY <2>1, <2>3
<1>5. Guide(Refused, req[t]) /\ Head(Refused) = "fail" /\ Refused # <<>>
  BY <1>1, RefusedGuide DEF Refused
<1>6. \/ StopTimer(t)
      \/ req' = req /\ Proceed(t)
      \/ req' = req /\ Refuse(t) /\ Head(todo[t]) \in Checks
  BY StepShape, <1>2 DEF Checks
<1>7. StopTimer(t) => Place(t) = "timer" /\ Proceed(t) /\ req' = [req EXCEPT ![t] = NoRequest]
  BY <1>2 DEF StopTimer, At
<1>8. Place(t) = "timer" => Proceed(t)
  BY <1>2, <1>6, <1>7 DEF Checks
<1>9. Place(t) # "timer" => req' = req /\ (Proceed(t) \/ Refuse(t))
  BY <1>6, <1>7
<1>10. Place(t) \notin Checks => Proceed(t)
  BY <1>6, <1>7, <1>2
<1>11. Proceed(t) => todo' = [todo EXCEPT ![t] = Tail(todo[t])]
  BY DEF Proceed
<1>12. Refuse(t) => todo' = [todo EXCEPT ![t] = Refused]
  BY DEF Refuse
<1>13. ASSUME NEW u \in Threads \ {t}
       PROVE  todo'[u] = todo[u] /\ req'[u] = req[u] /\ Place(u)' = Place(u)
  <2>1. todo' = [todo EXCEPT ![t] = Tail(todo[t])] \/ todo' = [todo EXCEPT ![t] = Refused]
    BY <1>6, <1>7, <1>11, <1>12
  <2>2. req' = req \/ req' = [req EXCEPT ![t] = NoRequest]
    BY <1>6, <1>7
  <2>3. todo'[u] = todo[u]
    BY <1>1, <2>1
  <2>4. req'[u] = req[u]
    BY <1>1, <2>2
  <2> QED BY <2>3, <2>4 DEF Place
<1>14. Place(t) = "timer" => Place(t)' = "idle"
  BY <1>1, <1>2, <1>4, <1>8, <1>11 DEF Place
<1>15. Place(t) # "timer" /\ Proceed(t) => Place(t)' = Follow(req[t].action, Place(t))
  BY <1>1, <1>2, <1>3, <1>4, <1>11 DEF Place
<1>16. Refuse(t) => Place(t)' = "fail"
  BY <1>1, <1>5, <1>12 DEF Place
<1>17. ASSUME NEW u \in Threads
       PROVE  Guide(todo'[u], req'[u]) /\ (todo'[u] # <<>> => req'[u] \in Request)
  <2>1. CASE u # t
    BY <2>1, <1>13 DEF Guided
  <2>2. CASE u = t /\ Place(t) = "timer"
    <3>1. todo'[t] = <<>>
      BY <2>2, <1>1, <1>2, <1>4, <1>8, <1>11
    <3>2. Guide(<<>>, req'[t])
      BY DEF Guide
    <3> QED BY <2>2, <3>1, <3>2
  <2>3. CASE u = t /\ Place(t) # "timer"
    <3>1. req'[t] = req[t] /\ (todo'[t] = Tail(todo[t]) \/ todo'[t] = Refused)
      BY <2>3, <1>1, <1>9, <1>11, <1>12
    <3> QED BY <2>3, <3>1, <1>1, <1>3, <1>5
  <2> QED BY <2>1, <2>2, <2>3
<1>18. Guided'
  BY <1>17 DEF Guided
<1> QED BY <1>1, <1>2, <1>3, <1>8, <1>9, <1>10, <1>13, <1>14, <1>15, <1>16, <1>18

\* A request begins with the first call of its handler.
LEMMA Begins ==
  ASSUME WellFormed, Guided, NEW t \in Threads, NEW r \in Request, Receive(t, r)
  PROVE  /\ \A u \in Threads \ {t} : Place(u)' = Place(u) /\ req'[u] = req[u]
         /\ req'[t] = r /\ Place(t) = "idle"
         /\ Place(t)' \in Checks \cup {"succeed", "fail"}
         /\ Place(t)' = "succeed" => r.action \in {"SPECTATE", "GET_METRICS"}
         /\ Guided'
<1>1. /\ todo \in [Threads -> Seq(Calls)] /\ req \in [Threads -> Request \cup {NoRequest}]
      /\ todo[t] = <<>>
      /\ todo' = [todo EXCEPT ![t] = Route(r)] /\ req' = [req EXCEPT ![t] = r]
  BY DEF WellFormed, Receive, Idle
<1>2. Guide(Route(r), r)
  BY RouteGuide
<1>3. /\ Route(r) # <<>> /\ Head(Route(r)) \in Checks \cup {"succeed", "fail"}
      /\ Head(Route(r)) = "succeed" => r.action \in {"SPECTATE", "GET_METRICS"}
  <2>1. r.action \in {"JOIN", "LEAVE", "MOVE", "ATTACK", "CHAT", "GET_STATE", "UPDATE_SCORE",
                      "SPECTATE", "GET_METRICS", "INVALID"}
    BY DEF Request, NamedRequest, PlayerRequest, MoveRequest, AttackRequest, ScoreRequest,
           OtherRequest
  <2> USE DEF Recorded, Answered, Refused, Checks
  <2>a. CASE r.action = "JOIN" BY <2>a DEF Route
  <2>b. CASE r.action = "LEAVE" BY <2>b DEF Route
  <2>c. CASE r.action = "MOVE" BY <2>c DEF Route
  <2>d. CASE r.action = "ATTACK" BY <2>d DEF Route
  <2>e. CASE r.action = "CHAT" BY <2>e DEF Route
  <2>f. CASE r.action = "GET_STATE" BY <2>f DEF Route
  <2>g. CASE r.action = "UPDATE_SCORE" BY <2>g DEF Route
  <2>4. CASE r.action \in {"SPECTATE", "GET_METRICS"}
    <3>1. Route(r) = <<"succeed", "timer">>
      BY <2>4 DEF Route
    <3> QED BY <2>4, <3>1
  <2>5. CASE r.action = "INVALID"
    BY <2>5 DEF Route
  <2> QED BY <2>1, <2>a, <2>b, <2>c, <2>d, <2>e, <2>f, <2>g, <2>4, <2>5
<1>4. \A u \in Threads \ {t} : todo'[u] = todo[u] /\ Place(u)' = Place(u) /\ req'[u] = req[u]
  BY <1>1 DEF Place
<1>5. todo'[t] = Route(r) /\ req'[t] = r /\ Place(t) = "idle" /\ Place(t)' = Head(Route(r))
  BY <1>1, <1>3 DEF Place
<1>6. Guided'
  BY <1>2, <1>4, <1>5 DEF Guided
<1> QED BY <1>3, <1>4, <1>5, <1>6

\* What a step changes depends on the call.
LEMMA Frame ==
  ASSUME NEW t \in Threads, Step(t), NEW c, todo[t] # <<>>, c = Head(todo[t])
  PROVE  /\ c # "upsertPlayer" => dbPlayers' = dbPlayers
         /\ c # "dbRecordEvent" => dbEvents' = dbEvents
         /\ c \notin {"removePlayer", "timer"} => finalScore' = finalScore
         /\ c \notin {"addPlayer", "succeed"} => farewell' = farewell
         /\ c # "succeed" => finals' = finals
         /\ c # "upsertPlayer" => unsaved' = unsaved
         /\ c \notin {"setPlayerSession", "setSpawnPosition", "setPlayerPosition",
                      "deletePlayerSession"} => redis' = redis /\ late' = late
         /\ c \notin {"addPlayer", "removePlayer", "movePlayer", "attackPlayer", "setScore"} =>
              m_players' = m_players
         /\ c # "pushEvent" => m_events' = m_events
         /\ c \notin {"takeEventId", "pushEvent"} =>
              ev' = ev /\ m_nextEventId' = m_nextEventId
<1> USE DEF At, storeVars, historyVars, gsVars, playerVars, eventVars
<1>1. CASE JoinGame(t) BY <1>1 DEF JoinGame, addPlayer
<1>2. CASE LeaveGame(t) BY <1>2 DEF LeaveGame, removePlayer
<1>3. CASE MoveInGame(t) BY <1>3 DEF MoveInGame, movePlayer
<1>4. CASE AttackInGame(t) BY <1>4 DEF AttackInGame, attackPlayer
<1>5. CASE ScoreInGame(t) BY <1>5 DEF ScoreInGame, setScore
<1>6. CASE CheckInGame(t) BY <1>6 DEF CheckInGame
<1>7. CASE StartEvent(t) BY <1>7 DEF StartEvent, takeEventId
<1>8. CASE LogEvent(t) BY <1>8 DEF LogEvent, pushEvent
<1>9. CASE CountPlayers(t) \/ SetGauge(t) \/ Succeed(t) \/ Fail(t)
  BY <1>9 DEF CountPlayers, SetGauge, Succeed, Fail
<1>10. CASE StopTimer(t) BY <1>10 DEF StopTimer
<1>11. CASE CacheSession(t) \/ CacheSpawn(t) \/ CachePosition(t) \/ DropSession(t)
  BY <1>11 DEF CacheSession, CacheSpawn, CachePosition, DropSession, Cache
<1>12. CASE LookUpSession(t) BY <1>12 DEF LookUpSession
<1>13. CASE SavePlayer(t) BY <1>13 DEF SavePlayer, Statement
<1>14. CASE SaveEvent(t) BY <1>14 DEF SaveEvent, Statement
<1> QED BY <1>1, <1>2, <1>3, <1>4, <1>5, <1>6, <1>7, <1>8, <1>9, <1>10, <1>11,
           <1>12, <1>13, <1>14 DEF Step

\* The call a worker is at tells which action its step is.
LEMMA Doing ==
  ASSUME NEW t \in Threads, Step(t)
  PROVE  LET c == Head(todo[t]) IN
         /\ c = "addPlayer" => JoinGame(t)
         /\ c = "removePlayer" => LeaveGame(t)
         /\ c = "movePlayer" => MoveInGame(t)
         /\ c = "attackPlayer" => AttackInGame(t)
         /\ c = "setScore" => ScoreInGame(t)
         /\ c = "hasPlayer" => CheckInGame(t)
         /\ c = "takeEventId" => StartEvent(t)
         /\ c = "pushEvent" => LogEvent(t)
         /\ c = "activePlayerCount" => CountPlayers(t)
         /\ c = "setActivePlayers" => SetGauge(t)
         /\ c = "succeed" => Succeed(t)
         /\ c = "fail" => Fail(t)
         /\ c = "timer" => StopTimer(t)
         /\ c = "setPlayerSession" => CacheSession(t)
         /\ c = "setSpawnPosition" => CacheSpawn(t)
         /\ c = "setPlayerPosition" => CachePosition(t)
         /\ c = "deletePlayerSession" => DropSession(t)
         /\ c = "getPlayerSession" => LookUpSession(t)
         /\ c = "upsertPlayer" => SavePlayer(t)
         /\ c = "dbRecordEvent" => SaveEvent(t)
<1>1. CASE JoinGame(t) \/ LeaveGame(t)
  BY <1>1 DEF At, JoinGame, LeaveGame
<1>2. CASE MoveInGame(t) \/ AttackInGame(t)
  BY <1>2 DEF At, MoveInGame, AttackInGame
<1>3. CASE ScoreInGame(t) \/ CheckInGame(t)
  BY <1>3 DEF At, ScoreInGame, CheckInGame
<1>4. CASE StartEvent(t) \/ LogEvent(t)
  BY <1>4 DEF At, StartEvent, LogEvent
<1>5. CASE CountPlayers(t) \/ SetGauge(t)
  BY <1>5 DEF At, CountPlayers, SetGauge
<1>6. CASE Succeed(t) \/ Fail(t)
  BY <1>6 DEF At, Succeed, Fail
<1>7. CASE StopTimer(t) \/ CacheSession(t)
  BY <1>7 DEF At, StopTimer, CacheSession
<1>8. CASE CacheSpawn(t) \/ CachePosition(t)
  BY <1>8 DEF At, CacheSpawn, CachePosition
<1>9. CASE DropSession(t) \/ LookUpSession(t)
  BY <1>9 DEF At, DropSession, LookUpSession
<1>10. CASE SavePlayer(t) \/ SaveEvent(t)
  BY <1>10 DEF At, SavePlayer, SaveEvent
<1> QED BY <1>1, <1>2, <1>3, <1>4, <1>5, <1>6, <1>7, <1>8, <1>9, <1>10 DEF Step

-----------------------------------------------------------------------------
(* Types *)

\* Requests that name a player, and their arguments.
LEMMA Named ==
  ASSUME NEW r \in Request, r.action \notin {"SPECTATE", "GET_METRICS", "INVALID"}
  PROVE  r \in NamedRequest /\ r.player_id \in Players
  BY DEF Request, NamedRequest, PlayerRequest, MoveRequest, AttackRequest, ScoreRequest,
         OtherRequest

\* A new row's score and a spawn position are in their types.
LEMMA Zero == 0 \in CInt /\ <<SPAWN, SPAWN>> \in Position
  BY ConstantsAssumption DEF CInt, INT_MIN, Position

\* What upsertPlayer leaves in the table.
LEMMA UpsertedRow ==
  ASSUME NEW row \in Row \cup {NoRow}, NEW s \in CInt
  PROVE  /\ Upserted(row, s) \in Row /\ Upserted(row, s) # NoRow
         /\ Upserted(row, s).score = s /\ Upserted(row, s).high_score >= s
         /\ row # NoRow => Upserted(row, s).high_score >= row.high_score
<1>1. CInt \subseteq Int
  BY ConstantsAssumption DEF CInt, INT_MIN
<1>2. s \in Int /\ s >= s
  BY <1>1
<1>3. row # NoRow => row \in Row /\ row.high_score \in CInt /\ row.high_score \in Int
  BY <1>1 DEF Row
<1>4. Upserted(row, s) \in Row
  BY <1>3 DEF Upserted, Row
<1>5. Upserted(row, s).score = s
  BY DEF Upserted
<1>6. CASE row = NoRow \/ row.high_score < s
  <2>1. Upserted(row, s).high_score = s
    BY <1>6 DEF Upserted
  <2> QED BY <1>2, <1>3, <1>4, <1>5, <1>6, <2>1, NothingAssumption
<1>7. CASE row # NoRow /\ ~(row.high_score < s)
  <2>1. Upserted(row, s).high_score = row.high_score
    BY <1>7 DEF Upserted
  <2> QED BY <1>2, <1>3, <1>4, <1>5, <1>7, <2>1, NothingAssumption
<1> QED BY <1>6, <1>7

\* What Redis stores.
RedisType == [enabled : BOOLEAN, session : SUBSET Players,
              pos : [Players -> Position \cup {NoPos}]]

\* The part of RHTypeOK that is not in WellFormed or GSTypeOK.
StoreTypes ==
  /\ count \in [Threads -> Nat] /\ finalScore \in [Threads -> CInt]
  /\ metrics \in [MetricNames -> Nat]
  /\ redis \in RedisType /\ late \subseteq RedisCommand
  /\ dbPlayers \in [Players -> Row \cup {NoRow}]
  /\ dbEvents \in [Players -> Seq(EventTypes)]
  /\ farewell \in [Players -> CInt \cup {NoScore}]
  /\ finals \in [Players -> SUBSET CInt]
  /\ unsaved \subseteq Players

\* A command leaves Redis in its type.
LEMMA ExecutedType ==
  ASSUME redis \in RedisType, NEW c \in RedisCommand
  PROVE  Executed(c) \in RedisType
<1>1. ASSUME NEW p \in Players, c = SetSession(p) PROVE Executed(c) \in RedisType
  BY <1>1 DEF SetSession, Executed, RedisType
<1>2. ASSUME NEW p \in Players, c = DelSession(p) PROVE Executed(c) \in RedisType
  BY <1>2 DEF DelSession, Executed, RedisType
<1>3. ASSUME NEW p \in Players, NEW pos \in Position, c = SetPosition(p, pos)
      PROVE  Executed(c) \in RedisType
  BY <1>3 DEF SetPosition, Executed, RedisType
<1> QED BY <1>1, <1>2, <1>3 DEF RedisCommand

\* Sending a command leaves Redis and the late commands in their types.
LEMMA CacheType ==
  ASSUME redis \in RedisType, late \subseteq RedisCommand,
         NEW t \in Threads, NEW c \in RedisCommand, Cache(t, c)
  PROVE  redis' \in RedisType /\ late' \subseteq RedisCommand
  BY ExecutedType DEF Cache, Command

\* A counter goes up by one.
LEMMA Bump ==
  ASSUME metrics \in [MetricNames -> Nat], NEW n \in MetricNames
  PROVE  [metrics EXCEPT ![n] = metrics[n] + 1] \in [MetricNames -> Nat]
  OBVIOUS

\* The arguments of the commands and statements are typed.
LEMMA StoreArguments ==
  ASSUME WellFormed, Guided, GSTypeOK, StoreTypes, NEW t \in Threads, Step(t)
  PROVE  LET c == Head(todo[t])  p == req[t].player_id IN
         /\ c \in PlayerCalls \/ req[t].action \in {"JOIN", "LEAVE"} => p \in Players
         /\ c = "setPlayerPosition" =>
              <<Clamp(GetInt(req[t].x)), Clamp(GetInt(req[t].y))>> \in Position
         /\ c = "dbRecordEvent" => req[t].action \in EventTypes
         /\ ScoreToStore(t) \in CInt
         /\ hasPlayer(p) => m_players[p].score \in CInt
         /\ activePlayerCount \in Nat
<1> DEFINE c == Head(todo[t])
           p == req[t].player_id
<1>1. /\ Place(t) = c /\ c \in Calls /\ todo[t] # <<>> /\ req[t] \in Request
      /\ req[t].action \in MadeBy(c)
  BY Moves
<1>2. c \in PlayerCalls \/ req[t].action \in {"JOIN", "LEAVE"} => p \in Players
  BY <1>1, Arguments, Named
<1>3. c = "setPlayerPosition" =>
        <<Clamp(GetInt(req[t].x)), Clamp(GetInt(req[t].y))>> \in Position
  <2> SUFFICES ASSUME c = "setPlayerPosition"
               PROVE <<Clamp(GetInt(req[t].x)), Clamp(GetInt(req[t].y))>> \in Position
    OBVIOUS
  <2>1. req[t].action = "MOVE"
    BY <1>1, Makers
  <2>2. req[t].x \in JsonInts /\ req[t].y \in JsonInts
    BY <1>1, <2>1 DEF Request, NamedRequest, PlayerRequest, MoveRequest, AttackRequest,
       ScoreRequest, OtherRequest
  <2>3. \A v \in JsonInts : GetInt(v) \in Int
    <3>1. CInt \subseteq Int /\ Scores \subseteq CInt
      BY ConstantsAssumption DEF CInt, INT_MIN
    <3> QED BY <3>1, RequestAssumption
  <2>4. \A n \in Int : Clamp(n) \in MAP_MIN..MAP_MAX
    BY ConstantsAssumption DEF Clamp
  <2> QED BY <2>2, <2>3, <2>4 DEF Position
<1>4. c = "dbRecordEvent" => req[t].action \in EventTypes
  BY <1>1, Makers, RequestAssumption
<1>5. ScoreToStore(t) \in CInt
  BY Zero DEF ScoreToStore, StoreTypes
<1>6. hasPlayer(p) => m_players[p].score \in CInt
  BY DEF GSTypeOK, hasPlayer, PlayerState
<1>7. activePlayerCount \in Nat
  BY PlayersAssumption, FS_Subset, FS_CardinalityType DEF GSTypeOK, activePlayerCount
<1> QED BY <1>2, <1>3, <1>4, <1>5, <1>6, <1>7

\* A call keeps the types of the stores, the counters and the locals.
LEMMA StoreTypesStep ==
  ASSUME WellFormed, Guided, GSTypeOK, StoreTypes, NEW t \in Threads, Step(t)
  PROVE  StoreTypes'
<1> DEFINE c == Head(todo[t])
           p == req[t].player_id
<1>1. /\ Place(t) = c /\ c \in Calls /\ todo[t] # <<>> /\ req[t] \in Request
      /\ req[t].action \in MadeBy(c)
  BY Moves
<1>2. /\ c \in PlayerCalls \/ req[t].action \in {"JOIN", "LEAVE"} => p \in Players
      /\ c = "setPlayerPosition" =>
           <<Clamp(GetInt(req[t].x)), Clamp(GetInt(req[t].y))>> \in Position
      /\ c = "dbRecordEvent" => req[t].action \in EventTypes
      /\ ScoreToStore(t) \in CInt
      /\ hasPlayer(p) => m_players[p].score \in CInt
      /\ activePlayerCount \in Nat
  BY StoreArguments
<1> USE DEF StoreTypes
<1>3. count' \in [Threads -> Nat] /\ metrics' \in [MetricNames -> Nat]
  <2>0. ASSUME NEW n \in MetricNames, metrics' = [metrics EXCEPT ![n] = metrics[n] + 1]
        PROVE  metrics' \in [MetricNames -> Nat]
    BY <2>0, Bump
  <2> USE DEF MetricNames
  <2>1. CASE JoinGame(t) \/ LeaveGame(t) \/ MoveInGame(t) \/ AttackInGame(t) \/ ScoreInGame(t)
    BY <2>1 DEF JoinGame, LeaveGame, MoveInGame, AttackInGame, ScoreInGame, storeVars
  <2>2. CASE CheckInGame(t) \/ StartEvent(t) \/ LogEvent(t)
    BY <2>2 DEF CheckInGame, StartEvent, LogEvent, storeVars
  <2>3. CASE CountPlayers(t) BY <1>2, <2>3 DEF CountPlayers, storeVars
  <2>4. CASE SetGauge(t) BY <2>4 DEF SetGauge
  <2>5. CASE Succeed(t)
    <3>1. count' = count /\ metrics' = [metrics EXCEPT !["successful"] = metrics["successful"] + 1]
      BY <2>5 DEF Succeed
    <3> QED BY <2>0, <3>1
  <2>6. CASE Fail(t)
    <3>1. count' = count /\ metrics' = [metrics EXCEPT !["failed"] = metrics["failed"] + 1]
      BY <2>6 DEF Fail
    <3> QED BY <2>0, <3>1
  <2>7. CASE StopTimer(t)
    <3>1. /\ count' = [count EXCEPT ![t] = 0]
          /\ metrics' = [metrics EXCEPT !["latencyCount"] = metrics["latencyCount"] + 1]
      BY <2>7 DEF StopTimer
    <3> QED BY <2>0, <3>1
  <2>8. CASE CacheSession(t) \/ CacheSpawn(t) \/ CachePosition(t) \/ DropSession(t)
    BY <2>8 DEF CacheSession, CacheSpawn, CachePosition, DropSession, Cache
  <2>9. CASE LookUpSession(t)
    <3>1. /\ count' = count
          /\ \/ metrics' = metrics
             \/ metrics' = [metrics EXCEPT !["hits"] = metrics["hits"] + 1]
             \/ metrics' = [metrics EXCEPT !["misses"] = metrics["misses"] + 1]
      BY <2>9 DEF LookUpSession
    <3> QED BY <2>0, <3>1
  <2>10. CASE SavePlayer(t) \/ SaveEvent(t)
    <3>1. /\ count' = count
          /\ \/ metrics' = metrics
             \/ metrics' = [metrics EXCEPT !["dbOperations"] = metrics["dbOperations"] + 1]
      BY <2>10 DEF SavePlayer, SaveEvent, Statement
    <3> QED BY <2>0, <3>1
  <2> QED BY <2>1, <2>2, <2>3, <2>4, <2>5, <2>6, <2>7, <2>8, <2>9, <2>10 DEF Step
<1>4. finalScore' \in [Threads -> CInt]
  <2>1. CASE c = "removePlayer"
    <3>1. LeaveGame(t)
      BY <2>1, Doing
    <3> QED BY <1>2, <3>1 DEF LeaveGame, removePlayer, removePlayerOK
  <2>2. CASE c = "timer"
    <3>1. StopTimer(t)
      BY <2>2, Doing
    <3> QED BY <3>1, Zero DEF StopTimer
  <2>3. CASE c \notin {"removePlayer", "timer"}
    BY <2>3, <1>1, Frame
  <2> QED BY <2>1, <2>2, <2>3
<1>5. redis' \in RedisType /\ late' \subseteq RedisCommand
  <2>1. CASE c = "setPlayerSession"
    <3>1. CacheSession(t) /\ p \in Players
      BY <1>2, <2>1, Doing DEF PlayerCalls, Calls
    <3>2. SetSession(p) \in RedisCommand
      BY <3>1 DEF RedisCommand
    <3> QED BY <3>1, <3>2, CacheType DEF CacheSession
  <2>2. CASE c = "deletePlayerSession"
    <3>1. DropSession(t) /\ p \in Players
      BY <1>2, <2>2, Doing DEF PlayerCalls, Calls
    <3>2. DelSession(p) \in RedisCommand
      BY <3>1 DEF RedisCommand
    <3> QED BY <3>1, <3>2, CacheType DEF DropSession
  <2>3. CASE c = "setSpawnPosition"
    <3> DEFINE at == <<SPAWN, SPAWN>>
    <3>1. CacheSpawn(t) /\ p \in Players /\ at \in Position
      BY <1>2, <2>3, Zero, Doing DEF PlayerCalls, Calls
    <3>2. Cache(t, SetPosition(p, at))
      BY <3>1 DEF CacheSpawn
    <3> HIDE DEF at
    <3>3. SetPosition(p, at) \in RedisCommand
      BY <3>1 DEF RedisCommand
    <3> QED BY <3>2, <3>3, CacheType
  <2>4. CASE c = "setPlayerPosition"
    <3> DEFINE at == <<Clamp(GetInt(req[t].x)), Clamp(GetInt(req[t].y))>>
    <3>1. CachePosition(t) /\ p \in Players /\ at \in Position
      BY <1>2, <2>4, Doing DEF PlayerCalls, Calls
    <3>2. Cache(t, SetPosition(p, at))
      BY <3>1 DEF CachePosition
    <3> HIDE DEF at
    <3>3. SetPosition(p, at) \in RedisCommand
      BY <3>1 DEF RedisCommand
    <3> QED BY <3>2, <3>3, CacheType
  <2>5. CASE c \notin {"setPlayerSession", "setSpawnPosition", "setPlayerPosition",
                       "deletePlayerSession"}
    BY <2>5, <1>1, Frame
  <2> QED BY <2>1, <2>2, <2>3, <2>4, <2>5
<1>6. dbPlayers' \in [Players -> Row \cup {NoRow}]
  <2>1. CASE c = "upsertPlayer"
    <3>1. SavePlayer(t) /\ p \in Players
      BY <1>2, <2>1, Doing DEF PlayerCalls, Calls
    <3>2. Upserted(dbPlayers[p], ScoreToStore(t)) \in Row
      BY <1>2, <3>1, UpsertedRow
    <3> QED BY <3>1, <3>2 DEF SavePlayer, Statement
  <2>2. CASE c # "upsertPlayer"
    BY <2>2, <1>1, Frame
  <2> QED BY <2>1, <2>2
<1>7. dbEvents' \in [Players -> Seq(EventTypes)]
  <2>1. CASE c = "dbRecordEvent"
    <3>1. SaveEvent(t) /\ p \in Players /\ req[t].action \in EventTypes
      BY <1>2, <2>1, Doing DEF PlayerCalls, Calls
    <3>2. Append(dbEvents[p], req[t].action) \in Seq(EventTypes)
      BY <3>1
    <3> QED BY <3>1, <3>2 DEF SaveEvent, Statement
  <2>2. CASE c # "dbRecordEvent"
    BY <2>2, <1>1, Frame
  <2> QED BY <2>1, <2>2
<1>8. farewell' \in [Players -> CInt \cup {NoScore}] /\ finals' \in [Players -> SUBSET CInt]
  <2>1. CASE c = "addPlayer"
    <3>1. JoinGame(t)
      BY <2>1, Doing
    <3> QED BY <3>1 DEF JoinGame
  <2>2. CASE c = "succeed"
    <3>1. Succeed(t)
      BY <2>2, Doing
    <3>2. finalScore[t] \in CInt
      OBVIOUS
    <3>3. farewell' = farewell \/ farewell' = [farewell EXCEPT ![p] = finalScore[t]]
      BY <3>1 DEF Succeed
    <3>4. finals' = finals \/ finals' = [finals EXCEPT ![p] = finals[p] \cup {finalScore[t]}]
      BY <3>1 DEF Succeed
    <3>5. farewell' \in [Players -> CInt \cup {NoScore}]
      BY <3>2, <3>3
    <3>6. finals' \in [Players -> SUBSET CInt]
      <4>1. p \in Players => finals[p] \cup {finalScore[t]} \in SUBSET CInt
        BY <3>2
      <4> HIDE DEF p
      <4> QED BY <3>4, <4>1
    <3> QED BY <3>5, <3>6
  <2>3. CASE c \notin {"addPlayer", "succeed"}
    BY <2>3, <1>1, Frame
  <2> QED BY <2>1, <2>2, <2>3
<1>9. unsaved' \subseteq Players
  <2>1. CASE c = "upsertPlayer"
    <3>1. SavePlayer(t) /\ p \in Players
      BY <1>2, <2>1, Doing DEF PlayerCalls, Calls
    <3> QED BY <3>1 DEF SavePlayer, Statement
  <2>2. CASE c # "upsertPlayer"
    BY <2>2, <1>1, Frame
  <2> QED BY <2>1, <2>2
<1> QED BY <1>3, <1>4, <1>5, <1>6, <1>7, <1>8, <1>9

\* So do the arrival of a request and Redis on its own.
LEMMA StoreTypesOther ==
  ASSUME WellFormed, StoreTypes,
         ExecuteLate \/ (\E p \in Players : Expire(p)) \/ UNCHANGED rhVars
           \/ \E t \in Threads, r \in Request : Receive(t, r)
  PROVE  StoreTypes'
<1> USE DEF StoreTypes
<1>1. CASE ExecuteLate
  <2>1. PICK c \in late : redis' = Executed(c) /\ late' = late \ {c}
    BY <1>1 DEF ExecuteLate
  <2>2. redis' \in RedisType /\ late' \subseteq RedisCommand
    BY <2>1, ExecutedType
  <2> QED BY <1>1, <2>2 DEF ExecuteLate, workerVars, historyVars
<1>2. CASE \E p \in Players : Expire(p)
  <2>1. redis' \in RedisType
    BY <1>2 DEF Expire, RedisType
  <2> QED BY <1>2, <2>1 DEF Expire, workerVars, historyVars
<1>3. CASE UNCHANGED rhVars
  BY <1>3 DEF rhVars, workerVars, storeVars, historyVars
<1>4. CASE \E t \in Threads, r \in Request : Receive(t, r)
  <2>1. metrics' = [metrics EXCEPT !["requestsTotal"] = metrics["requestsTotal"] + 1]
    BY <1>4 DEF Receive
  <2>2. metrics' \in [MetricNames -> Nat]
    BY <2>1, Bump DEF MetricNames
  <2> QED BY <1>4, <2>2 DEF Receive, historyVars
<1> QED BY <1>1, <1>2, <1>3, <1>4

\* The state of the server stays in its types.
TypesInv == WellFormed /\ Guided /\ GSTypeOK /\ StoreTypes

\* The server starts in its types.
LEMMA TypesInit == RHInit => Guided /\ StoreTypes
<1> SUFFICES ASSUME RHInit PROVE Guided /\ StoreTypes
  OBVIOUS
<1>1. Guided
  BY DEF RHInit, Guided, Guide
<1>2. StoreTypes
  <2>1. redis \in RedisType
    BY CacheAssumption DEF RHInit, RedisType
  <2> QED BY <2>1, Zero DEF RHInit, StoreTypes, MetricNames
<1> QED BY <1>1, <1>2

\* Every step keeps to the handlers' lists.
LEMMA GuidedStep == WellFormed /\ Guided /\ [RHNext]_rhVars => Guided'
<1> SUFFICES ASSUME WellFormed, Guided, [RHNext]_rhVars PROVE Guided'
  OBVIOUS
<1>1. ASSUME NEW t \in Threads, Step(t) PROVE Guided'
  BY <1>1, Moves
<1>2. ASSUME NEW t \in Threads, NEW r \in Request, Receive(t, r) PROVE Guided'
  BY <1>2, Begins
<1>3. CASE UNCHANGED <<req, todo>>
  BY <1>3 DEF Guided
<1>4. CASE ExecuteLate BY <1>3, <1>4 DEF ExecuteLate, workerVars
<1>5. CASE \E p \in Players : Expire(p) BY <1>3, <1>5 DEF Expire, workerVars
<1>6. CASE UNCHANGED rhVars BY <1>3, <1>6 DEF rhVars, workerVars
<1> QED BY <1>1, <1>2, <1>4, <1>5, <1>6 DEF RHNext

\* The inductive invariant of the types.
LEMMA TypesCorrect == RHSpec => []TypesInv
<1>1. RHInit => WellFormed /\ Guided /\ StoreTypes
  BY WellFormedInit, TypesInit
<1>2. TypesInv /\ [RHNext]_rhVars => Guided' /\ StoreTypes'
  <2> SUFFICES ASSUME TypesInv, [RHNext]_rhVars PROVE Guided' /\ StoreTypes'
    OBVIOUS
  <2>1. WellFormed /\ Guided /\ GSTypeOK /\ StoreTypes
    BY DEF TypesInv
  <2>2. ASSUME NEW t \in Threads, Step(t) PROVE StoreTypes'
    BY <2>1, <2>2, StoreTypesStep
  <2>3. StoreTypes'
    BY <2>1, <2>2, StoreTypesOther DEF RHNext
  <2> QED BY <2>1, <2>3, GuidedStep
<1> QED BY <1>1, <1>2, WellFormedCorrect, HandlersUseGameState, TypeCorrect, PTL
        DEF RHSpec, TypesInv

\* Every variable of the server holds values of its type, for any number of
\* workers and players: scores stay ints, and so do the rows of the database;
\* a cached position is a point of the map; counters never go negative.
THEOREM RHTypeCorrect == RHSpec => []RHTypeOK
<1>1. TypesInv => RHTypeOK
  BY DEF TypesInv, WellFormed, StoreTypes, RedisType, RHTypeOK, MetricNames
<1> QED BY <1>1, TypesCorrect, PTL

Saved == {"dbRecordEvent", "takeEventId", "pushEvent", "succeed"}
Dropped == Saved \cup {"upsertPlayer"}
Accepted == Dropped \cup {"activePlayerCount", "setActivePlayers", "setPlayerSession",
                         "setSpawnPosition", "deletePlayerSession"}

In(t, a, S) == Place(t) \in S /\ req[t].action = a

\* Where it has not failed, upsertPlayer keeps the greatest score ever stored.
HighInv ==
  \A t \in Threads : In(t, "LEAVE", Saved) /\ req[t].player_id \notin unsaved =>
    LET row == dbPlayers[req[t].player_id]
    IN  row # NoRow /\ row.high_score >= finalScore[t]

\* Each player is spoken for by one worker.
Owned == \A t, u \in Threads : t # u => Speaks[t] \cap Speaks[u] = {}

\* A worker handles requests of players it speaks for.
OwnRequests ==
  \A t \in Threads : Place(t) # "idle" /\ req[t] \in NamedRequest =>
    req[t].player_id \in Speaks[t]

\* While LEAVE is handled its player is out of the game.
Gone == \A t \in Threads : In(t, "LEAVE", Accepted) => ~hasPlayer(req[t].player_id)

\* No final score is remembered of a player in the game, coming or going.
Farewell ==
  /\ \A p \in Players : farewell[p] # NoScore => ~hasPlayer(p)
  /\ \A t \in Threads : In(t, "JOIN", Accepted) \/ In(t, "LEAVE", Accepted) =>
       farewell[req[t].player_id] = NoScore

\* Once upsertPlayer is done the row has the final score.
FinalInv ==
  \A t \in Threads : In(t, "LEAVE", Saved) =>
    LET row == dbPlayers[req[t].player_id]
    IN  row # NoRow /\ row.score = finalScore[t]

\* Once deletePlayerSession is done the session is gone.
SessionInv ==
  \A t \in Threads : In(t, "LEAVE", Dropped) => req[t].player_id \notin redis.session

\* No command is late, and without the cache nothing is cached.
Quiet ==
  /\ late = {}
  /\ ~CacheEnabled => redis.session = {} /\ \A p \in Players : redis.pos[p] = NoPos

\* Where player p is, and where the request of worker t takes its player.
Here(p) == <<m_players[p].x, m_players[p].y>>
Target(t) == <<Clamp(GetInt(req[t].x)), Clamp(GetInt(req[t].y))>>

\* Worker t has put player p somewhere and has not yet told the cache.
Spawning(t, p) ==
  /\ In(t, "JOIN", {"activePlayerCount", "setActivePlayers", "setPlayerSession",
                    "setSpawnPosition"})
  /\ req[t].player_id = p

\* Worker t has moved player p and has not yet told the cache.
Moving(t, p) == In(t, "MOVE", {"setPlayerPosition"}) /\ req[t].player_id = p

\* The cached position is the player's, or a worker is about to store it.
FreshInv ==
  \A t \in Threads : \A p \in Speaks[t] : hasPlayer(p) =>
    /\ Spawning(t, p) => Here(p) = <<SPAWN, SPAWN>>
    /\ Moving(t, p) => Here(p) = Target(t)
    /\ redis.pos[p] \in {NoPos, Here(p)} \/ Spawning(t, p) \/ Moving(t, p)

\* The last row of game_events for p is a JOIN.
JoinedLast(p) == dbEvents[p] # <<>> /\ dbEvents[p][Len(dbEvents[p])] = "JOIN"

\* Places of a worker whose JOIN or LEAVE is not yet in the database.
Recording == Accepted \ {"takeEventId", "pushEvent", "succeed"}

\* Of a player in the game the last row is a JOIN, or one is on its way.
DbInv ==
  \A t \in Threads :
    /\ \A p \in Speaks[t] : hasPlayer(p) =>
         JoinedLast(p) \/ (req[t].player_id = p /\ In(t, "JOIN", Recording))
    /\ In(t, "LEAVE", Recording) => JoinedLast(req[t].player_id)

\* The last event of p in the log is a LEAVE.
LeftLast(p) ==
  \E i \in 1..Len(m_events) :
    /\ m_events[i].player_id = p /\ m_events[i].event_type = "LEAVE"
    /\ \A j \in (i + 1)..Len(m_events) : m_events[j].player_id # p

\* Places of a worker whose request has been accepted and not yet logged.
Logging == (Accepted \ {"succeed"}) \cup {"setPlayerPosition"}

\* A worker holds the event of its request, whose id is greater than those its
\* player has in the log.
EvInv ==
  \A t \in Threads :
    /\ ev[t] # NoEvent <=> Place(t) = "pushEvent"
    /\ Place(t) = "pushEvent" =>
         /\ ev[t].player_id = req[t].player_id /\ ev[t].event_type = req[t].action
         /\ \A i \in 1..Len(m_events) :
              m_events[i].player_id = req[t].player_id => m_events[i].event_id < ev[t].event_id

\* A player whose last event is LEAVE has left, and whatever comes next is a JOIN.
LeftInv ==
  \A t \in Threads :
    /\ Place(t) \in Logging /\ LeftLast(req[t].player_id) => req[t].action = "JOIN"
    /\ \A p \in Speaks[t] : hasPlayer(p) /\ LeftLast(p) =>
         In(t, "JOIN", Logging) /\ req[t].player_id = p

-----------------------------------------------------------------------------
(* What the workers' steps do to the tables *)

\* How a worker comes to be between the calls of a JOIN or a LEAVE.
LEMMA Enters ==
  ASSUME WellFormed, Guided, NEW t \in Threads, Step(t)
  PROVE  /\ In(t, "LEAVE", Saved)' => In(t, "LEAVE", Saved \cup {"upsertPlayer"})
         /\ In(t, "LEAVE", Dropped)' => In(t, "LEAVE", Dropped \cup {"deletePlayerSession"})
         /\ In(t, "LEAVE", Accepted)' =>
              In(t, "LEAVE", Accepted) \/ (In(t, "LEAVE", {"removePlayer"}) /\ Proceed(t))
         /\ In(t, "JOIN", Accepted)' =>
              In(t, "JOIN", Accepted) \/ (In(t, "JOIN", {"addPlayer"}) /\ Proceed(t))
         /\ Place(t)' \in Calls => req'[t] = req[t]
<1> DEFINE c == Place(t)
           d == Place(t)'
           a == req[t].action
<1>1. /\ c \in Calls /\ a \in MadeBy(c)
      /\ c = "timer" => d = "idle"
      /\ c # "timer" => req' = req /\ (Proceed(t) \/ Refuse(t))
      /\ c \notin Checks => Proceed(t)
      /\ c # "timer" /\ Proceed(t) => d = Follow(a, c)
      /\ Refuse(t) => d = "fail"
  BY Moves
<1>2. "idle" \notin Accepted /\ "fail" \notin Accepted /\ "idle" \notin Calls
  BY DEF Accepted, Dropped, Saved, Calls
<1>3. \A b, S : In(t, b, S) <=> c \in S /\ a = b
  BY DEF In
<1>4. c # "timer" => \A b, S : In(t, b, S)' <=> d \in S /\ a = b
  BY <1>1 DEF In
<1>5. c = "timer" => \A b : /\ ~In(t, b, Saved)' /\ ~In(t, b, Dropped)'
                            /\ ~In(t, b, Accepted)'
  BY <1>1, <1>2 DEF In, Accepted, Dropped
<1>6. Refuse(t) /\ c # "timer" => \A b : /\ ~In(t, b, Saved)' /\ ~In(t, b, Dropped)'
                                         /\ ~In(t, b, Accepted)'
  BY <1>1, <1>2, <1>4 DEF Accepted, Dropped
<1> HIDE DEF c, d, a
<1>7. ASSUME c # "timer", Proceed(t)
      PROVE  /\ d \in Saved /\ a = "LEAVE" => c \in Saved \cup {"upsertPlayer"}
             /\ d \in Dropped /\ a = "LEAVE" => c \in Dropped \cup {"deletePlayerSession"}
             /\ d \in Accepted /\ a = "LEAVE" => c \in Accepted \cup {"removePlayer"}
             /\ d \in Accepted /\ a = "JOIN" => c \in Accepted \cup {"addPlayer"}
  <2>1. d = Follow(a, c)
    BY <1>1, <1>7
  <2> USE <1>1, <2>1, Calling, Makers DEF Saved, Dropped, Accepted
  <2>a. CASE c \in {"movePlayer", "setPlayerPosition", "attackPlayer", "setScore", "hasPlayer",
                    "getPlayerSession", "fail"}
    BY <2>a
  <2>b. CASE c \in Accepted
    <3>1. CASE c = "activePlayerCount" BY <3>1
    <3>2. CASE c = "setActivePlayers"
      <4>1. a \in {"JOIN", "LEAVE"}
        BY <3>2
      <4>2. CASE a = "JOIN" BY <3>2, <4>2
      <4>3. CASE a = "LEAVE" BY <3>2, <4>3
      <4> QED BY <4>1, <4>2, <4>3
    <3>3. CASE c = "setPlayerSession" BY <3>3
    <3>4. CASE c = "setSpawnPosition" BY <3>4
    <3>5. CASE c = "deletePlayerSession" BY <3>5
    <3>6. CASE c = "upsertPlayer" BY <3>6
    <3>7. CASE c \in Saved BY <3>7
    <3> QED BY <2>b, <3>1, <3>2, <3>3, <3>4, <3>5, <3>6, <3>7
  <2>c. CASE c \in {"addPlayer", "removePlayer"}
    BY <2>c
  <2> QED BY <1>7, <2>a, <2>b, <2>c DEF Calls
<1>8. ASSUME c # "timer", Proceed(t)
      PROVE  /\ In(t, "LEAVE", Saved)' => In(t, "LEAVE", Saved \cup {"upsertPlayer"})
             /\ In(t, "LEAVE", Dropped)' => In(t, "LEAVE", Dropped \cup {"deletePlayerSession"})
             /\ In(t, "LEAVE", Accepted)' =>
                  In(t, "LEAVE", Accepted) \/ (In(t, "LEAVE", {"removePlayer"}) /\ Proceed(t))
             /\ In(t, "JOIN", Accepted)' =>
                  In(t, "JOIN", Accepted) \/ (In(t, "JOIN", {"addPlayer"}) /\ Proceed(t))
  BY <1>3, <1>4, <1>7, <1>8
<1>9. Place(t)' \in Calls => req'[t] = req[t]
  BY <1>1, <1>2 DEF d
<1> QED BY <1>1, <1>5, <1>6, <1>8, <1>9

\* The other workers stay where they are.
LEMMA Others ==
  ASSUME WellFormed, Guided, StoreTypes, GSTypeOK, NEW t \in Threads,
         Step(t) \/ \E r \in Request : Receive(t, r),
         NEW u \in Threads, u # t
  PROVE  /\ Place(u)' = Place(u) /\ req'[u] = req[u]
         /\ finalScore'[u] = finalScore[u] /\ ev'[u] = ev[u]
         /\ \A a, S : In(u, a, S)' <=> In(u, a, S)
<1>1. CASE Step(t)
  <2>1. Place(u)' = Place(u) /\ req'[u] = req[u] /\ todo[t] # <<>>
    BY <1>1, Moves
  <2>2. finalScore'[u] = finalScore[u]
    <3>1. CASE Head(todo[t]) = "removePlayer"
      <4>1. LeaveGame(t)
        BY <1>1, <3>1, Doing
      <4> QED BY <4>1 DEF LeaveGame, StoreTypes
    <3>2. CASE Head(todo[t]) = "timer"
      <4>1. StopTimer(t)
        BY <1>1, <3>2, Doing
      <4> QED BY <4>1 DEF StopTimer, StoreTypes
    <3>3. CASE Head(todo[t]) \notin {"removePlayer", "timer"}
      BY <1>1, <2>1, <3>3, Frame
    <3> QED BY <3>1, <3>2, <3>3
  <2>3. ev'[u] = ev[u]
    <3>1. CASE Head(todo[t]) = "takeEventId"
      <4>1. StartEvent(t)
        BY <1>1, <3>1, Doing
      <4> QED BY <4>1 DEF StartEvent, takeEventId, GSTypeOK
    <3>2. CASE Head(todo[t]) = "pushEvent"
      <4>1. LogEvent(t)
        BY <1>1, <3>2, Doing
      <4> QED BY <4>1 DEF LogEvent, pushEvent, GSTypeOK
    <3>3. CASE Head(todo[t]) \notin {"takeEventId", "pushEvent"}
      BY <1>1, <2>1, <3>3, Frame
    <3> QED BY <3>1, <3>2, <3>3
  <2> QED BY <2>1, <2>2, <2>3 DEF In
<1>2. CASE \E r \in Request : Receive(t, r)
  <2>1. PICK r \in Request : Receive(t, r)
    BY <1>2
  <2>2. Place(u)' = Place(u) /\ req'[u] = req[u]
    BY <2>1, Begins
  <2>3. finalScore' = finalScore /\ ev' = ev
    BY <2>1 DEF Receive, gsVars
  <2> QED BY <2>2, <2>3 DEF In
<1> QED BY <1>1, <1>2

\* A worker that has just received a request has made none of its calls.
LEMMA Beginner ==
  ASSUME WellFormed, Guided, NEW t \in Threads, NEW r \in Request, Receive(t, r)
  PROVE  \A a \in {"JOIN", "LEAVE"} :
           ~In(t, a, Saved)' /\ ~In(t, a, Dropped)' /\ ~In(t, a, Accepted)'
<1>1. /\ req'[t] = r /\ Place(t)' \in Checks \cup {"succeed", "fail"}
      /\ Place(t)' = "succeed" => r.action \in {"SPECTATE", "GET_METRICS"}
  BY Begins
<1> QED BY <1>1 DEF In, Saved, Dropped, Accepted, Checks

\* Redis on its own changes nothing but what it stores.
Background == ExecuteLate \/ (\E p \in Players : Expire(p)) \/ UNCHANGED rhVars

\* What Redis on its own leaves alone.
LEMMA InBackground ==
  ASSUME Background
  PROVE  /\ UNCHANGED <<m_players, m_events, m_nextEventId, ev, req, todo, finalScore>>
         /\ UNCHANGED <<dbPlayers, dbEvents, farewell, finals, unsaved>>
         /\ \A t \in Threads : /\ Place(t)' = Place(t)
                               /\ \A a, S : In(t, a, S)' <=> In(t, a, S)
<1>1. /\ UNCHANGED <<m_players, m_events, m_nextEventId, ev, req, todo, finalScore>>
      /\ UNCHANGED <<dbPlayers, dbEvents, farewell, finals, unsaved>>
  BY DEF Background, ExecuteLate, Expire, rhVars, gsVars, workerVars, storeVars, historyVars
<1> QED BY <1>1 DEF Place, In

\* What a request's arrival leaves alone.
LEMMA InReceive ==
  ASSUME NEW t \in Threads, NEW r \in Request, Receive(t, r)
  PROVE  /\ UNCHANGED <<m_players, m_events, m_nextEventId, ev, finalScore>>
         /\ UNCHANGED <<dbPlayers, dbEvents, farewell, finals, unsaved, redis, late>>
  BY DEF Receive, gsVars, historyVars

-----------------------------------------------------------------------------
(* The high score *)

\* A statement that succeeds does what it says.
LEMMA Saving ==
  ASSUME "mysql" \notin MayFail, NEW t \in Threads, NEW p, p = req[t].player_id
  PROVE  /\ SavePlayer(t) => dbPlayers' = [dbPlayers EXCEPT
                                             ![p] = Upserted(dbPlayers[p], ScoreToStore(t))]
         /\ SaveEvent(t) => dbEvents' = [dbEvents EXCEPT
                                           ![p] = Append(dbEvents[p], req[t].action)]
  BY DEF SavePlayer, SaveEvent, Statement

\* upsertPlayer stores the row or is known to have failed.
LEMMA Unsaved ==
  ASSUME NEW t \in Threads, Step(t)
  PROVE  /\ unsaved \subseteq unsaved'
         /\ SavePlayer(t) /\ req[t].player_id \notin unsaved' =>
              dbPlayers' = [dbPlayers EXCEPT
                              ![req[t].player_id] =
                                Upserted(dbPlayers[req[t].player_id], ScoreToStore(t))]
<1>1. SavePlayer(t) =>
        /\ unsaved \subseteq unsaved'
        /\ req[t].player_id \notin unsaved' =>
              dbPlayers' = [dbPlayers EXCEPT
                              ![req[t].player_id] =
                                Upserted(dbPlayers[req[t].player_id], ScoreToStore(t))]
  BY DEF SavePlayer, Statement
<1>2. todo[t] # <<>>
  BY StepShape
<1>3. CASE Head(todo[t]) = "upsertPlayer"
  BY <1>1, <1>3, Doing
<1>4. CASE Head(todo[t]) # "upsertPlayer"
  <2>1. unsaved' = unsaved
    BY <1>2, <1>4, Frame
  <2>2. ~SavePlayer(t)
    BY <1>4 DEF SavePlayer, At
  <2> QED BY <2>1, <2>2
<1> QED BY <1>3, <1>4

\* A row is never deleted and its high score never goes down, and the final
\* score of a LEAVE reaches it before dbRecordEvent.
LEMMA RowsGrow ==
  ASSUME TypesInv, NEW t \in Threads, Step(t)
  PROVE  \A p \in Players : dbPlayers[p] # NoRow =>
           dbPlayers'[p] # NoRow /\ dbPlayers'[p].high_score >= dbPlayers[p].high_score
<1>1. WellFormed /\ Guided /\ GSTypeOK /\ StoreTypes
  BY DEF TypesInv
<1>2. dbPlayers \in [Players -> Row \cup {NoRow}] /\ ScoreToStore(t) \in CInt
  BY <1>1, StoreArguments DEF StoreTypes
<1>3. \A row \in Row : row.high_score >= row.high_score
  <2>1. CInt \subseteq Int
    BY ConstantsAssumption DEF CInt, INT_MIN
  <2>2. \A n \in Int : n >= n
    OBVIOUS
  <2>3. \A row \in Row : row.high_score \in CInt
    BY DEF Row
  <2> QED BY <2>1, <2>2, <2>3
<1>4. CASE dbPlayers' = dbPlayers
  BY <1>2, <1>3, <1>4
<1>5. CASE dbPlayers' # dbPlayers
  <2> DEFINE p == req[t].player_id
  <2>1. SavePlayer(t)
    BY <1>1, <1>5, Moves, Frame, Doing
  <2>2. dbPlayers' = [dbPlayers EXCEPT ![p] = Upserted(dbPlayers[p], ScoreToStore(t))]
    BY <1>5, <2>1 DEF SavePlayer, Statement
  <2> HIDE DEF p
  <2>3. ASSUME NEW q \in Players, dbPlayers[q] # NoRow
        PROVE  dbPlayers'[q] # NoRow /\ dbPlayers'[q].high_score >= dbPlayers[q].high_score
    <3>1. CASE q = p
      BY <1>2, <2>2, <2>3, <3>1, UpsertedRow
    <3>2. CASE q # p
      BY <1>2, <1>3, <2>2, <2>3, <3>2
    <3> QED BY <3>1, <3>2
  <2> QED BY <2>3
<1> QED BY <1>4, <1>5

\* The inductive invariant of the high score.
HighScoreInv == HighInv /\ HighScoreKept

\* A call keeps it.
LEMMA HighStep ==
  ASSUME TypesInv, TypesInv', HighScoreInv, NEW t \in Threads, Step(t)
  PROVE  HighScoreInv'
<1>1. WellFormed /\ Guided /\ GSTypeOK /\ StoreTypes /\ todo[t] # <<>>
  BY Moves DEF TypesInv
<1>2. /\ \A p \in Players : dbPlayers[p] # NoRow =>
           dbPlayers'[p] # NoRow /\ dbPlayers'[p].high_score >= dbPlayers[p].high_score
      /\ dbPlayers \in [Players -> Row \cup {NoRow}]
      /\ dbPlayers' \in [Players -> Row \cup {NoRow}]
      /\ finalScore \in [Threads -> CInt] /\ finals \in [Players -> SUBSET CInt]
      /\ CInt \subseteq Int
  BY <1>1, RowsGrow, ConstantsAssumption DEF TypesInv, StoreTypes, CInt, INT_MIN
<1>3. ASSUME NEW p \in Players, NEW s \in CInt,
             dbPlayers[p] # NoRow, dbPlayers[p].high_score >= s
      PROVE  dbPlayers'[p] # NoRow /\ dbPlayers'[p].high_score >= s
  <2>1. dbPlayers'[p] # NoRow /\ dbPlayers'[p].high_score >= dbPlayers[p].high_score
    BY <1>2, <1>3
  <2>2. dbPlayers[p].high_score \in Int /\ dbPlayers'[p].high_score \in Int /\ s \in Int
    BY <1>2, <1>3, <2>1 DEF Row
  <2> QED BY <1>3, <2>1, <2>2
<1>0. unsaved \subseteq unsaved'
  BY Unsaved
<1>4. ASSUME NEW u \in Threads, In(u, "LEAVE", Saved)', req'[u].player_id \notin unsaved'
      PROVE  LET p == req'[u].player_id
             IN  dbPlayers'[p] # NoRow /\ dbPlayers'[p].high_score >= finalScore'[u]
  <2> DEFINE p == req'[u].player_id
  <2>1. CASE u # t
    <3>1. In(u, "LEAVE", Saved) /\ req'[u] = req[u] /\ finalScore'[u] = finalScore[u]
      BY <1>1, <1>4, <2>1, Others
    <3>2. p \in Players /\ finalScore[u] \in CInt
      <4>1. req[u] \in Request
        BY <1>1, <3>1 DEF Guided, In, Place, Saved
      <4> QED BY <1>2, <3>1, <4>1, Named DEF In
    <3> QED BY <1>0, <1>3, <1>4, <3>1, <3>2 DEF HighScoreInv, HighInv
  <2>2. CASE u = t
    <3>1. In(t, "LEAVE", Saved \cup {"upsertPlayer"}) /\ req'[t] = req[t]
      BY <1>1, <1>4, <2>2, Enters DEF In, Saved, Calls
    <3>2. p \in Players /\ finalScore[t] \in CInt /\ Place(t) = Head(todo[t])
      <4>1. req[t] \in Request /\ Place(t) = Head(todo[t])
        BY <1>1, Moves
      <4> QED BY <1>2, <2>2, <3>1, <4>1, Named DEF In
    <3>3. finalScore' = finalScore
      BY <1>1, <3>1, <3>2, Frame DEF In, Saved
    <3>4. CASE In(t, "LEAVE", Saved)
      BY <1>0, <1>3, <1>4, <2>2, <3>1, <3>2, <3>3, <3>4 DEF HighScoreInv, HighInv
    <3>5. CASE In(t, "LEAVE", {"upsertPlayer"})
      <4>1. SavePlayer(t) /\ ScoreToStore(t) = finalScore[t]
        BY <3>2, <3>5, Doing DEF In, ScoreToStore
      <4>2. dbPlayers' = [dbPlayers EXCEPT ![p] = Upserted(dbPlayers[p], finalScore[t])]
        BY <1>4, <2>2, <3>1, <4>1, Unsaved
      <4> HIDE DEF p
      <4> QED BY <1>2, <2>2, <3>2, <3>3, <4>2, UpsertedRow DEF p
    <3> QED BY <3>1, <3>4, <3>5 DEF In
  <2> QED BY <2>1, <2>2
<1>5. ASSUME NEW p \in Players, p \notin unsaved', NEW s \in finals'[p]
      PROVE  dbPlayers'[p] # NoRow /\ dbPlayers'[p].high_score >= s
  <2>1. CASE s \in finals[p]
    BY <1>0, <1>2, <1>3, <1>5, <2>1 DEF HighScoreInv, HighScoreKept
  <2>2. CASE s \notin finals[p]
    <3>1. Head(todo[t]) = "succeed" /\ Succeed(t)
      BY <1>1, <1>5, <2>2, Frame, Doing
    <3>2. req[t].action = "LEAVE" /\ p = req[t].player_id /\ s = finalScore[t]
      BY <1>2, <1>5, <2>2, <3>1 DEF Succeed
    <3>3. In(t, "LEAVE", Saved)
      BY <1>1, <3>1, <3>2, Moves DEF In, Saved
    <3> QED BY <1>0, <1>2, <1>3, <1>5, <3>2, <3>3 DEF HighScoreInv, HighInv
  <2> QED BY <2>1, <2>2
<1> QED BY <1>4, <1>5 DEF HighScoreInv, HighInv, HighScoreKept

\* The high score stored for a player is never below a final score that a LEAVE
\* has answered, in whatever order the JOINs and LEAVEs of any number of workers
\* reach the database (upsertPlayer's GREATEST), unless an upsertPlayer failed
\* for the player.
THEOREM HighScoreCorrect == RHSpec => []HighScoreKept
<1>1. RHInit => HighScoreInv
  BY DEF RHInit, HighScoreInv, HighInv, HighScoreKept, In, Place, Saved
<1>2. TypesInv /\ TypesInv' /\ HighScoreInv /\ [RHNext]_rhVars => HighScoreInv'
  <2> SUFFICES ASSUME TypesInv, TypesInv', HighScoreInv, [RHNext]_rhVars PROVE HighScoreInv'
    OBVIOUS
  <2>1. ASSUME NEW t \in Threads, Step(t) PROVE HighScoreInv'
    BY <2>1, HighStep
  <2>2. ASSUME NEW t \in Threads, NEW r \in Request, Receive(t, r) PROVE HighScoreInv'
    <3>1. ASSUME NEW u \in Threads, In(u, "LEAVE", Saved)'
          PROVE  In(u, "LEAVE", Saved) /\ req'[u] = req[u]
      BY <2>2, <3>1, Others, Beginner DEF TypesInv
    <3>2. UNCHANGED <<dbPlayers, finals, finalScore, unsaved>>
      BY <2>2, InReceive
    <3> QED BY <3>1, <3>2 DEF HighScoreInv, HighInv, HighScoreKept
  <2>3. CASE Background
    BY <2>3, InBackground DEF HighScoreInv, HighInv, HighScoreKept
  <2> QED BY <2>1, <2>2, <2>3 DEF RHNext, Background
<1>3. HighScoreInv => HighScoreKept
  BY DEF HighScoreInv
<1> QED BY <1>1, <1>2, <1>3, TypesCorrect, PTL DEF RHSpec

-----------------------------------------------------------------------------
(* One worker per player *)

\* What movePlayer clamps again it leaves alone.
LEMMA ClampTwice == \A n \in Int : Clamp(Clamp(n)) = Clamp(n)
  BY ConstantsAssumption DEF Clamp

\* movePlayer puts the player where the request says, and nobody else elsewhere.
LEMMA Displaced ==
  ASSUME TypesInv, NEW t \in Threads, Step(t), Place(t) = "movePlayer"
  PROVE  LET p == req[t].player_id IN
         /\ req[t].action = "MOVE" /\ req' = req
         /\ \/ /\ Place(t)' = "setPlayerPosition" /\ hasPlayer(p)
               /\ DOMAIN m_players' = DOMAIN m_players
               /\ m_players'[p].x = Target(t)[1] /\ m_players'[p].y = Target(t)[2]
               /\ \A q \in DOMAIN m_players : q # p => m_players'[q] = m_players[q]
            \/ Place(t)' = "fail" /\ UNCHANGED gsVars
<1>1. WellFormed /\ Guided /\ GSTypeOK /\ StoreTypes
  BY DEF TypesInv
<1> DEFINE r == req[t]
           p == r.player_id
           x == Clamp(GetInt(r.x))
           y == Clamp(GetInt(r.y))
<1>2. MoveInGame(t) /\ r.action = "MOVE" /\ req' = req /\ r \in Request
  BY <1>1, Doing, Moves, Makers
<1>3. Clamp(x) = x /\ Clamp(y) = y
  <2>1. r.x \in JsonInts /\ r.y \in JsonInts
    BY <1>2 DEF Request, NamedRequest, PlayerRequest, MoveRequest, AttackRequest,
       ScoreRequest, OtherRequest
  <2>2. CInt \subseteq Int /\ Scores \subseteq CInt
    BY ConstantsAssumption DEF CInt, INT_MIN
  <2>3. GetInt(r.x) \in Int /\ GetInt(r.y) \in Int
    BY <2>1, <2>2, RequestAssumption
  <2> QED BY <2>3, ClampTwice
<1>4. CASE Refuse(t) /\ UNCHANGED gsVars
  BY <1>1, <1>2, <1>4, Moves
<1>5. CASE movePlayer(p, x, y) /\ Proceed(t)
  <2>1. Place(t)' = "setPlayerPosition"
    BY <1>1, <1>5, Moves, Calling
  <2> HIDE DEF x, y
  <2>2. /\ hasPlayer(p) /\ DOMAIN m_players' = DOMAIN m_players
        /\ m_players'[p].x = x /\ m_players'[p].y = y
        /\ \A q \in DOMAIN m_players : q # p => m_players'[q] = m_players[q]
    BY <1>1, <1>3, <1>5 DEF movePlayer, movePlayerOK, hasPlayer, GSTypeOK, PlayerState
  <2> QED BY <1>2, <2>1, <2>2 DEF Target, x, y
<1> QED BY <1>2, <1>4, <1>5 DEF MoveInGame

\* A step brings a player into the game only by addPlayer and moves one only by
\* movePlayer, in both cases the player of the request; a hit moves nobody.
LEMMA World ==
  ASSUME TypesInv, NEW t \in Threads, Step(t), NEW p \in Players, hasPlayer(p)'
  PROVE  \/ hasPlayer(p) /\ Here(p)' = Here(p)
         \/ /\ Place(t) = "addPlayer" /\ p = req[t].player_id /\ ~hasPlayer(p)
            /\ Here(p)' = <<SPAWN, SPAWN>>
         \/ /\ Place(t) = "movePlayer" /\ p = req[t].player_id /\ hasPlayer(p)
            /\ Here(p)' = Target(t)
            /\ Place(t)' = "setPlayerPosition" /\ req[t].action = "MOVE" /\ req' = req
<1>1. WellFormed /\ Guided /\ GSTypeOK /\ StoreTypes
  BY DEF TypesInv
<1>2. todo[t] # <<>> /\ Place(t) = Head(todo[t])
  BY <1>1, Moves
<1>3. m_players = [q \in DOMAIN m_players |-> m_players[q]]
  BY <1>1 DEF GSTypeOK
<1> DEFINE r == req[t]
<1>4. CASE m_players' = m_players
  BY <1>4 DEF hasPlayer, Here
<1>5. CASE m_players' # m_players /\ Place(t) = "addPlayer"
  <2>1. JoinGame(t)
    BY <1>2, <1>5, Doing
  <2>2. addPlayer(r.player_id)
    BY <1>5, <2>1 DEF JoinGame, gsVars
  <2>3. CASE p = r.player_id
    BY <1>5, <2>2, <2>3 DEF addPlayer, addPlayerOK, hasPlayer, Here, NewPlayer
  <2>4. CASE p # r.player_id
    BY <2>2, <2>4 DEF addPlayer, addPlayerOK, hasPlayer, Here
  <2> QED BY <2>3, <2>4
<1>6. CASE m_players' # m_players /\ Place(t) = "removePlayer"
  <2>1. LeaveGame(t)
    BY <1>2, <1>6, Doing
  <2>2. removePlayer(r.player_id)
    BY <1>6, <2>1 DEF LeaveGame, gsVars
  <2> QED BY <2>2 DEF removePlayer, removePlayerOK, hasPlayer, Here, Without
<1>7. CASE m_players' # m_players /\ Place(t) = "movePlayer"
  <2> DEFINE z == Target(t)
  <2>1. z = <<z[1], z[2]>>
    BY DEF Target
  <2> HIDE DEF z
  <2>2. /\ r.action = "MOVE" /\ req' = req
        /\ Place(t)' = "setPlayerPosition" /\ hasPlayer(r.player_id)
        /\ DOMAIN m_players' = DOMAIN m_players
        /\ m_players'[r.player_id].x = z[1] /\ m_players'[r.player_id].y = z[2]
        /\ \A q \in DOMAIN m_players : q # r.player_id => m_players'[q] = m_players[q]
    BY <1>7, Displaced DEF gsVars, z
  <2> QED BY <1>7, <2>1, <2>2 DEF hasPlayer, Here, z
<1>8. CASE m_players' # m_players /\ Place(t) = "attackPlayer"
  <2>1. AttackInGame(t)
    BY <1>2, <1>8, Doing
  <2> DEFINE a == r.player_id
             b == r.target_id
  <2>2. attackPlayer(a, b)
    BY <1>8, <2>1 DEF AttackInGame, gsVars
  <2> HIDE DEF a, b
  <2>3. DOMAIN AfterHit(a, b) = DOMAIN m_players
    BY DEF AfterHit
  <2>4. \A q \in DOMAIN m_players : AfterHit(a, b)[q].x = m_players[q].x
                                   /\ AfterHit(a, b)[q].y = m_players[q].y
    <3>1. /\ m_players \in [DOMAIN m_players -> PlayerState] /\ a # b
          /\ a \in DOMAIN m_players /\ b \in DOMAIN m_players
      BY <1>1, <2>2 DEF GSTypeOK, attackPlayer, attackPlayerOK, hasPlayer
    <3>2. /\ AfterHit(a, b)[a].x = m_players[a].x /\ AfterHit(a, b)[a].y = m_players[a].y
      BY <3>1 DEF AfterHit, PlayerState
    <3>3. /\ AfterHit(a, b)[b].x = m_players[b].x /\ AfterHit(a, b)[b].y = m_players[b].y
      BY <3>1 DEF AfterHit, PlayerState
    <3>4. \A q \in DOMAIN m_players : q # a /\ q # b => AfterHit(a, b)[q] = m_players[q]
      BY <3>1 DEF AfterHit
    <3> QED BY <3>2, <3>3, <3>4
  <2>5. m_players' = AfterHit(a, b) \/ m_players' = Without(AfterHit(a, b), b)
    BY <2>2 DEF attackPlayer
  <2> QED BY <2>3, <2>4, <2>5 DEF hasPlayer, Here, Without
<1>9. CASE m_players' # m_players /\ Place(t) = "setScore"
  <2>1. ScoreInGame(t)
    BY <1>2, <1>9, Doing
  <2>2. setScore(r.player_id, GetInt(r.score))
    BY <1>9, <2>1 DEF ScoreInGame, gsVars
  <2> QED BY <1>1, <2>2 DEF setScore, setScoreOK, hasPlayer, Here, GSTypeOK, PlayerState
<1>10. m_players' # m_players =>
         Place(t) \in {"addPlayer", "removePlayer", "movePlayer", "attackPlayer", "setScore"}
  BY <1>2, Frame
<1> QED BY <1>4, <1>5, <1>6, <1>7, <1>8, <1>9, <1>10

\* The inductive invariant of one worker per player.
OwnInv == Owned /\ OwnRequests /\ Gone /\ Farewell

\* A worker that joins or leaves speaks for its player, and nobody else does.
LEMMA Mine ==
  ASSUME TypesInv, Owned, OwnRequests, NEW t \in Threads, Place(t) # "idle",
         req[t].action \notin {"SPECTATE", "GET_METRICS", "INVALID"}
  PROVE  /\ req[t].player_id \in Speaks[t] /\ req[t].player_id \in Players
         /\ \A u \in Threads \ {t} :
              /\ req[t].player_id \notin Speaks[u]
              /\ Place(u) # "idle" /\ req[u].action \notin {"SPECTATE", "GET_METRICS", "INVALID"} =>
                   req[u].player_id # req[t].player_id
<1>1. \A u \in Threads : Place(u) # "idle" => req[u] \in Request
  BY DEF TypesInv, Guided, Place
<1>2. ASSUME NEW u \in Threads, Place(u) # "idle",
             req[u].action \notin {"SPECTATE", "GET_METRICS", "INVALID"}
      PROVE  req[u].player_id \in Speaks[u] /\ req[u].player_id \in Players
  BY <1>1, <1>2, Named DEF OwnRequests
<1>3. req[t].player_id \in Speaks[t] /\ req[t].player_id \in Players
  BY <1>2
<1> QED BY <1>2, <1>3 DEF Owned

\* addPlayer, called for a JOIN, adds its player or the request is refused.
LEMMA Joining ==
  ASSUME TypesInv, NEW t \in Threads, Step(t), Place(t) = "addPlayer"
  PROVE  LET p == req[t].player_id IN
         /\ req[t].action = "JOIN"
         /\ req' = req
         /\ \/ /\ addPlayer(p) /\ farewell' = [farewell EXCEPT ![p] = NoScore]
               /\ Place(t)' = "activePlayerCount"
            \/ UNCHANGED <<gsVars, farewell>> /\ Place(t)' = "fail"
BY Moves, Makers, Calling, Doing DEF TypesInv, JoinGame

\* removePlayer, called for a LEAVE, removes its player or the request is refused.
LEMMA Leaving ==
  ASSUME TypesInv, NEW t \in Threads, Step(t), Place(t) = "removePlayer"
  PROVE  LET p == req[t].player_id IN
         /\ req[t].action = "LEAVE"
         /\ req' = req
         /\ \/ removePlayer(p) /\ Place(t)' = "activePlayerCount"
            \/ UNCHANGED gsVars /\ Place(t)' = "fail"
BY Moves, Makers, Calling, Doing DEF TypesInv, LeaveGame

\* LEAVE is answered.
LEMMA Answering ==
  ASSUME TypesInv, NEW t \in Threads, Step(t), NEW p \in Players, farewell'[p] # farewell[p]
  PROVE  \/ Place(t) = "addPlayer" /\ req[t].player_id = p /\ farewell'[p] = NoScore
         \/ /\ Place(t) = "succeed" /\ Place(t)' = "timer" /\ req[t].action = "LEAVE"
            /\ req[t].player_id = p /\ ~hasPlayer(p) /\ farewell'[p] = finalScore[t]
            /\ m_players' = m_players
<1>1. /\ Place(t) = Head(todo[t]) /\ todo[t] # <<>>
      /\ farewell \in [Players -> CInt \cup {NoScore}]
  BY Moves DEF TypesInv, StoreTypes
<1>2. CASE Place(t) = "addPlayer"
  BY <1>1, <1>2, Joining
<1>3. CASE Place(t) = "succeed"
  <2>1. Succeed(t) /\ m_players' = m_players
    BY <1>1, <1>3, Doing, Frame
  <2>2. Place(t)' = "timer"
    BY <1>3, Moves, Calling DEF TypesInv, Checks
  <2> QED BY <1>1, <1>3, <2>1, <2>2 DEF Succeed
<1>4. CASE Place(t) \notin {"addPlayer", "succeed"}
  BY <1>1, <1>4, Frame
<1> QED BY <1>2, <1>3, <1>4

\* The three parts of the invariant, each kept by a call.
LEMMA OwnRequestsStep ==
  ASSUME TypesInv, OwnRequests, [RHNext]_rhVars
  PROVE  OwnRequests'
<1>0. WellFormed /\ Guided /\ GSTypeOK /\ StoreTypes
  BY DEF TypesInv
<1>1. ASSUME NEW t \in Threads, Step(t) PROVE OwnRequests'
  <2>1. \A u \in Threads \ {t} : Place(u)' = Place(u) /\ req'[u] = req[u]
    BY <1>0, <1>1, Moves
  <2>2. Place(t)' # "idle" => req'[t] = req[t] /\ Place(t) # "idle"
    BY <1>0, <1>1, Moves DEF Calls
  <2> QED BY <2>1, <2>2 DEF OwnRequests
<1>2. ASSUME NEW t \in Threads, NEW r \in Request, Receive(t, r) PROVE OwnRequests'
  <2>1. \A u \in Threads \ {t} : Place(u)' = Place(u) /\ req'[u] = req[u]
    BY <1>0, <1>2, Begins
  <2>2. req'[t] = r
    BY <1>0, <1>2, Begins
  <2>3. r \in NamedRequest => r.player_id \in Speaks[t]
    <3>1. r \in NamedRequest => "player_id" \in DOMAIN r
      BY DEF NamedRequest, PlayerRequest, MoveRequest, AttackRequest, ScoreRequest
    <3> QED BY <1>2, <3>1 DEF Receive
  <2> QED BY <2>1, <2>2, <2>3 DEF OwnRequests
<1>3. CASE Background
  BY <1>3, InBackground DEF OwnRequests
<1> QED BY <1>1, <1>2, <1>3 DEF RHNext, Background

\* No step puts a player whose LEAVE is being handled back in the table.
LEMMA GoneStep ==
  ASSUME TypesInv, TypesInv', OwnInv, NEW t \in Threads, Step(t)
  PROVE  Gone'
<1>0. WellFormed /\ Guided /\ GSTypeOK /\ StoreTypes /\ Guided'
  BY DEF TypesInv
<1> SUFFICES ASSUME NEW u \in Threads, In(u, "LEAVE", Accepted)',
                    req[u].player_id \in DOMAIN m_players'
             PROVE  FALSE
  <2>1. \A u \in Threads : In(u, "LEAVE", Accepted)' => req'[u] = req[u]
    BY <1>0, Enters, Others DEF In, Accepted, Dropped, Saved, Calls
  <2> QED BY <2>1 DEF Gone, hasPlayer
<1> DEFINE p == req[u].player_id
<1>1. In(u, "LEAVE", Accepted) \/ (u = t /\ In(t, "LEAVE", {"removePlayer"}))
  BY <1>0, Enters, Others
<1>2. Place(u) # "idle" /\ req[u].action = "LEAVE"
  BY <1>1 DEF In, Accepted, Dropped, Saved
<1>3. p \in Players /\ p \in Speaks[u]
  BY <1>2, Mine DEF OwnInv
<1>4. hasPlayer(p)
  <2>1. CASE ~hasPlayer(p)
    <3>1. Place(t) = "addPlayer" /\ p = req[t].player_id
      BY <1>3, <2>1, World DEF hasPlayer
    <3>2. req[t].action = "JOIN"
      BY <3>1, Joining
    <3>3. t # u
      BY <1>2, <3>2
    <3> QED BY <1>2, <3>1, <3>2, <3>3, Mine DEF OwnInv
  <2> QED BY <2>1
<1>5. ~In(u, "LEAVE", Accepted)
  BY <1>4 DEF OwnInv, Gone
<1>6. u = t /\ Place(t) = "removePlayer" /\ Place(t)' # "fail"
  BY <1>1, <1>5 DEF In, Accepted, Dropped, Saved
<1>7. removePlayer(p)
  BY <1>6, Leaving
<1> QED BY <1>7 DEF removePlayer, hasPlayer, Without

\* No step remembers the final score of a player in the game, coming or going.
LEMMA FarewellStep ==
  ASSUME TypesInv, TypesInv', OwnInv, NEW t \in Threads, Step(t)
  PROVE  Farewell'
<1>0. WellFormed /\ Guided /\ GSTypeOK /\ StoreTypes
  BY DEF TypesInv
<1>1. ASSUME NEW p \in Players, farewell'[p] # NoScore PROVE ~hasPlayer(p)'
  <2>1. CASE farewell'[p] # farewell[p]
    BY <1>1, <2>1, Answering DEF hasPlayer
  <2>2. CASE farewell'[p] = farewell[p]
    <3> SUFFICES ASSUME hasPlayer(p)' PROVE FALSE
      OBVIOUS
    <3>1. ~hasPlayer(p)
      BY <1>1, <2>2 DEF OwnInv, Farewell
    <3>2. Place(t) = "addPlayer" /\ p = req[t].player_id
      BY <3>1, World
    <3>3. farewell' = [farewell EXCEPT ![p] = NoScore]
      BY <3>1, <3>2, Joining DEF hasPlayer, gsVars
    <3> QED BY <1>0, <1>1, <3>3 DEF StoreTypes
  <2> QED BY <2>1, <2>2
<1>2. ASSUME NEW u \in Threads, In(u, "JOIN", Accepted)' \/ In(u, "LEAVE", Accepted)',
             farewell'[req'[u].player_id] # NoScore
      PROVE  FALSE
  <2> DEFINE p == req[u].player_id
  <2>1. req'[u] = req[u]
    BY <1>0, <1>2, Enters, Others DEF In, Accepted, Dropped, Saved, Calls
  <2>2. \/ In(u, "JOIN", Accepted) \/ In(u, "LEAVE", Accepted)
        \/ u = t /\ In(t, "JOIN", {"addPlayer"})
        \/ u = t /\ In(t, "LEAVE", {"removePlayer"})
    BY <1>0, <1>2, Enters, Others
  <2>3. Place(u) # "idle" /\ req[u].action \in {"JOIN", "LEAVE"}
    BY <2>2 DEF In, Accepted, Dropped, Saved
  <2>4. p \in Players /\ p \in Speaks[u]
    BY <2>3, Mine DEF OwnInv
  <2>5. CASE farewell'[p] # farewell[p]
    <3>1. Place(t) = "succeed" /\ Place(t)' = "timer" /\ req[t].action = "LEAVE" /\ req[t].player_id = p
      BY <1>2, <2>1, <2>4, <2>5, Answering
    <3>2. t = u
      BY <2>3, <3>1, Mine DEF OwnInv
    <3> QED BY <1>2, <3>1, <3>2 DEF In, Accepted, Dropped, Saved
  <2>6. CASE farewell'[p] = farewell[p]
    <3>0. farewell[p] # NoScore
      BY <1>2, <2>1, <2>6
    <3>1. ~In(u, "JOIN", Accepted) /\ ~In(u, "LEAVE", Accepted) /\ ~hasPlayer(p)
      BY <2>4, <3>0 DEF OwnInv, Farewell
    <3>2. u = t /\ Place(t)' # "fail" /\ Place(t) \in {"addPlayer", "removePlayer"}
      BY <1>2, <2>2, <3>1 DEF In, Accepted, Dropped, Saved
    <3>3. CASE Place(t) = "addPlayer"
      <4>1. farewell' = [farewell EXCEPT ![p] = NoScore]
        BY <3>2, <3>3, Joining
      <4>2. farewell'[p] = NoScore
        BY <1>0, <2>4, <4>1 DEF StoreTypes
      <4> QED BY <1>2, <2>1, <4>2
    <3>4. CASE Place(t) = "removePlayer"
      BY <3>1, <3>2, <3>4, Leaving DEF removePlayer, removePlayerOK
    <3> QED BY <3>2, <3>3, <3>4
  <2> QED BY <2>5, <2>6
<1> QED BY <1>1, <1>2 DEF Farewell

\* The invariant of one worker per player holds at the start, and is kept.
LEMMA OwnInit == RHInit /\ Owned => OwnInv
  BY DEF RHInit, OwnInv, OwnRequests, Gone, Farewell, In, Place, Accepted, Dropped, Saved

\* Every step leaves each player with one worker.
LEMMA OwnStep == TypesInv /\ TypesInv' /\ OwnInv /\ [RHNext]_rhVars => OwnInv'
<1> SUFFICES ASSUME TypesInv, TypesInv', OwnInv, [RHNext]_rhVars PROVE OwnInv'
  OBVIOUS
<1>0. Owned /\ Owned' /\ OwnRequests'
  BY OwnRequestsStep DEF OwnInv, Owned
<1>1. ASSUME NEW t \in Threads, Step(t) PROVE Gone' /\ Farewell'
  BY <1>1, GoneStep, FarewellStep
<1>2. ASSUME NEW t \in Threads, NEW r \in Request, Receive(t, r) PROVE Gone' /\ Farewell'
  <2>1. ASSUME NEW u \in Threads, NEW a \in {"JOIN", "LEAVE"}, In(u, a, Accepted)'
        PROVE  In(u, a, Accepted) /\ req'[u] = req[u]
    BY <1>2, <2>1, Others, Beginner DEF TypesInv
  <2>2. UNCHANGED <<m_players, farewell>>
    BY <1>2, InReceive
  <2> QED BY <2>1, <2>2 DEF OwnInv, Gone, Farewell, hasPlayer
<1>3. CASE Background
  <2>1. /\ UNCHANGED <<m_players, farewell, req>>
        /\ \A u \in Threads, a \in {"JOIN", "LEAVE"} : In(u, a, Accepted)' <=> In(u, a, Accepted)
    BY <1>3, InBackground
  <2>2. Gone'
    BY <2>1 DEF OwnInv, Gone, hasPlayer
  <2>3. Farewell'
    BY <2>1 DEF OwnInv, Farewell, hasPlayer
  <2> QED BY <1>0, <2>2, <2>3 DEF OwnInv
<1> QED BY <1>0, <1>1, <1>2, <1>3 DEF RHNext, Background, OwnInv

\* With the players divided among the workers, nobody else acts on one's player.
LEMMA OwnCorrect == Owned /\ RHSpec => []OwnInv
  BY OwnInit, OwnStep, TypesCorrect, PTL DEF RHSpec

-----------------------------------------------------------------------------
(* The final score *)

\* The inductive invariant of the final score.
PersistInv == "mysql" \notin MayFail /\ FinalInv /\ FinalScorePersisted

\* Who writes the row of p, and what.
LEMMA Storing ==
  ASSUME TypesInv, "mysql" \notin MayFail, NEW t \in Threads, Step(t),
         NEW p \in Players, dbPlayers'[p] # dbPlayers[p]
  PROVE  /\ Place(t) = "upsertPlayer" /\ req[t].action \in {"JOIN", "LEAVE"} /\ req' = req
         /\ req[t].player_id = p /\ farewell' = farewell /\ finalScore' = finalScore
         /\ dbPlayers'[p] # NoRow /\ dbPlayers'[p].score = ScoreToStore(t)
<1>1. /\ Place(t) = Head(todo[t]) /\ todo[t] # <<>>
      /\ dbPlayers \in [Players -> Row \cup {NoRow}] /\ ScoreToStore(t) \in CInt
  BY Moves, StoreArguments DEF TypesInv, StoreTypes
<1>2. Place(t) = "upsertPlayer"
  BY <1>1, Frame
<1>3. SavePlayer(t) /\ farewell' = farewell /\ finalScore' = finalScore
  BY <1>1, <1>2, Doing, Frame
<1>4. req[t].action \in {"JOIN", "LEAVE"} /\ req' = req
  BY <1>2, Moves, Makers DEF TypesInv
<1> DEFINE q == req[t].player_id
<1>5. dbPlayers' = [dbPlayers EXCEPT ![q] = Upserted(dbPlayers[q], ScoreToStore(t))]
  BY <1>3, Saving
<1> HIDE DEF q
<1>6. p = q /\ dbPlayers'[p] = Upserted(dbPlayers[p], ScoreToStore(t))
  BY <1>1, <1>5
<1> QED BY <1>1, <1>2, <1>3, <1>4, <1>6, UpsertedRow DEF q

\* A call keeps it.
LEMMA PersistStep ==
  ASSUME TypesInv, TypesInv', OwnInv, PersistInv, NEW t \in Threads, Step(t)
  PROVE  PersistInv'
<1>0. WellFormed /\ Guided /\ GSTypeOK /\ StoreTypes /\ Place(t) = Head(todo[t]) /\ todo[t] # <<>>
  BY Moves DEF TypesInv
<1>1. ASSUME NEW u \in Threads, In(u, "LEAVE", Saved)'
      PROVE  LET p == req'[u].player_id
             IN  dbPlayers'[p] # NoRow /\ dbPlayers'[p].score = finalScore'[u]
  <2> DEFINE p == req[u].player_id
  <2>1. req'[u] = req[u] /\ In(u, "LEAVE", Saved \cup {"upsertPlayer"})
    BY <1>0, <1>1, Enters, Others DEF In, Saved, Calls
  <2>2. Place(u) # "idle" /\ req[u].action = "LEAVE"
    BY <2>1 DEF In, Saved
  <2>3. p \in Players
    BY <2>2, Mine DEF OwnInv
  <2>4. finalScore'[u] = finalScore[u]
    <3>1. CASE u # t BY <1>0, <3>1, Others
    <3>2. CASE u = t BY <1>0, <2>1, <3>2, Frame DEF In, Saved
    <3> QED BY <3>1, <3>2
  <2>5. CASE dbPlayers'[p] # dbPlayers[p]
    <3>1. /\ Place(t) = "upsertPlayer" /\ req[t].action \in {"JOIN", "LEAVE"}
          /\ req[t].player_id = p
          /\ dbPlayers'[p] # NoRow /\ dbPlayers'[p].score = ScoreToStore(t)
      BY <2>3, <2>5, Storing DEF PersistInv
    <3>2. t = u
      BY <2>2, <3>1, Mine DEF OwnInv
    <3> QED BY <2>1, <2>2, <2>4, <3>1, <3>2 DEF ScoreToStore
  <2>6. CASE dbPlayers'[p] = dbPlayers[p]
    <3>1. CASE In(u, "LEAVE", Saved)
      BY <2>1, <2>4, <2>6, <3>1 DEF PersistInv, FinalInv
    <3>2. CASE Place(u) = "upsertPlayer"
      <4>1. u = t
        BY <1>0, <1>1, <3>2, Others DEF In, Saved
      <4>2. SavePlayer(t)
        BY <1>0, <3>2, <4>1, Doing
      <4>3. dbPlayers' = [dbPlayers EXCEPT ![p] = Upserted(dbPlayers[p], finalScore[t])]
        BY <2>2, <4>1, <4>2, Saving DEF PersistInv, ScoreToStore
      <4> HIDE DEF p
      <4>4. dbPlayers \in [Players -> Row \cup {NoRow}] /\ finalScore[t] \in CInt
        BY <1>0 DEF StoreTypes
      <4>5. dbPlayers'[p] = Upserted(dbPlayers[p], finalScore[t])
        BY <2>3, <4>3, <4>4
      <4>6. dbPlayers'[p] # NoRow /\ dbPlayers'[p].score = finalScore[t]
        BY <2>3, <4>4, <4>5, UpsertedRow
      <4> QED BY <2>1, <2>4, <4>1, <4>6 DEF p
    <3> QED BY <2>1, <3>1, <3>2 DEF In
  <2> QED BY <2>5, <2>6
<1>2. ASSUME NEW p \in Players, farewell'[p] # NoScore
      PROVE  dbPlayers'[p] # NoRow /\ dbPlayers'[p].score = farewell'[p]
  <2>1. CASE farewell'[p] # farewell[p]
    <3>1. /\ Place(t) = "succeed" /\ req[t].action = "LEAVE" /\ req[t].player_id = p
          /\ farewell'[p] = finalScore[t]
      BY <1>2, <2>1, Answering
    <3>2. dbPlayers' = dbPlayers /\ In(t, "LEAVE", Saved)
      BY <1>0, <3>1, Frame DEF In, Saved
    <3> QED BY <3>1, <3>2 DEF PersistInv, FinalInv
  <2>2. CASE farewell'[p] = farewell[p]
    <3>1. dbPlayers'[p] = dbPlayers[p]
      <4> SUFFICES ASSUME dbPlayers'[p] # dbPlayers[p] PROVE FALSE
        OBVIOUS
      <4>1. /\ Place(t) = "upsertPlayer" /\ req[t].action \in {"JOIN", "LEAVE"}
            /\ req[t].player_id = p
        BY Storing DEF PersistInv
      <4>2. In(t, "JOIN", Accepted) \/ In(t, "LEAVE", Accepted)
        BY <4>1 DEF In, Accepted, Dropped
      <4> QED BY <1>2, <2>2, <4>1, <4>2 DEF OwnInv, Farewell
    <3> QED BY <1>2, <2>2, <3>1 DEF PersistInv, FinalScorePersisted
  <2> QED BY <2>1, <2>2
<1> QED BY <1>1, <1>2 DEF PersistInv, FinalInv, FinalScorePersisted

\* If each player is spoken for by one worker and MySQL does not fail, the
\* answer to a LEAVE tells the truth about the database: the row holds the final
\* score, until the player joins again (handleLeave, upsertPlayer).
THEOREM FinalScoreCorrect ==
  Owned /\ "mysql" \notin MayFail /\ RHSpec => []FinalScorePersisted
<1>1. RHInit /\ "mysql" \notin MayFail => PersistInv
  BY DEF RHInit, PersistInv, FinalInv, FinalScorePersisted, In, Place, Saved
<1>2. TypesInv /\ TypesInv' /\ OwnInv /\ PersistInv /\ [RHNext]_rhVars => PersistInv'
  <2> SUFFICES ASSUME TypesInv, TypesInv', OwnInv, PersistInv, [RHNext]_rhVars
               PROVE  PersistInv'
    OBVIOUS
  <2>1. ASSUME NEW t \in Threads, Step(t) PROVE PersistInv'
    BY <2>1, PersistStep
  <2>2. ASSUME NEW t \in Threads, NEW r \in Request, Receive(t, r) PROVE PersistInv'
    <3>1. ASSUME NEW u \in Threads, In(u, "LEAVE", Saved)'
          PROVE  In(u, "LEAVE", Saved) /\ req'[u] = req[u]
      BY <2>2, <3>1, Others, Beginner DEF TypesInv
    <3>2. UNCHANGED <<dbPlayers, farewell, finalScore>>
      BY <2>2, InReceive
    <3> QED BY <3>1, <3>2 DEF PersistInv, FinalInv, FinalScorePersisted
  <2>3. CASE Background
    BY <2>3, InBackground DEF PersistInv, FinalInv, FinalScorePersisted
  <2> QED BY <2>1, <2>2, <2>3 DEF RHNext, Background
<1>3. PersistInv => FinalScorePersisted
  BY DEF PersistInv
<1> QED BY <1>1, <1>2, <1>3, TypesCorrect, OwnCorrect, PTL DEF RHSpec

-----------------------------------------------------------------------------
(* The cache *)

\* The calls that send a command to Redis.
Commanding == {"setPlayerSession", "setSpawnPosition", "setPlayerPosition",
               "deletePlayerSession"}

\* What a cache call does to Redis, when Redis does not fail.
LEMMA Caching ==
  ASSUME TypesInv, "redis" \notin MayFail, Quiet, NEW t \in Threads, Step(t)
  PROVE  /\ Quiet' /\ redis' \in RedisType
         /\ \A p \in Players : p \in redis'.session /\ p \notin redis.session =>
              Place(t) = "setPlayerSession" /\ req[t].player_id = p /\ req[t].action = "JOIN"
         /\ Place(t) = "deletePlayerSession" => req[t].player_id \notin redis'.session
         /\ \A p \in Players : redis'.pos[p] # redis.pos[p] =>
              Place(t) \in {"setSpawnPosition", "setPlayerPosition"} /\ req[t].player_id = p
         /\ Place(t) = "setSpawnPosition" =>
              redis'.pos[req[t].player_id] \in {NoPos, <<SPAWN, SPAWN>>}
         /\ Place(t) = "setPlayerPosition" =>
              redis'.pos[req[t].player_id] \in {NoPos, Target(t)}
<1>0. WellFormed /\ Guided /\ GSTypeOK /\ StoreTypes /\ Place(t) = Head(todo[t]) /\ todo[t] # <<>>
  BY Moves DEF TypesInv
<1> DEFINE p == req[t].player_id
<1>1. redis \in RedisType /\ redis' \in RedisType /\ late = {}
  BY StoreTypesStep DEF TypesInv, StoreTypes, Quiet
<1>2. Place(t) \in Commanding => p \in Players
  BY <1>0, StoreArguments DEF Commanding, PlayerCalls, Calls
<1>3. CASE Place(t) \notin Commanding
  <2>1. redis' = redis /\ late' = late
    BY <1>0, <1>3, Frame DEF Commanding
  <2> QED BY <1>1, <1>3, <2>1 DEF Commanding, Quiet, CacheEnabled
<1>4. CASE Place(t) \in Commanding /\ ~CacheEnabled
  <2>1. CacheSession(t) \/ CacheSpawn(t) \/ CachePosition(t) \/ DropSession(t)
    BY <1>0, <1>4, Doing DEF Commanding
  <2>2. redis' = redis /\ late' = late
    BY <1>4, <2>1 DEF CacheSession, CacheSpawn, CachePosition, DropSession, Cache
  <2>3. p \notin redis.session /\ redis.pos[p] = NoPos
    BY <1>2, <1>4 DEF Quiet
  <2> QED BY <1>1, <2>2, <2>3 DEF Quiet, CacheEnabled
<1>5. CASE Place(t) = "setPlayerSession" /\ CacheEnabled
  <2>1. CacheSession(t) /\ req[t].action = "JOIN"
    BY <1>0, <1>5, Doing, Moves, Makers
  <2>2. redis' = [redis EXCEPT !.session = redis.session \cup {p}] /\ late' = late
    BY <1>5, <2>1 DEF CacheSession, Cache, Command, Executed, SetSession
  <2>3. /\ redis'.session = redis.session \cup {p} /\ redis'.pos = redis.pos
        /\ redis'.enabled = redis.enabled
    BY <1>1, <2>2 DEF RedisType
  <2> QED BY <1>1, <1>5, <2>1, <2>2, <2>3 DEF Quiet, CacheEnabled
<1>6. CASE Place(t) = "deletePlayerSession" /\ CacheEnabled
  <2>1. DropSession(t)
    BY <1>0, <1>6, Doing
  <2>2. redis' = [redis EXCEPT !.session = redis.session \ {p}] /\ late' = late
    BY <1>6, <2>1 DEF DropSession, Cache, Command, Executed, DelSession
  <2>3. /\ redis'.session = redis.session \ {p} /\ redis'.pos = redis.pos
        /\ redis'.enabled = redis.enabled
    BY <1>1, <2>2 DEF RedisType
  <2> QED BY <1>1, <1>6, <2>2, <2>3 DEF Quiet, CacheEnabled
<1>7. ASSUME NEW at, late' = late, redis' = [redis EXCEPT !.pos[p] = at], p \in Players
      PROVE  /\ redis'.enabled = redis.enabled
             /\ redis'.session = redis.session /\ redis'.pos[p] = at
             /\ \A q \in Players : q # p => redis'.pos[q] = redis.pos[q]
  BY <1>1, <1>7 DEF RedisType
<1>8. CASE Place(t) = "setSpawnPosition" /\ CacheEnabled
  <2> DEFINE at == <<SPAWN, SPAWN>>
  <2>1. CacheSpawn(t)
    BY <1>0, <1>8, Doing
  <2>2. Cache(t, SetPosition(p, at))
    BY <2>1 DEF CacheSpawn
  <2> HIDE DEF at
  <2>3. redis' = [redis EXCEPT !.pos[p] = at] /\ late' = late
    BY <1>8, <2>2 DEF Cache, Command, Executed, SetPosition
  <2>4. /\ redis'.enabled = redis.enabled
        /\ redis'.session = redis.session /\ redis'.pos[p] = at
        /\ \A q \in Players : q # p => redis'.pos[q] = redis.pos[q]
    BY <1>2, <1>7, <1>8, <2>3 DEF Commanding
  <2> QED BY <1>1, <1>8, <2>3, <2>4 DEF Quiet, CacheEnabled, at
<1>9. CASE Place(t) = "setPlayerPosition" /\ CacheEnabled
  <2> DEFINE at == Target(t)
  <2>1. CachePosition(t)
    BY <1>0, <1>9, Doing
  <2>2. Cache(t, SetPosition(p, at))
    BY <2>1 DEF CachePosition, Target
  <2> HIDE DEF at
  <2>3. redis' = [redis EXCEPT !.pos[p] = at] /\ late' = late
    BY <1>9, <2>2 DEF Cache, Command, Executed, SetPosition
  <2>4. /\ redis'.enabled = redis.enabled
        /\ redis'.session = redis.session /\ redis'.pos[p] = at
        /\ \A q \in Players : q # p => redis'.pos[q] = redis.pos[q]
    BY <1>2, <1>7, <1>9, <2>3 DEF Commanding
  <2> QED BY <1>1, <1>9, <2>3, <2>4 DEF Quiet, CacheEnabled, at
<1> QED BY <1>3, <1>4, <1>5, <1>6, <1>8, <1>9 DEF Commanding

\* A key may expire at any moment; nothing else happens to the cache.
LEMMA Expiring ==
  ASSUME TypesInv, Quiet, Background
  PROVE  /\ Quiet' /\ redis'.session \subseteq redis.session
         /\ \A p \in Players : redis'.pos[p] \in {NoPos, redis.pos[p]}
<1>1. ~ExecuteLate /\ redis \in RedisType
  BY DEF Quiet, ExecuteLate, TypesInv, StoreTypes
<1>2. CASE redis' = redis /\ late' = late
  BY <1>2 DEF Quiet, CacheEnabled
<1>3. ASSUME NEW p \in Players, Expire(p)
      PROVE  /\ Quiet' /\ redis'.session \subseteq redis.session
             /\ \A q \in Players : redis'.pos[q] \in {NoPos, redis.pos[q]}
  <2>1. late' = late
    BY <1>3 DEF Expire
  <2>2. CASE p \in redis.session /\ redis' = [redis EXCEPT !.session = redis.session \ {p}]
    <3>1. /\ redis'.session = redis.session \ {p} /\ redis'.pos = redis.pos
          /\ redis'.enabled = redis.enabled
      BY <1>1, <2>2 DEF RedisType
    <3> QED BY <2>1, <3>1 DEF Quiet, CacheEnabled
  <2>3. CASE redis' = [redis EXCEPT !.pos[p] = NoPos]
    <3>1. /\ redis'.session = redis.session /\ redis'.enabled = redis.enabled
          /\ \A q \in Players : redis'.pos[q] \in {NoPos, redis.pos[q]}
      BY <1>1, <2>3 DEF RedisType
    <3> QED BY <2>1, <3>1 DEF Quiet, CacheEnabled
  <2> QED BY <1>3, <2>2, <2>3 DEF Expire
<1>4. CASE UNCHANGED rhVars
  BY <1>2, <1>4 DEF rhVars, storeVars
<1> QED BY <1>1, <1>3, <1>4 DEF Background

\* The inductive invariant of the sessions.
DroppedInv == "redis" \notin MayFail /\ Quiet /\ SessionInv /\ SessionDropped

\* A call keeps it.
LEMMA DroppedStep ==
  ASSUME TypesInv, TypesInv', OwnInv, DroppedInv, NEW t \in Threads, Step(t)
  PROVE  DroppedInv'
<1>0. WellFormed /\ Guided /\ GSTypeOK /\ StoreTypes /\ Place(t) = Head(todo[t]) /\ todo[t] # <<>>
  BY Moves DEF TypesInv
<1>1. /\ Quiet'
      /\ \A p \in Players : p \in redis'.session /\ p \notin redis.session =>
           Place(t) = "setPlayerSession" /\ req[t].player_id = p /\ req[t].action = "JOIN"
      /\ Place(t) = "deletePlayerSession" => req[t].player_id \notin redis'.session
  BY Caching DEF DroppedInv
<1>2. ASSUME NEW u \in Threads, In(u, "LEAVE", Dropped)'
      PROVE  req'[u].player_id \notin redis'.session
  <2> DEFINE p == req[u].player_id
  <2>1. req'[u] = req[u] /\ In(u, "LEAVE", Dropped \cup {"deletePlayerSession"})
    BY <1>0, <1>2, Enters, Others DEF In, Dropped, Saved, Calls
  <2>2. Place(u) # "idle" /\ req[u].action = "LEAVE"
    BY <2>1 DEF In, Dropped, Saved
  <2>3. p \in Players
    BY <2>2, Mine DEF OwnInv
  <2>4. CASE In(u, "LEAVE", Dropped)
    <3>1. p \notin redis.session
      BY <2>4 DEF DroppedInv, SessionInv
    <3>2. p \in redis'.session => req[t].player_id = p /\ req[t].action = "JOIN" /\ Place(t) # "idle"
      BY <1>1, <2>3, <3>1
    <3>3. t = u \/ p \notin redis'.session
      BY <2>2, <3>2, Mine DEF OwnInv
    <3> QED BY <2>1, <2>2, <3>2, <3>3
  <2>5. CASE Place(u) = "deletePlayerSession" /\ ~In(u, "LEAVE", Dropped)
    <3>1. u = t
      BY <1>0, <1>2, <2>5, Others
    <3> QED BY <1>1, <2>1, <2>5, <3>1
  <2> QED BY <2>1, <2>4, <2>5 DEF In
<1>3. ASSUME NEW p \in Players, farewell'[p] # NoScore
      PROVE  p \notin redis'.session
  <2>1. CASE farewell'[p] # farewell[p]
    <3>1. Place(t) = "succeed" /\ req[t].action = "LEAVE" /\ req[t].player_id = p
      BY <1>3, <2>1, Answering
    <3>2. redis' = redis /\ In(t, "LEAVE", Dropped)
      BY <1>0, <3>1, Frame DEF In, Dropped, Saved
    <3> QED BY <3>1, <3>2 DEF DroppedInv, SessionInv
  <2>2. CASE farewell'[p] = farewell[p]
    <3>1. p \notin redis.session
      BY <1>3, <2>2 DEF DroppedInv, SessionDropped
    <3>2. p \in redis'.session => In(t, "JOIN", Accepted) /\ req[t].player_id = p
      BY <1>1, <3>1 DEF In, Accepted
    <3> QED BY <1>3, <2>2, <3>2 DEF OwnInv, Farewell
  <2> QED BY <2>1, <2>2
<1> QED BY <1>1, <1>2, <1>3 DEF DroppedInv, SessionInv, SessionDropped

\* Redis starts empty.
LEMMA QuietInit == RHInit => Quiet
  BY DEF RHInit, Quiet

\* If each player is spoken for by one worker and Redis does not fail, no session
\* is cached for a player whose LEAVE has been answered, until it joins again
\* (handleLeave, deletePlayerSession).
THEOREM SessionCorrect ==
  Owned /\ "redis" \notin MayFail /\ RHSpec => []SessionDropped
<1>1. RHInit /\ "redis" \notin MayFail => DroppedInv
  BY QuietInit DEF RHInit, DroppedInv, SessionInv, SessionDropped, In, Place, Dropped, Saved
<1>2. TypesInv /\ TypesInv' /\ OwnInv /\ DroppedInv /\ [RHNext]_rhVars => DroppedInv'
  <2> SUFFICES ASSUME TypesInv, TypesInv', OwnInv, DroppedInv, [RHNext]_rhVars
               PROVE  DroppedInv'
    OBVIOUS
  <2>1. ASSUME NEW t \in Threads, Step(t) PROVE DroppedInv'
    BY <2>1, DroppedStep
  <2>2. ASSUME NEW t \in Threads, NEW r \in Request, Receive(t, r) PROVE DroppedInv'
    <3>1. ASSUME NEW u \in Threads, In(u, "LEAVE", Dropped)'
          PROVE  In(u, "LEAVE", Dropped) /\ req'[u] = req[u]
      BY <2>2, <3>1, Others, Beginner DEF TypesInv
    <3>2. UNCHANGED <<redis, late, farewell>>
      BY <2>2, InReceive
    <3> QED BY <3>1, <3>2 DEF DroppedInv, SessionInv, SessionDropped, Quiet, CacheEnabled
  <2>3. CASE Background
    <3>1. Quiet' /\ redis'.session \subseteq redis.session
      BY <2>3, Expiring DEF DroppedInv
    <3> QED BY <2>3, <3>1, InBackground DEF DroppedInv, SessionInv, SessionDropped
  <2> QED BY <2>1, <2>2, <2>3 DEF RHNext, Background
<1>3. DroppedInv => SessionDropped
  BY DEF DroppedInv
<1> QED BY <1>1, <1>2, <1>3, TypesCorrect, OwnCorrect, PTL DEF RHSpec

\* The inductive invariant of the positions.
FreshStore == "redis" \notin MayFail /\ Quiet /\ FreshInv

\* A step keeps what the cache knows of a player another worker speaks for.
LEMMA FreshOther ==
  ASSUME TypesInv, TypesInv', OwnInv, FreshStore, NEW t \in Threads, Step(t),
         NEW u \in Threads \ {t}, NEW p \in Speaks[u], p \in Players, hasPlayer(p)'
  PROVE  /\ Spawning(u, p)' => Here(p)' = <<SPAWN, SPAWN>>
         /\ Moving(u, p)' => Here(p)' = Target(u)'
         /\ redis'.pos[p] \in {NoPos, Here(p)'} \/ Spawning(u, p)' \/ Moving(u, p)'
<1>0. WellFormed /\ Guided /\ GSTypeOK /\ StoreTypes /\ Place(t) # "idle"
  BY Moves DEF TypesInv, Calls
<1>1. p # req[t].player_id \/ req[t].action \in {"SPECTATE", "GET_METRICS", "INVALID"}
  BY <1>0, Mine DEF OwnInv
<1>2. Place(t) = "addPlayer" \/ Place(t) = "movePlayer" \/ Place(t) = "setSpawnPosition"
        \/ Place(t) = "setPlayerPosition" => req[t].action \in {"JOIN", "MOVE"}
  BY <1>0, Moves, Makers
<1>3. hasPlayer(p) /\ Here(p)' = Here(p)
  BY <1>1, <1>2, World
<1>4. redis'.pos[p] = redis.pos[p]
  BY <1>1, <1>2, Caching DEF FreshStore
<1>5. /\ \A a, S : In(u, a, S)' <=> In(u, a, S)
      /\ req'[u] = req[u]
  BY <1>0, Others
<1>6. (Spawning(u, p)' <=> Spawning(u, p)) /\ (Moving(u, p)' <=> Moving(u, p))
  BY <1>5 DEF Spawning, Moving
<1>7. Target(u)' = Target(u)
  BY <1>5 DEF Target
<1> QED BY <1>3, <1>4, <1>6, <1>7 DEF FreshStore, FreshInv

\* No call is followed by a refusal.
LEMMA FollowOn == \A a, c : Follow(a, c) # "fail"
  BY DEF Follow

\* How a worker comes to be between moving a player and telling the cache.
LEMMA Placing ==
  ASSUME TypesInv, NEW t \in Threads, Step(t), NEW p
  PROVE  /\ Spawning(t, p)' =>
              /\ req'[t] = req[t]
              /\ Spawning(t, p) \/ (Place(t) = "addPlayer" /\ Place(t)' # "fail"
                                      /\ req[t].player_id = p)
         /\ Moving(t, p)' =>
              /\ req'[t] = req[t]
              /\ Place(t) = "movePlayer" /\ Place(t)' # "fail" /\ req[t].player_id = p
         /\ Spawning(t, p) /\ Place(t) # "setSpawnPosition" => Spawning(t, p)'
<1> DEFINE c == Place(t)
           d == Place(t)'
           a == req[t].action
<1>1. /\ c \in Calls /\ a \in MadeBy(c)
      /\ c = "timer" => d = "idle"
      /\ c # "timer" => req' = req /\ (Proceed(t) \/ Refuse(t))
      /\ c \notin Checks => Proceed(t)
      /\ c # "timer" /\ Proceed(t) => d = Follow(a, c)
      /\ Refuse(t) => d = "fail"
  BY Moves DEF TypesInv
<1> DEFINE S == {"activePlayerCount", "setActivePlayers", "setPlayerSession",
                 "setSpawnPosition"}
<1>2. Spawning(t, p) <=> c \in S /\ a = "JOIN" /\ req[t].player_id = p
  BY DEF Spawning, In
<1>3. c # "timer" => (Spawning(t, p)' <=> d \in S /\ a = "JOIN" /\ req[t].player_id = p)
  BY <1>1 DEF Spawning, In
<1>4. c # "timer" => (Moving(t, p)' <=> d = "setPlayerPosition" /\ a = "MOVE"
                                          /\ req[t].player_id = p)
  BY <1>1 DEF Moving, In
<1>5. c = "timer" => ~Spawning(t, p)' /\ ~Moving(t, p)' /\ ~Spawning(t, p)
  BY <1>1, <1>2 DEF Spawning, Moving, In
<1> HIDE DEF c, d, a
<1>6. CASE c # "timer" /\ d # "fail"
  <2>1. d = Follow(a, c)
    BY <1>1, <1>6
  <2>2. d \in S /\ a = "JOIN" => c \in S \cup {"addPlayer"}
    <3> USE <1>1, <2>1, Calling, Makers
    <3>1. CASE c \in {"setSpawnPosition", "upsertPlayer", "dbRecordEvent", "takeEventId",
                      "pushEvent", "succeed", "fail"}
      BY <3>1
    <3>2. CASE a # "JOIN" BY <3>2
    <3>3. CASE c \in S \cup {"addPlayer"} BY <3>3
    <3>4. a = "JOIN" => c \notin {"movePlayer", "setPlayerPosition", "attackPlayer", "setScore",
                     "hasPlayer", "getPlayerSession", "removePlayer", "deletePlayerSession"}
      OBVIOUS
    <3> QED BY <1>6, <3>1, <3>2, <3>3, <3>4 DEF Calls
  <2>3. d = "setPlayerPosition" /\ a = "MOVE" => c = "movePlayer"
    <3> USE <1>1, <2>1, Calling, Makers
    <3>1. a = "MOVE" => c \in {"movePlayer", "setPlayerPosition", "takeEventId", "pushEvent",
                               "succeed", "fail"}
      <4>1. a = "MOVE" => c \notin {"addPlayer", "setPlayerSession", "setSpawnPosition",
              "removePlayer", "deletePlayerSession", "activePlayerCount", "setActivePlayers"}
        OBVIOUS
      <4>2. a = "MOVE" => c \notin {"upsertPlayer", "dbRecordEvent", "attackPlayer",
              "setScore", "hasPlayer", "getPlayerSession"}
        OBVIOUS
      <4> QED BY <1>6, <4>1, <4>2 DEF Calls
    <3>2. CASE c \in {"takeEventId", "pushEvent", "succeed", "fail", "setPlayerPosition"}
      BY <3>2
    <3> QED BY <3>1, <3>2
  <2>4. c \in S /\ a = "JOIN" /\ c # "setSpawnPosition" => d \in S
    BY <2>1, Calling
  <2> QED BY <1>1, <1>2, <1>3, <1>4, <1>6, <2>2, <2>3, <2>4 DEF c, d, a
<1>7. CASE c # "timer" /\ d = "fail"
  <2>1. c \in Checks
    <3>1. CASE c \notin Checks
      <4>1. d = Follow(a, c) /\ c \in Calls \ Checks
        BY <1>1, <1>7, <3>1
      <4> QED BY <1>7, <4>1, FollowOn
    <3> QED BY <3>1
  <2> QED BY <1>2, <1>3, <1>4, <1>7, <2>1 DEF c, d, a, Checks
<1>8. CASE c = "timer"
  BY <1>2, <1>5, <1>8 DEF c, d, a
<1> QED BY <1>6, <1>7, <1>8

\* A step of the worker that speaks for p keeps what the cache knows of p.
LEMMA FreshOwn ==
  ASSUME TypesInv, TypesInv', OwnInv, FreshStore, NEW t \in Threads, Step(t),
         NEW p \in Speaks[t], p \in Players, hasPlayer(p)'
  PROVE  /\ Spawning(t, p)' => Here(p)' = <<SPAWN, SPAWN>>
         /\ Moving(t, p)' => Here(p)' = Target(t)'
         /\ redis'.pos[p] \in {NoPos, Here(p)'} \/ Spawning(t, p)' \/ Moving(t, p)'
<1>0. WellFormed /\ Guided /\ GSTypeOK /\ StoreTypes /\ Place(t) # "idle"
  BY Moves DEF TypesInv, Calls
<1>1. Target(t)' = <<Clamp(GetInt(req'[t].x)), Clamp(GetInt(req'[t].y))>>
  BY DEF Target
<1>2. Moving(t, p)' => Here(p)' = Target(t)'
  <2> SUFFICES ASSUME Moving(t, p)' PROVE Here(p)' = Target(t)'
    OBVIOUS
  <2>1. Place(t) = "movePlayer" /\ Place(t)' # "fail" /\ req[t].player_id = p
        /\ req'[t] = req[t]
    BY Placing
  <2>2. m_players'[p].x = Target(t)[1] /\ m_players'[p].y = Target(t)[2]
    BY <2>1, Displaced
  <2> QED BY <1>1, <2>1, <2>2 DEF Here, Target
<1>3. Spawning(t, p)' => Here(p)' = <<SPAWN, SPAWN>>
  <2> SUFFICES ASSUME Spawning(t, p)' PROVE Here(p)' = <<SPAWN, SPAWN>>
    OBVIOUS
  <2>1. CASE Spawning(t, p)
    <3>1. Place(t) \notin {"addPlayer", "movePlayer"}
      BY <2>1 DEF Spawning, In
    <3>2. hasPlayer(p) /\ Here(p)' = Here(p)
      BY <3>1, World
    <3> QED BY <2>1, <3>2 DEF FreshStore, FreshInv
  <2>2. CASE Place(t) = "addPlayer" /\ Place(t)' # "fail" /\ req[t].player_id = p
    <3>1. addPlayer(p)
      BY <2>2, Joining
    <3> QED BY <3>1 DEF addPlayer, Here, NewPlayer
  <2> QED BY <2>1, <2>2, Placing
<1>4. redis'.pos[p] \in {NoPos, Here(p)'} \/ Spawning(t, p)' \/ Moving(t, p)'
  <2>1. CASE hasPlayer(p) /\ Here(p)' = Here(p)
    <3>0. /\ Spawning(t, p) => Here(p) = <<SPAWN, SPAWN>>
          /\ Moving(t, p) => Here(p) = Target(t)
          /\ redis.pos[p] \in {NoPos, Here(p)} \/ Spawning(t, p) \/ Moving(t, p)
      BY <2>1 DEF FreshStore, FreshInv
    <3>1. CASE Place(t) = "setSpawnPosition" /\ req[t].player_id = p
      <4>1. req[t].action = "JOIN" /\ redis'.pos[p] \in {NoPos, <<SPAWN, SPAWN>>}
        BY <1>0, <3>1, Moves, Makers, Caching DEF FreshStore
      <4> QED BY <2>1, <3>0, <3>1, <4>1 DEF Spawning, In
    <3>2. CASE Place(t) = "setPlayerPosition" /\ req[t].player_id = p
      <4>1. req[t].action = "MOVE" /\ redis'.pos[p] \in {NoPos, Target(t)}
        BY <1>0, <3>2, Moves, Makers, Caching DEF FreshStore
      <4> QED BY <2>1, <3>0, <3>2, <4>1 DEF Moving, In
    <3>3. CASE ~(Place(t) \in {"setSpawnPosition", "setPlayerPosition"} /\ req[t].player_id = p)
      <4>1. redis'.pos[p] = redis.pos[p]
        BY <3>3, Caching DEF FreshStore
      <4>2. ~Moving(t, p) /\ (Spawning(t, p) => Spawning(t, p)')
        BY <3>3, Placing DEF Moving, Spawning, In
      <4> QED BY <2>1, <3>0, <4>1, <4>2
    <3> QED BY <3>1, <3>2, <3>3
  <2>2. CASE Place(t) = "addPlayer" /\ p = req[t].player_id /\ ~hasPlayer(p)
    <3>1. req[t].action = "JOIN" /\ req' = req /\ Place(t)' = "activePlayerCount"
      BY <2>2, Joining DEF gsVars, hasPlayer
    <3> QED BY <2>2, <3>1 DEF Spawning, In
  <2>3. CASE /\ Place(t)' = "setPlayerPosition" /\ req[t].action = "MOVE" /\ req' = req
             /\ p = req[t].player_id
    BY <2>3 DEF Moving, In
  <2> QED BY <2>1, <2>2, <2>3, World
<1> QED BY <1>2, <1>3, <1>4

\* If each player is spoken for by one worker and Redis does not fail, the cached
\* position of a player, whenever its worker is at rest, is where the player is
\* or has expired (handleJoin, handleMove, setPlayerPosition).
THEOREM PositionCorrect ==
  Owned /\ "redis" \notin MayFail /\ RHSpec => []PositionFresh
<1>1. RHInit /\ "redis" \notin MayFail => FreshStore
  BY QuietInit DEF RHInit, GSInit, FreshStore, FreshInv, hasPlayer
<1>2. TypesInv /\ TypesInv' /\ OwnInv /\ FreshStore /\ [RHNext]_rhVars => FreshStore'
  <2> SUFFICES ASSUME TypesInv, TypesInv', OwnInv, FreshStore, [RHNext]_rhVars
               PROVE  FreshStore'
    OBVIOUS
  <2>0. \A p : hasPlayer(p)' => p \in Players
    BY DEF TypesInv, GSTypeOK, hasPlayer
  <2>1. ASSUME NEW t \in Threads, Step(t) PROVE FreshStore'
    <3>1. Quiet'
      BY <2>1, Caching DEF FreshStore
    <3>2. ASSUME NEW u \in Threads, NEW p \in Speaks[u], hasPlayer(p)'
          PROVE  /\ Spawning(u, p)' => Here(p)' = <<SPAWN, SPAWN>>
                 /\ Moving(u, p)' => Here(p)' = Target(u)'
                 /\ redis'.pos[p] \in {NoPos, Here(p)'} \/ Spawning(u, p)' \/ Moving(u, p)'
      <4>1. CASE u = t BY <2>0, <2>1, <3>2, <4>1, FreshOwn
      <4>2. CASE u # t BY <2>0, <2>1, <3>2, <4>2, FreshOther
      <4> QED BY <4>1, <4>2
    <3> QED BY <3>1, <3>2 DEF FreshStore, FreshInv
  <2>2. ASSUME NEW t \in Threads, NEW r \in Request, Receive(t, r) PROVE FreshStore'
    <3>1. UNCHANGED <<m_players, redis, late>>
      BY <2>2, InReceive
    <3>2. /\ Place(t) = "idle" /\ Place(t)' \in Checks \cup {"succeed", "fail"}
          /\ \A u \in Threads \ {t} : Place(u)' = Place(u) /\ req'[u] = req[u]
      BY <2>2, Begins DEF TypesInv
    <3>3. \A p : ~Spawning(t, p) /\ ~Moving(t, p) /\ ~Spawning(t, p)' /\ ~Moving(t, p)'
      BY <3>2 DEF Spawning, Moving, In, Checks
    <3>4. \A u \in Threads \ {t} : \A p :
            /\ Spawning(u, p)' <=> Spawning(u, p)
            /\ Moving(u, p)' <=> Moving(u, p)
            /\ Target(u)' = Target(u)
      BY <3>2 DEF Spawning, Moving, In, Target
    <3>5. Quiet'
      BY <3>1 DEF FreshStore, Quiet, CacheEnabled
    <3>6. \A p : Here(p)' = Here(p) /\ (hasPlayer(p)' <=> hasPlayer(p))
      BY <3>1 DEF Here, hasPlayer
    <3> QED BY <3>1, <3>3, <3>4, <3>5, <3>6 DEF FreshStore, FreshInv
  <2>3. CASE Background
    <3>1. Quiet' /\ \A p \in Players : redis'.pos[p] \in {NoPos, redis.pos[p]}
      BY <2>3, Expiring DEF FreshStore
    <3>2. \A u \in Threads : \A p :
            /\ Spawning(u, p)' <=> Spawning(u, p)
            /\ Moving(u, p)' <=> Moving(u, p)
            /\ Target(u)' = Target(u)
      BY <2>3, InBackground DEF Spawning, Moving, Target
    <3>3. \A p : Here(p)' = Here(p) /\ (hasPlayer(p)' <=> hasPlayer(p))
      BY <2>3, InBackground DEF Here, hasPlayer
    <3>4. ASSUME NEW u \in Threads, NEW p \in Speaks[u], hasPlayer(p)'
          PROVE  /\ Spawning(u, p)' => Here(p)' = <<SPAWN, SPAWN>>
                 /\ Moving(u, p)' => Here(p)' = Target(u)'
                 /\ redis'.pos[p] \in {NoPos, Here(p)'} \/ Spawning(u, p)' \/ Moving(u, p)'
      BY <2>0, <3>1, <3>2, <3>3, <3>4 DEF FreshStore, FreshInv
    <3> QED BY <3>1, <3>4 DEF FreshStore, FreshInv
  <2> QED BY <2>1, <2>2, <2>3 DEF RHNext, Background
<1>3. FreshStore => PositionFresh
  BY DEF FreshStore, FreshInv, PositionFresh, Spawning, Moving, In, Idle, Place, Here
<1> QED BY <1>1, <1>2, <1>3, TypesCorrect, OwnCorrect, PTL DEF RHSpec

-----------------------------------------------------------------------------
(* The history in the database *)

\* How a worker moves through the calls up to dbRecordEvent.
LEMMA Records ==
  ASSUME TypesInv, NEW t \in Threads, Step(t)
  PROVE  /\ In(t, "LEAVE", Recording)' =>
              /\ Place(t) # "dbRecordEvent" /\ req'[t] = req[t]
              /\ \/ In(t, "LEAVE", Recording)
                 \/ Place(t) = "removePlayer" /\ Place(t)' # "fail" /\ req[t].action = "LEAVE"
         /\ In(t, "JOIN", Recording) /\ Place(t) # "dbRecordEvent" =>
              In(t, "JOIN", Recording)' /\ req'[t] = req[t]
<1>0. WellFormed /\ Guided
  BY DEF TypesInv
<1>1. /\ Place(t) \in Calls /\ req[t].action \in MadeBy(Place(t))
      /\ Place(t) # "timer" => req' = req /\ (Proceed(t) \/ Refuse(t))
      /\ Place(t) \notin Checks => Proceed(t)
      /\ Place(t) # "timer" /\ Proceed(t) => Place(t)' = Follow(req[t].action, Place(t))
      /\ Refuse(t) => Place(t)' = "fail"
  BY <1>0, Moves
<1>2. Place(t) \in Accepted => Place(t) \notin Checks /\ Place(t) # "timer"
  BY DEF Accepted, Dropped, Saved, Checks
<1>3. Place(t) \in Accepted => req' = req /\ Place(t)' = Follow(req[t].action, Place(t))
  BY <1>1, <1>2
<1>4. In(t, "LEAVE", Recording)' =>
        /\ Place(t) # "dbRecordEvent" /\ req'[t] = req[t]
        /\ \/ In(t, "LEAVE", Recording)
           \/ Place(t) = "removePlayer" /\ Place(t)' # "fail" /\ req[t].action = "LEAVE"
  <2> SUFFICES ASSUME In(t, "LEAVE", Recording)'
               PROVE  /\ Place(t) # "dbRecordEvent" /\ req'[t] = req[t]
                      /\ \/ In(t, "LEAVE", Recording)
                         \/ /\ Place(t) = "removePlayer" /\ Place(t)' # "fail"
                            /\ req[t].action = "LEAVE"
    OBVIOUS
  <2>1. In(t, "LEAVE", Accepted)' /\ Place(t)' \in Recording
    BY DEF In, Recording
  <2>2. Place(t)' # "fail" /\ Place(t)' \in Calls
    BY <2>1 DEF Recording, Accepted, Dropped, Saved, Calls
  <2>3. In(t, "LEAVE", Accepted) \/ In(t, "LEAVE", {"removePlayer"})
    BY <1>0, <2>1, Enters
  <2>4. req'[t] = req[t]
    BY <1>0, <2>2, Enters
  <2>5. CASE In(t, "LEAVE", Accepted)
    <3>1. Place(t) \notin {"dbRecordEvent", "takeEventId", "pushEvent", "succeed"}
      BY <1>3, <2>1, <2>5, Calling DEF In, Recording, Accepted, Dropped, Saved
    <3> QED BY <2>4, <2>5, <3>1 DEF In, Recording
  <2>6. CASE In(t, "LEAVE", {"removePlayer"})
    BY <2>2, <2>4, <2>6 DEF In
  <2> QED BY <2>3, <2>5, <2>6
<1>5. ASSUME In(t, "JOIN", Recording), Place(t) # "dbRecordEvent"
      PROVE  In(t, "JOIN", Recording)' /\ req'[t] = req[t]
  <2>1. /\ req' = req /\ Place(t)' = Follow("JOIN", Place(t)) /\ req[t].action = "JOIN"
        /\ Place(t) \in Recording
    BY <1>3, <1>5 DEF In, Recording
  <2>2. Place(t) \in {"activePlayerCount", "setActivePlayers", "setPlayerSession",
                      "setSpawnPosition", "upsertPlayer"}
    BY <1>1, <1>5, <2>1, Makers DEF Recording, Accepted, Dropped, Saved
  <2>3. Place(t)' \in Recording
    <3> USE <2>1, Calling DEF Recording, Accepted, Dropped, Saved
    <3>1. CASE Place(t) = "activePlayerCount" BY <3>1
    <3>2. CASE Place(t) = "setActivePlayers" BY <3>2
    <3>3. CASE Place(t) = "setPlayerSession" BY <3>3
    <3>4. CASE Place(t) = "setSpawnPosition" BY <3>4
    <3>5. CASE Place(t) = "upsertPlayer" BY <3>5
    <3> QED BY <2>2, <3>1, <3>2, <3>3, <3>4, <3>5
  <2> QED BY <2>1, <2>3 DEF In
<1> QED BY <1>4, <1>5

\* Who adds to the rows of p.
LEMMA Entering ==
  ASSUME TypesInv, "mysql" \notin MayFail, NEW t \in Threads, Step(t), NEW p \in Players
  PROVE  /\ dbEvents'[p] # dbEvents[p] => Place(t) = "dbRecordEvent" /\ req[t].player_id = p
         /\ Place(t) = "dbRecordEvent" /\ req[t].player_id = p =>
              /\ dbEvents'[p] = Append(dbEvents[p], req[t].action)
              /\ req' = req /\ req[t].action \in {"JOIN", "LEAVE"}
              /\ m_players' = m_players
<1>1. /\ Place(t) = Head(todo[t]) /\ todo[t] # <<>>
      /\ dbEvents \in [Players -> Seq(EventTypes)]
  BY Moves DEF TypesInv, StoreTypes
<1>2. CASE Place(t) # "dbRecordEvent"
  BY <1>1, <1>2, Frame
<1>3. CASE Place(t) = "dbRecordEvent"
  <2>1. /\ SaveEvent(t) /\ req' = req /\ req[t].action \in {"JOIN", "LEAVE"}
        /\ m_players' = m_players
    BY <1>1, <1>3, Doing, Frame, Moves, Makers DEF TypesInv
  <2> DEFINE q == req[t].player_id
             a == req[t].action
  <2>2. dbEvents' = [dbEvents EXCEPT ![q] = Append(dbEvents[q], a)]
    BY <2>1, Saving
  <2> HIDE DEF q, a
  <2>3. dbEvents'[p] = IF p = q THEN Append(dbEvents[p], a) ELSE dbEvents[p]
    BY <1>1, <2>2
  <2> QED BY <1>3, <2>1, <2>3 DEF q, a
<1> QED BY <1>2, <1>3

\* A row added at the end.
LEMMA LastRow ==
  ASSUME NEW s \in Seq(EventTypes), NEW a \in EventTypes, NEW s2, s2 = Append(s, a)
  PROVE  /\ s2 # <<>> /\ s2[Len(s2)] = a /\ Len(s2) = Len(s) + 1 /\ Len(s) \in Nat
         /\ \A i \in 1..Len(s) : s2[i] = s[i]
  OBVIOUS

\* The inductive invariant of the history in the database.
RecordInv == "mysql" \notin MayFail /\ DbInv /\ DbHistory

\* A call keeps it.
LEMMA RecordStep ==
  ASSUME TypesInv, TypesInv', OwnInv, RecordInv, NEW t \in Threads, Step(t)
  PROVE  RecordInv'
<1>0. /\ WellFormed /\ Guided /\ GSTypeOK /\ StoreTypes /\ Place(t) # "idle"
      /\ dbEvents \in [Players -> Seq(EventTypes)]
      /\ {"JOIN", "LEAVE"} \subseteq EventTypes
  BY Moves, RequestAssumption DEF TypesInv, StoreTypes, Calls
<1>1. ASSUME NEW p \in Players, ~(Place(t) = "dbRecordEvent" /\ req[t].player_id = p)
      PROVE  dbEvents'[p] = dbEvents[p] /\ (JoinedLast(p)' <=> JoinedLast(p))
  BY <1>1, Entering DEF RecordInv, JoinedLast
<1>2. ASSUME NEW p \in Players, Place(t) = "dbRecordEvent", req[t].player_id = p
      PROVE  /\ req[t].action \in {"JOIN", "LEAVE"} /\ req' = req /\ m_players' = m_players
             /\ req[t].action = "JOIN" => JoinedLast(p)'
             /\ req[t].action = "LEAVE" => JoinedLast(p) /\ ~hasPlayer(p)
  <2>1. /\ dbEvents'[p] = Append(dbEvents[p], req[t].action) /\ req[t].action \in EventTypes
        /\ req[t].action \in {"JOIN", "LEAVE"} /\ req' = req /\ m_players' = m_players
    BY <1>0, <1>2, Entering DEF RecordInv
  <2>2. dbEvents'[p] # <<>> /\ dbEvents'[p][Len(dbEvents'[p])] = req[t].action
    BY <1>0, <2>1, LastRow
  <2>3. req[t].action = "JOIN" => JoinedLast(p)'
    BY <2>2 DEF JoinedLast
  <2>4. req[t].action = "LEAVE" => JoinedLast(p) /\ ~hasPlayer(p)
    BY <1>2 DEF RecordInv, DbInv, OwnInv, Gone, In, Recording, Accepted, Dropped, Saved
  <2> QED BY <2>1, <2>3, <2>4
<1>3. ASSUME NEW u \in Threads, NEW p \in Speaks[u], hasPlayer(p)'
      PROVE  JoinedLast(p)' \/ (req'[u].player_id = p /\ In(u, "JOIN", Recording)')
  <2>0. p \in Players
    BY <1>3 DEF TypesInv, GSTypeOK, hasPlayer
  <2>1. CASE Place(t) = "dbRecordEvent" /\ req[t].player_id = p
    BY <1>2, <1>3, <2>0, <2>1 DEF hasPlayer
  <2>2. CASE ~(Place(t) = "dbRecordEvent" /\ req[t].player_id = p) /\ hasPlayer(p)
    <3>1. CASE JoinedLast(p)
      BY <1>1, <2>0, <2>2, <3>1
    <3>2. CASE req[u].player_id = p /\ In(u, "JOIN", Recording)
      <4>1. CASE u = t BY <2>2, <3>2, <4>1, Records
      <4>2. CASE u # t BY <1>0, <3>2, <4>2, Others
      <4> QED BY <4>1, <4>2
    <3> QED BY <2>2, <3>1, <3>2 DEF RecordInv, DbInv
  <2>3. CASE ~hasPlayer(p)
    <3>1. Place(t) = "addPlayer" /\ p = req[t].player_id
      BY <1>3, <2>0, <2>3, World
    <3>2. req[t].action = "JOIN" /\ req' = req /\ Place(t)' = "activePlayerCount"
      BY <1>3, <2>3, <3>1, Joining DEF gsVars, hasPlayer
    <3>3. u = t
      BY <1>0, <1>3, <3>1, <3>2, Mine DEF OwnInv
    <3> QED BY <3>1, <3>2, <3>3 DEF In, Recording, Accepted, Dropped, Saved
  <2> QED BY <2>1, <2>2, <2>3
<1>4. ASSUME NEW u \in Threads, In(u, "LEAVE", Recording)'
      PROVE  JoinedLast(req[u].player_id)' /\ req'[u] = req[u]
  <2> DEFINE p == req[u].player_id
  <2>1. /\ req'[u] = req[u] /\ req[u].action = "LEAVE" /\ Place(u) # "idle"
        /\ In(u, "LEAVE", Recording) \/ (u = t /\ Place(t) = "removePlayer" /\ Place(t)' # "fail")
        /\ u = t => Place(t) # "dbRecordEvent"
    <3>1. CASE u = t BY <1>0, <1>4, <3>1, Records DEF In
    <3>2. CASE u # t
      <4>1. In(u, "LEAVE", Recording) /\ req'[u] = req[u]
        BY <1>0, <1>4, <3>2, Others
      <4> QED BY <3>2, <4>1 DEF In, Recording, Accepted, Dropped, Saved
    <3> QED BY <3>1, <3>2
  <2>2. p \in Speaks[u] /\ p \in Players
    BY <2>1, Mine DEF OwnInv
  <2>3. ~(Place(t) = "dbRecordEvent" /\ req[t].player_id = p)
    <3> SUFFICES ASSUME Place(t) = "dbRecordEvent", req[t].player_id = p PROVE FALSE
      OBVIOUS
    <3>1. req[t].action \in {"JOIN", "LEAVE"}
      BY <1>2, <2>2
    <3>2. u = t
      BY <1>0, <2>1, <3>1, Mine DEF OwnInv
    <3> QED BY <2>1, <3>2
  <2>4. JoinedLast(p)
    <3>1. CASE In(u, "LEAVE", Recording)
      BY <3>1 DEF RecordInv, DbInv
    <3>2. CASE u = t /\ Place(t) = "removePlayer" /\ Place(t)' # "fail"
      <4>1. hasPlayer(p)
        BY <3>2, Leaving DEF removePlayer, removePlayerOK
      <4>2. ~In(u, "JOIN", Recording)
        BY <2>1 DEF In
      <4> QED BY <2>2, <4>1, <4>2 DEF RecordInv, DbInv
    <3> QED BY <2>1, <3>1, <3>2
  <2>5. dbEvents'[p] = dbEvents[p]
    BY <1>1, <2>2, <2>3
  <2> QED BY <2>1, <2>4, <2>5 DEF JoinedLast
<1>5. ASSUME NEW p \in Players, NEW i \in 1..Len(dbEvents'[p]), dbEvents'[p][i] = "LEAVE"
      PROVE  i > 1 /\ dbEvents'[p][i - 1] = "JOIN"
  <2>1. CASE ~(Place(t) = "dbRecordEvent" /\ req[t].player_id = p)
    BY <1>1, <1>5, <2>1 DEF RecordInv, DbHistory
  <2>2. CASE Place(t) = "dbRecordEvent" /\ req[t].player_id = p
    <3> DEFINE s == dbEvents[p]
               s2 == dbEvents'[p]
    <3>1. s \in Seq(EventTypes) /\ s2 = Append(s, req[t].action) /\ req[t].action \in EventTypes
      BY <1>0, <2>2, Entering DEF RecordInv
    <3>2. req[t].action = "LEAVE" => s # <<>> /\ s[Len(s)] = "JOIN"
      BY <1>2, <2>2 DEF JoinedLast
    <3>3. \A k \in 1..Len(s) : s[k] = "LEAVE" => k > 1 /\ s[k - 1] = "JOIN"
      BY DEF RecordInv, DbHistory
    <3>0. i \in 1..Len(s2) /\ s2[i] = "LEAVE"
      BY <1>5
    <3> HIDE DEF s, s2
    <3>4. /\ s2[Len(s2)] = req[t].action /\ Len(s2) = Len(s) + 1 /\ Len(s) \in Nat
          /\ \A k \in 1..Len(s) : s2[k] = s[k]
      BY <3>1, LastRow
    <3>5. CASE i \in 1..Len(s)
      <4>1. i > 1 /\ s[i - 1] = "JOIN"
        BY <3>0, <3>3, <3>4, <3>5
      <4>2. i - 1 \in 1..Len(s)
        BY <3>4, <3>5, <4>1
      <4> QED BY <3>4, <4>1, <4>2 DEF s2
    <3>6. CASE i = Len(s) + 1
      <4>1. s # <<>> /\ s[Len(s)] = "JOIN"
        BY <3>0, <3>2, <3>4, <3>6
      <4>2. Len(s) > 0
        BY <3>1, <4>1
      <4>3. i > 1 /\ i - 1 = Len(s) /\ Len(s) \in 1..Len(s)
        BY <3>4, <3>6, <4>2
      <4> QED BY <3>4, <4>1, <4>3 DEF s2
    <3> QED BY <3>0, <3>4, <3>5, <3>6
  <2> QED BY <2>1, <2>2
<1>6. DbInv'
  <2>1. \A u \in Threads : In(u, "LEAVE", Recording)' => JoinedLast(req[u].player_id)'
    BY <1>4 DEF JoinedLast
  <2> QED BY <1>3, <1>4 DEF DbInv, JoinedLast
<1> QED BY <1>5, <1>6 DEF RecordInv, DbHistory

\* If each player is spoken for by one worker and MySQL does not fail, table
\* game_events never shows a player leaving without having joined just before
\* (handleJoin, handleLeave, recordEvent).
THEOREM DbHistoryCorrect ==
  Owned /\ "mysql" \notin MayFail /\ RHSpec => []DbHistory
<1>1. RHInit /\ "mysql" \notin MayFail => RecordInv
  BY DEF RHInit, GSInit, RecordInv, DbInv, DbHistory, hasPlayer, In, Place, Recording,
     Accepted, Dropped, Saved
<1>2. TypesInv /\ TypesInv' /\ OwnInv /\ RecordInv /\ [RHNext]_rhVars => RecordInv'
  <2> SUFFICES ASSUME TypesInv, TypesInv', OwnInv, RecordInv, [RHNext]_rhVars
               PROVE  RecordInv'
    OBVIOUS
  <2>1. ASSUME NEW t \in Threads, Step(t) PROVE RecordInv'
    BY <2>1, RecordStep
  <2>2. ASSUME NEW t \in Threads, NEW r \in Request, Receive(t, r) PROVE RecordInv'
    <3>1. UNCHANGED <<m_players, dbEvents>>
      BY <2>2, InReceive
    <3>2. /\ Place(t) = "idle" /\ Place(t)' \in Checks \cup {"succeed", "fail"}
          /\ Place(t)' = "succeed" => r.action \in {"SPECTATE", "GET_METRICS"}
          /\ \A u \in Threads \ {t} : Place(u)' = Place(u) /\ req'[u] = req[u]
      BY <2>2, Begins DEF TypesInv
    <3>3. ~In(t, "JOIN", Recording) /\ ~In(t, "LEAVE", Recording)'
      BY <3>2 DEF In, Checks, Recording, Accepted, Dropped, Saved
    <3>4. \A u \in Threads \ {t} : \A a, S : In(u, a, S)' <=> In(u, a, S)
      BY <3>2 DEF In
    <3>5. \A p : (JoinedLast(p)' <=> JoinedLast(p)) /\ (hasPlayer(p)' <=> hasPlayer(p))
      BY <3>1 DEF JoinedLast, hasPlayer
    <3>6. DbHistory'
      BY <3>1 DEF RecordInv, DbHistory
    <3>7. ASSUME NEW u \in Threads
          PROVE  /\ \A p \in Speaks[u] : p \in DOMAIN m_players' =>
                      JoinedLast(p) \/ (req'[u].player_id = p /\ In(u, "JOIN", Recording)')
                 /\ In(u, "LEAVE", Recording)' => JoinedLast(req'[u].player_id)
      <4>1. CASE u = t BY <3>1, <3>3, <4>1 DEF RecordInv, DbInv, hasPlayer
      <4>2. CASE u # t BY <3>1, <3>2, <3>4, <4>2 DEF RecordInv, DbInv, hasPlayer
      <4> QED BY <4>1, <4>2
    <3>8. DbInv'
      BY <3>1, <3>7 DEF DbInv, hasPlayer, JoinedLast
    <3> QED BY <3>6, <3>8 DEF RecordInv
  <2>3. CASE Background
    <3>1. UNCHANGED <<m_players, dbEvents, req>>
      BY <2>3, InBackground
    <3>2. \A u \in Threads : \A a, S : In(u, a, S)' <=> In(u, a, S)
      BY <2>3, InBackground
    <3>3. \A p : (JoinedLast(p)' <=> JoinedLast(p)) /\ (hasPlayer(p)' <=> hasPlayer(p))
      BY <3>1 DEF JoinedLast, hasPlayer
    <3>4. DbHistory'
      BY <3>1 DEF RecordInv, DbHistory
    <3>5. DbInv'
      BY <3>1, <3>2 DEF RecordInv, DbInv, hasPlayer, JoinedLast
    <3> QED BY <3>4, <3>5 DEF RecordInv
  <2> QED BY <2>1, <2>2, <2>3 DEF RHNext, Background
<1>3. RecordInv => DbHistory
  BY DEF RecordInv
<1> QED BY <1>1, <1>2, <1>3, TypesCorrect, OwnCorrect, PTL DEF RHSpec

-----------------------------------------------------------------------------
(* The history of a player in the log *)

\* What pushEvent does to the log: the events move down by d places, 0 or 1,
\* and the new one comes last.
LEMMA LogShift ==
  ASSUME NEW L \in Seq(Event), NEW e \in Event
  PROVE  \E d \in {0, 1} :
           /\ Len(Capped(Append(L, e))) = Len(L) + 1 - d /\ Len(L) \in Nat
           /\ d <= Len(L)
           /\ \A i \in 1..Len(Capped(Append(L, e))) :
                Capped(Append(L, e))[i] = IF i + d <= Len(L) THEN L[i + d] ELSE e
<1> DEFINE A == Append(L, e)
<1>1. /\ A \in Seq(Event) /\ Len(A) = Len(L) + 1 /\ Len(L) \in Nat
      /\ \A i \in 1..Len(A) : A[i] = IF i <= Len(L) THEN L[i] ELSE e
  OBVIOUS
<1>2. CASE ~(Len(A) > MAX_EVENTS)
  <2>1. Capped(A) = A
    BY <1>2 DEF Capped
  <2>2. /\ Len(A) = Len(L) + 1 - 0 /\ 0 <= Len(L)
        /\ \A i \in 1..Len(A) : A[i] = IF i + 0 <= Len(L) THEN L[i + 0] ELSE e
    BY <1>1
  <2> QED BY <1>1, <2>1, <2>2
<1>3. CASE Len(A) > MAX_EVENTS
  <2>1. Capped(A) = Tail(A)
    BY <1>3 DEF Capped
  <2>2. MAX_EVENTS \in Nat /\ MAX_EVENTS >= 1
    BY ConstantsAssumption
  <2>3. Len(L) >= 1 /\ A # <<>>
    BY <1>1, <1>3, <2>2
  <2> HIDE DEF A
  <2>4. Len(Tail(A)) = Len(A) - 1 /\ \A i \in 1..Len(Tail(A)) : Tail(A)[i] = A[i + 1]
    BY <1>1, <2>3
  <2>5. \A i \in 1..Len(Tail(A)) : i + 1 \in 1..Len(A)
    BY <1>1, <2>4
  <2>6. \A i \in 1..Len(Tail(A)) : Tail(A)[i] = IF i + 1 <= Len(L) THEN L[i + 1] ELSE e
    BY <1>1, <2>4, <2>5
  <2>7. Len(Tail(A)) = Len(L) + 1 - 1 /\ 1 <= Len(L)
    BY <1>1, <2>3, <2>4
  <2> QED BY <1>1, <2>1, <2>6, <2>7 DEF A
<1> QED BY <1>2, <1>3

\* What an event at the end of the log means for the players' last events.
LEMMA LastEvents ==
  ASSUME NEW t, m_events \in Seq(Event), ev[t] \in Event,
         m_events' = Capped(Append(m_events, ev[t])), NEW p, LeftLast(p)'
  PROVE  /\ ev[t].player_id = p => ev[t].event_type = "LEAVE"
         /\ ev[t].player_id # p => LeftLast(p)
<1> DEFINE L == m_events
           e == ev[t]
           K == m_events'
<1>1. PICK d \in {0, 1} :
        /\ Len(K) = Len(L) + 1 - d /\ Len(L) \in Nat /\ d <= Len(L)
        /\ \A i \in 1..Len(K) : K[i] = IF i + d <= Len(L) THEN L[i + d] ELSE e
  BY LogShift
<1>2. PICK i \in 1..Len(K) :
        /\ K[i].player_id = p /\ K[i].event_type = "LEAVE"
        /\ \A j \in (i + 1)..Len(K) : K[j].player_id # p
  BY DEF LeftLast
<1> HIDE DEF L, e, K
<1>3. Len(K) \in Nat /\ Len(K) \in 1..Len(K) /\ K[Len(K)] = e
  <2>1. Len(K) \in Nat /\ Len(K) >= 1
    BY <1>1, <1>2
  <2>2. ~(Len(K) + d <= Len(L))
    BY <1>1
  <2> QED BY <1>1, <2>1, <2>2
<1>4. CASE i = Len(K)
  BY <1>2, <1>3, <1>4 DEF e
<1>5. CASE i # Len(K)
  <2>1. Len(K) \in (i + 1)..Len(K)
    BY <1>2, <1>3, <1>5
  <2>2. e.player_id # p
    BY <1>2, <1>3, <2>1
  <2> DEFINE k == i + d
  <2>3. k \in 1..Len(L) /\ K[i] = L[k]
    BY <1>1, <1>2, <1>5
  <2>4. ASSUME NEW j \in (k + 1)..Len(L) PROVE L[j].player_id # p
    <3> DEFINE h == j - d
    <3>1. h \in 1..Len(K) /\ h \in (i + 1)..Len(K) /\ h + d = j /\ h + d <= Len(L)
      BY <1>1, <1>2, <2>3
    <3> HIDE DEF h, k
    <3>2. K[h] = L[j]
      BY <1>1, <3>1
    <3> QED BY <1>2, <3>1, <3>2
  <2> HIDE DEF k
  <2>5. L[k].player_id = p /\ L[k].event_type = "LEAVE"
    BY <1>2, <2>3
  <2>6. LeftLast(p)
    BY <2>3, <2>4, <2>5 DEF LeftLast, L
  <2> QED BY <2>2, <2>6 DEF e
<1> QED BY <1>4, <1>5

\* An event is logged right after its id was taken.
LEMMA FollowPush == \A a, c : Follow(a, c) = "pushEvent" => c = "takeEventId"
  BY DEF Follow

\* The calls between the check of a request and its event.
LEMMA FollowLogging ==
  \A a : \A c \in Calls : Follow(a, c) \in Logging =>
    c \in Checks \/ (c \in Logging /\ c # "pushEvent")
<1> SUFFICES ASSUME NEW a, NEW c \in Calls, c \notin Checks, Follow(a, c) \in Logging
             PROVE  c \in Logging /\ c # "pushEvent"
  OBVIOUS
<1>1. c \notin {"getPlayerSession", "pushEvent", "succeed", "fail", "timer"}
  BY DEF Follow, Logging, Accepted, Dropped, Saved
<1> QED BY <1>1 DEF Calls, Checks, Logging, Accepted, Dropped, Saved

\* How a worker comes to be between its check and its event.
LEMMA Logs ==
  ASSUME TypesInv, NEW t \in Threads, Step(t)
  PROVE  /\ Place(t)' \in Logging =>
              /\ req'[t] = req[t] /\ Place(t) \in Calls
              /\ req[t].action \notin {"SPECTATE", "GET_METRICS", "INVALID", "GET_STATE"}
                   \/ Place(t) \in Checks
              /\ \/ Place(t) \in Logging /\ Place(t) # "pushEvent"
                 \/ Place(t) \in Checks /\ Place(t)' # "fail"
         /\ In(t, "JOIN", Logging) /\ Place(t) # "pushEvent" =>
              In(t, "JOIN", Logging)' /\ req'[t] = req[t]
         /\ Place(t)' = "pushEvent" => Place(t) = "takeEventId"
         /\ Place(t) \in {"takeEventId", "pushEvent"} =>
              req[t].action \in {"JOIN", "MOVE", "ATTACK", "CHAT", "UPDATE_SCORE", "LEAVE"}
         /\ Place(t) = "takeEventId" => Place(t)' = "pushEvent" /\ req' = req
         /\ Place(t) = "pushEvent" => Place(t)' = "succeed" /\ req' = req
<1>1. /\ Place(t) \in Calls /\ req[t].action \in MadeBy(Place(t))
      /\ Place(t) = "timer" => Place(t)' = "idle"
      /\ Place(t) # "timer" => req' = req /\ (Proceed(t) \/ Refuse(t))
      /\ Place(t) \notin Checks => Proceed(t)
      /\ Place(t) # "timer" /\ Proceed(t) => Place(t)' = Follow(req[t].action, Place(t))
      /\ Refuse(t) => Place(t)' = "fail"
  BY Moves DEF TypesInv
<1>2. "idle" \notin Logging /\ "fail" \notin Logging
  BY DEF Logging, Accepted, Dropped, Saved
<1>3. Place(t) \in Logging => Place(t) \notin Checks \cup {"timer"}
  BY DEF Logging, Accepted, Dropped, Saved, Checks
<1>4. Place(t)' \in Logging => /\ Place(t)' = Follow(req[t].action, Place(t))
                               /\ Place(t) # "timer" /\ req' = req /\ Place(t)' # "fail"
  BY <1>1, <1>2
<1>5. Place(t)' \in Logging =>
        \/ Place(t) \in Logging /\ Place(t) # "pushEvent"
        \/ Place(t) \in Checks /\ Place(t)' # "fail"
  BY <1>1, <1>4, FollowLogging
<1>6. Place(t) \in Logging =>
        req[t].action \notin {"SPECTATE", "GET_METRICS", "INVALID", "GET_STATE"}
  <2>1. CASE Place(t) \in {"activePlayerCount", "setActivePlayers", "setPlayerSession",
                           "setSpawnPosition"}
    BY <1>1, <2>1, Makers
  <2>2. CASE Place(t) \in {"deletePlayerSession", "upsertPlayer", "dbRecordEvent",
                           "setPlayerPosition"}
    BY <1>1, <2>2, Makers
  <2>3. CASE Place(t) \in {"takeEventId", "pushEvent"}
    BY <1>1, <2>3, Makers
  <2> QED BY <2>1, <2>2, <2>3 DEF Logging, Accepted, Dropped, Saved
<1>7. Place(t)' = "pushEvent" => Place(t) = "takeEventId"
  <2>1. Place(t)' = "pushEvent" => Place(t)' \in Logging
    BY DEF Logging, Accepted, Dropped, Saved
  <2> QED BY <1>4, <2>1, FollowPush
<1>8. Place(t) \in {"takeEventId", "pushEvent"} =>
        req[t].action \in {"JOIN", "MOVE", "ATTACK", "CHAT", "UPDATE_SCORE", "LEAVE"}
  BY <1>1, Makers
<1>9. /\ Place(t) = "takeEventId" => Place(t)' = "pushEvent" /\ req' = req
      /\ Place(t) = "pushEvent" => Place(t)' = "succeed" /\ req' = req
  BY <1>1, Calling DEF Checks
<1>10. ASSUME In(t, "JOIN", Logging), Place(t) # "pushEvent"
       PROVE  In(t, "JOIN", Logging)' /\ req'[t] = req[t]
  <2>1. /\ req' = req /\ Place(t)' = Follow("JOIN", Place(t)) /\ req[t].action = "JOIN"
        /\ Place(t) \in Logging /\ "JOIN" \in MadeBy(Place(t))
    BY <1>1, <1>3, <1>10 DEF In
  <2>2. Place(t) \in {"activePlayerCount", "setActivePlayers", "setPlayerSession",
                      "setSpawnPosition", "upsertPlayer", "dbRecordEvent", "takeEventId"}
    BY <1>10, <2>1, Makers DEF Logging, Accepted, Dropped, Saved
  <2>3. Place(t)' \in Logging
    <3> USE <2>1, Calling DEF Logging, Accepted, Dropped, Saved
    <3>1. CASE Place(t) = "activePlayerCount" BY <3>1
    <3>2. CASE Place(t) = "setActivePlayers" BY <3>2
    <3>3. CASE Place(t) = "setPlayerSession" BY <3>3
    <3>4. CASE Place(t) = "setSpawnPosition" BY <3>4
    <3>5. CASE Place(t) = "upsertPlayer" BY <3>5
    <3>6. CASE Place(t) = "dbRecordEvent" BY <3>6
    <3>7. CASE Place(t) = "takeEventId" BY <3>7
    <3> QED BY <2>2, <3>1, <3>2, <3>3, <3>4, <3>5, <3>6, <3>7
  <2> QED BY <2>1, <2>3 DEF In
<1> QED BY <1>1, <1>4, <1>5, <1>6, <1>7, <1>8, <1>9, <1>10

\* A request that passes its check is from a player who is in the game, or joins it.
LEMMA Checked ==
  ASSUME TypesInv, NEW t \in Threads, Step(t), Place(t) \in Checks, Place(t)' # "fail"
  PROVE  /\ (req[t].action = "JOIN" /\ Place(t) = "addPlayer") \/ hasPlayer(req[t].player_id)
         /\ req[t].action \notin {"SPECTATE", "GET_METRICS", "INVALID"}
<1>0. /\ Place(t) = Head(todo[t]) /\ req[t].action \in MadeBy(Place(t)) /\ ~Refuse(t)
  BY Moves DEF TypesInv
<1>1. CASE Place(t) = "addPlayer"
  BY <1>0, <1>1, Makers
<1>2. CASE Place(t) = "removePlayer"
  <2>1. LeaveGame(t) /\ req[t].action = "LEAVE"
    BY <1>0, <1>2, Doing, Makers
  <2> QED BY <1>0, <2>1 DEF LeaveGame, removePlayer, removePlayerOK
<1>3. CASE Place(t) = "movePlayer"
  <2>1. MoveInGame(t) /\ req[t].action = "MOVE"
    BY <1>0, <1>3, Doing, Makers
  <2> QED BY <1>0, <2>1 DEF MoveInGame, movePlayer, movePlayerOK
<1>4. CASE Place(t) = "attackPlayer"
  <2>1. AttackInGame(t) /\ req[t].action = "ATTACK"
    BY <1>0, <1>4, Doing, Makers
  <2> QED BY <1>0, <2>1 DEF AttackInGame, attackPlayer, attackPlayerOK
<1>5. CASE Place(t) = "setScore"
  <2>1. ScoreInGame(t) /\ req[t].action = "UPDATE_SCORE"
    BY <1>0, <1>5, Doing, Makers
  <2> QED BY <1>0, <2>1 DEF ScoreInGame, setScore, setScoreOK
<1>6. CASE Place(t) = "hasPlayer"
  <2>1. CheckInGame(t) /\ req[t].action \in {"CHAT", "GET_STATE"}
    BY <1>0, <1>6, Doing, Makers
  <2> QED BY <1>0, <2>1 DEF CheckInGame
<1> QED BY <1>1, <1>2, <1>3, <1>4, <1>5, <1>6 DEF Checks

\* What the two steps of recordEvent do, and no other does.
LEMMA Recorder ==
  ASSUME TypesInv, NEW t \in Threads, Step(t)
  PROVE  /\ Place(t) # "pushEvent" => m_events' = m_events
         /\ Place(t) = "pushEvent" =>
              /\ ev[t] # NoEvent /\ ev[t] \in Event /\ m_players' = m_players
              /\ m_events' = Capped(Append(m_events, ev[t]))
              /\ ev'[t] = NoEvent
         /\ Place(t) = "takeEventId" =>
              /\ ev'[t].event_id = m_nextEventId /\ ev'[t].player_id = req[t].player_id
              /\ ev'[t].event_type = req[t].action /\ ev'[t] # NoEvent
         /\ Place(t) \notin {"takeEventId", "pushEvent"} => ev' = ev
<1>1. /\ Place(t) = Head(todo[t]) /\ todo[t] # <<>> /\ WellFormed
      /\ ev \in [Threads -> Event \cup {NoEvent}] /\ m_nextEventId \in Nat \ {0}
  BY Moves DEF TypesInv, GSTypeOK
<1>2. CASE Place(t) = "pushEvent"
  <2>1. LogEvent(t) /\ m_players' = m_players
    BY <1>1, <1>2, Doing, Frame
  <2> QED BY <1>1, <1>2, <2>1 DEF LogEvent, pushEvent
<1>3. CASE Place(t) = "takeEventId"
  <2>1. StartEvent(t) /\ m_events' = m_events
    BY <1>1, <1>3, Doing, Frame
  <2>2. req[t].player_id \in Players /\ req[t].action \in EventTypes
    BY <1>1, <1>3, Arguments DEF PlayerCalls, Calls
  <2> DEFINE e == [event_id |-> m_nextEventId, player_id |-> req[t].player_id,
                   event_type |-> req[t].action]
  <2>3. e \in Event
    BY <1>1, <2>2 DEF Event
  <2>4. ev'[t] = e
    BY <1>1, <2>1 DEF StartEvent, takeEventId, FreshId
  <2>5. e # NoEvent
    BY <2>3, NoEventAssumption
  <2> QED BY <1>3, <2>1, <2>4, <2>5
<1>4. CASE Place(t) \notin {"takeEventId", "pushEvent"}
  BY <1>1, <1>4, Frame
<1> QED BY <1>2, <1>3, <1>4

\* The inductive invariant of the history in the log.
HistoryInv == EvInv /\ LeftInv /\ PlayerHistory

\* A call keeps its three parts: the event a worker holds,
LEMMA EvStep ==
  ASSUME TypesInv, TypesInv', OwnInv, EventIdsUnique, HistoryInv, NEW t \in Threads, Step(t)
  PROVE  EvInv'
<1>0. WellFormed /\ Guided /\ GSTypeOK /\ StoreTypes /\ Place(t) \in Calls
  BY Moves DEF TypesInv
<1> SUFFICES ASSUME NEW u \in Threads
             PROVE  /\ ev'[u] # NoEvent <=> Place(u)' = "pushEvent"
                    /\ Place(u)' = "pushEvent" =>
                         /\ ev'[u].player_id = req'[u].player_id
                         /\ ev'[u].event_type = req'[u].action
                         /\ \A i \in 1..Len(m_events') :
                              m_events'[i].player_id = req'[u].player_id =>
                                m_events'[i].event_id < ev'[u].event_id
  BY DEF EvInv
<1>1. /\ ev[u] # NoEvent <=> Place(u) = "pushEvent"
      /\ Place(u) = "pushEvent" =>
           /\ ev[u].player_id = req[u].player_id /\ ev[u].event_type = req[u].action
           /\ \A i \in 1..Len(m_events) :
                m_events[i].player_id = req[u].player_id => m_events[i].event_id < ev[u].event_id
  BY DEF HistoryInv, EvInv
<1>2. CASE u = t /\ Place(t) = "takeEventId"
  <2>1. /\ Place(t)' = "pushEvent" /\ req' = req /\ m_events' = m_events
        /\ ev'[t].event_id = m_nextEventId /\ ev'[t].player_id = req[t].player_id
        /\ ev'[t].event_type = req[t].action /\ ev'[t] # NoEvent
    BY <1>2, Logs, Recorder
  <2>2. \A i \in 1..Len(m_events) : m_events[i].event_id < m_nextEventId
    BY DEF EventIdsUnique
  <2> QED BY <1>2, <2>1, <2>2
<1>3. CASE u = t /\ Place(t) = "pushEvent"
  BY <1>3, Logs, Recorder
<1>4. CASE u = t /\ Place(t) \notin {"takeEventId", "pushEvent"}
  <2>1. ev' = ev /\ Place(t)' # "pushEvent"
    BY <1>4, Logs, Recorder
  <2> QED BY <1>1, <1>4, <2>1
<1>5. CASE u # t /\ Place(t) # "pushEvent"
  <2>1. m_events' = m_events /\ Place(u)' = Place(u) /\ req'[u] = req[u] /\ ev'[u] = ev[u]
    BY <1>0, <1>5, Others, Recorder
  <2> QED BY <1>1, <2>1
<1>6. CASE u # t /\ Place(t) = "pushEvent"
  <2>1. /\ Place(u)' = Place(u) /\ req'[u] = req[u] /\ ev'[u] = ev[u]
        /\ ev[t] \in Event /\ m_events' = Capped(Append(m_events, ev[t]))
    BY <1>0, <1>6, Others, Recorder
  <2>2. ASSUME Place(u) = "pushEvent", NEW i \in 1..Len(m_events'),
               m_events'[i].player_id = req[u].player_id
        PROVE  m_events'[i].event_id < ev[u].event_id
    <3>1. ev[t].player_id = req[t].player_id
      BY <1>6 DEF HistoryInv, EvInv
    <3>2. req[t].player_id # req[u].player_id
      <4>1. \A w \in Threads : Place(w) = "pushEvent" => req[w].action \in MadeBy("pushEvent")
        <5> SUFFICES ASSUME NEW w \in Threads, Place(w) = "pushEvent"
                     PROVE  req[w].action \in MadeBy("pushEvent")
          OBVIOUS
        <5>1. todo[w] # <<>> /\ todo[w] \in Seq(Calls) /\ Head(todo[w]) = "pushEvent"
              /\ Guide(todo[w], req[w])
          BY <1>0 DEF Place, WellFormed, Guided
        <5> QED BY <5>1, TailGuide
      <4> QED BY <1>6, <2>2, <4>1, Mine, Makers DEF OwnInv
    <3> DEFINE K == m_events'
               L == m_events
    <3>3. m_events \in Seq(Event)
      BY <1>0 DEF GSTypeOK
    <3>4. PICK d \in {0, 1} :
            /\ Len(K) = Len(L) + 1 - d /\ Len(L) \in Nat /\ d <= Len(L)
            /\ \A k \in 1..Len(K) : K[k] = IF k + d <= Len(L) THEN L[k + d] ELSE ev[t]
      BY <2>1, <3>3, LogShift
    <3>5. K[i] # ev[t]
      BY <2>2, <3>1, <3>2
    <3> DEFINE k == i + d
    <3>6. k \in 1..Len(L) /\ K[i] = L[k]
      BY <2>2, <3>4, <3>5
    <3> HIDE DEF k
    <3> QED BY <1>1, <2>2, <3>6
  <2> QED BY <1>1, <2>1, <2>2
<1> QED BY <1>2, <1>3, <1>4, <1>5, <1>6

\* the players whose last event is LEAVE,
LEMMA LeftStep ==
  ASSUME TypesInv, TypesInv', OwnInv, HistoryInv, NEW t \in Threads, Step(t)
  PROVE  LeftInv'
<1>0. WellFormed /\ Guided /\ GSTypeOK /\ StoreTypes /\ Place(t) # "idle"
      /\ m_events \in Seq(Event)
  BY Moves DEF TypesInv, Calls, GSTypeOK
\* What is known of the last events before the step.
<1>1. ASSUME NEW p, LeftLast(p)', Place(t) = "pushEvent"
      PROVE  /\ req[t].player_id = p => req[t].action = "LEAVE"
             /\ req[t].player_id # p => LeftLast(p)
  <2>1. /\ ev[t] \in Event /\ m_events' = Capped(Append(m_events, ev[t]))
        /\ ev[t].player_id = req[t].player_id /\ ev[t].event_type = req[t].action
    BY <1>1, Recorder DEF HistoryInv, EvInv
  <2> QED BY <1>0, <1>1, <2>1, LastEvents
<1>2. ASSUME NEW p, LeftLast(p)', Place(t) # "pushEvent" PROVE LeftLast(p)
  BY <1>2, Recorder DEF LeftLast
<1>3. Place(t) = "pushEvent" =>
        req[t].action \in {"JOIN", "MOVE", "ATTACK", "CHAT", "UPDATE_SCORE", "LEAVE"}
  BY Logs
<1>4. ASSUME NEW u \in Threads, Place(u)' \in Logging,
             NEW p, p = req'[u].player_id, LeftLast(p)'
      PROVE  req'[u].action = "JOIN"
  <2>1. CASE u = t
    <3>1. /\ req'[t] = req[t] /\ Place(t) # "pushEvent"
          /\ Place(t) \in Logging \/ (Place(t) \in Checks /\ Place(t)' # "fail")
      BY <1>4, <2>1, Logs DEF Checks
    <3>2. LeftLast(p)
      BY <1>2, <1>4, <2>1, <3>1
    <3>3. CASE Place(t) \in Logging
      BY <1>4, <2>1, <3>1, <3>2, <3>3 DEF HistoryInv, LeftInv
    <3>4. CASE Place(t) \in Checks /\ Place(t)' # "fail"
      <4>1. /\ req[t].action = "JOIN" \/ hasPlayer(p)
            /\ req[t].action \notin {"SPECTATE", "GET_METRICS", "INVALID"}
        BY <1>4, <2>1, <3>1, <3>4, Checked
      <4>2. p \in Speaks[t]
        BY <1>0, <1>4, <2>1, <3>1, <4>1, Mine DEF OwnInv
      <4>3. ~In(t, "JOIN", Logging)
        BY <3>4 DEF In, Checks, Logging, Accepted, Dropped, Saved
      <4> QED BY <1>4, <2>1, <3>1, <3>2, <4>1, <4>2, <4>3 DEF HistoryInv, LeftInv
    <3> QED BY <3>1, <3>3, <3>4
  <2>2. CASE u # t
    <3>1. req'[u] = req[u] /\ Place(u) \in Logging /\ Place(u) # "idle"
      BY <1>0, <1>4, <2>2, Others DEF Logging, Accepted, Dropped, Saved
    <3>2. CASE LeftLast(p)
      BY <1>4, <3>1, <3>2 DEF HistoryInv, LeftInv
    <3>3. CASE ~LeftLast(p)
      <4>1. Place(t) = "pushEvent" /\ req[t].player_id = p /\ req[t].action = "LEAVE"
        BY <1>1, <1>2, <1>4, <3>1, <3>3
      <4>2. req[u].action \in {"SPECTATE", "GET_METRICS", "INVALID"}
        BY <1>0, <1>4, <2>2, <3>1, <4>1, Mine DEF OwnInv
      <4>3. todo[u] # <<>> /\ todo[u] \in Seq(Calls) /\ Head(todo[u]) = Place(u)
            /\ Guide(todo[u], req[u])
        BY <1>0, <3>1 DEF Place, WellFormed, Guided
      <4>4. req[u].action \in MadeBy(Place(u))
        BY <4>3, TailGuide
      <4>5. FALSE
        <5> USE <4>2, <4>4, Makers
        <5>1. CASE Place(u) \in {"activePlayerCount", "setActivePlayers", "setPlayerSession",
                                 "setSpawnPosition"}
          BY <5>1
        <5>2. CASE Place(u) \in {"deletePlayerSession", "upsertPlayer", "dbRecordEvent",
                                 "setPlayerPosition"}
          BY <5>2
        <5>3. CASE Place(u) \in {"takeEventId", "pushEvent"}
          BY <5>3
        <5> QED BY <3>1, <5>1, <5>2, <5>3 DEF Logging, Accepted, Dropped, Saved
      <4> QED BY <4>5
    <3> QED BY <3>2, <3>3
  <2> QED BY <2>1, <2>2
<1>5. ASSUME NEW u \in Threads, NEW p \in Speaks[u], hasPlayer(p)', LeftLast(p)'
      PROVE  In(u, "JOIN", Logging)' /\ req'[u].player_id = p
  <2>0. p \in Players
    BY <1>5 DEF TypesInv, GSTypeOK, hasPlayer
  <2>1. CASE Place(t) = "pushEvent"
    <3>1. hasPlayer(p)
      BY <1>5, <2>1, Recorder DEF hasPlayer
    <3>2. req[t].player_id # p
      <4> SUFFICES ASSUME req[t].player_id = p PROVE FALSE
        OBVIOUS
      <4>1. In(t, "LEAVE", Accepted)
        BY <1>1, <1>5, <2>1 DEF In, Accepted, Dropped, Saved
      <4> QED BY <3>1, <4>1 DEF OwnInv, Gone
    <3>3. In(u, "JOIN", Logging) /\ req[u].player_id = p
      BY <1>1, <1>5, <2>1, <3>1, <3>2 DEF HistoryInv, LeftInv
    <3>4. u # t
      BY <3>2, <3>3
    <3> QED BY <1>0, <3>3, <3>4, Others
  <2>2. CASE Place(t) # "pushEvent" /\ hasPlayer(p)
    <3>1. In(u, "JOIN", Logging) /\ req[u].player_id = p
      BY <1>2, <1>5, <2>2 DEF HistoryInv, LeftInv
    <3>2. CASE u = t BY <2>2, <3>1, <3>2, Logs
    <3>3. CASE u # t BY <1>0, <3>1, <3>3, Others
    <3> QED BY <3>2, <3>3
  <2>3. CASE ~hasPlayer(p)
    <3>1. Place(t) = "addPlayer" /\ p = req[t].player_id
      BY <1>5, <2>0, <2>3, World
    <3>2. req[t].action = "JOIN" /\ req' = req /\ Place(t)' = "activePlayerCount"
      BY <1>5, <2>3, <3>1, Joining DEF gsVars, hasPlayer
    <3>3. u = t
      BY <1>0, <1>5, <3>1, <3>2, Mine DEF OwnInv
    <3> QED BY <3>1, <3>2, <3>3 DEF In, Logging, Accepted, Dropped, Saved
  <2> QED BY <2>1, <2>2, <2>3
<1>6. ASSUME NEW u \in Threads
      PROVE  /\ Place(u)' \in Logging /\ LeftLast(req[u].player_id)' => req'[u].action = "JOIN"
             /\ \A p \in Speaks[u] : hasPlayer(p)' /\ LeftLast(p)' =>
                  In(u, "JOIN", Logging)' /\ req'[u].player_id = p
  BY <1>4, <1>5 DEF LeftLast
<1> QED BY <1>6 DEF LeftInv

\* and the log itself: the event that pushEvent adds continues its player's history.
LEMMA PushHistory ==
  ASSUME TypesInv, HistoryInv, NEW t \in Threads, Step(t)
  PROVE  PlayerHistory'
<1>0. m_events \in Seq(Event) /\ PlayerHistory
  BY DEF TypesInv, GSTypeOK, HistoryInv
<1>1. CASE Place(t) # "pushEvent"
  <2>1. m_events' = m_events
    BY <1>1, Recorder
  <2> QED BY <1>0, <2>1 DEF PlayerHistory, NextOf
<1>2. CASE Place(t) = "pushEvent"
  <2> DEFINE L == m_events
             K == m_events'
             e == ev[t]
  <2>1. /\ e \in Event /\ K = Capped(Append(L, e))
        /\ e.player_id = req[t].player_id /\ e.event_type = req[t].action
        /\ \A i \in 1..Len(L) : L[i].player_id = e.player_id => L[i].event_id < e.event_id
        /\ LeftLast(e.player_id) => e.event_type = "JOIN"
    BY <1>2, Recorder DEF HistoryInv, EvInv, LeftInv, Logging, Accepted, Dropped, Saved
  <2>2. PICK d \in {0, 1} :
          /\ Len(K) = Len(L) + 1 - d /\ Len(L) \in Nat /\ d <= Len(L)
          /\ \A i \in 1..Len(K) : K[i] = IF i + d <= Len(L) THEN L[i + d] ELSE e
    BY <1>0, <2>1, LogShift
  <2>3. d \in Int /\ d >= 0 /\ Len(L) \in Nat /\ Len(K) \in Int /\ Len(K) + d = Len(L) + 1
    BY <2>2
  <2>4. \A i, j \in 1..Len(L) :
          /\ i < j /\ L[i].player_id = L[j].player_id
          /\ \A k \in (i + 1)..(j - 1) : L[k].player_id # L[i].player_id
          => /\ L[i].event_id < L[j].event_id
             /\ L[i].event_type = "LEAVE" => L[j].event_type = "JOIN"
    BY <1>0 DEF PlayerHistory, NextOf
  <2> HIDE DEF L, K, e
  <2>5. ASSUME NEW i \in 1..Len(K), NEW j \in 1..Len(K),
               i < j, K[i].player_id = K[j].player_id,
               \A k \in (i + 1)..(j - 1) : K[k].player_id # K[i].player_id
        PROVE  /\ K[i].event_id < K[j].event_id
               /\ K[i].event_type = "LEAVE" => K[j].event_type = "JOIN"
    <3> DEFINE a == i + d
               b == j + d
    <3>1. a \in 1..Len(L) /\ K[i] = L[a] /\ a < b /\ b \in 1..(Len(L) + 1)
      BY <2>2, <2>5
    <3>2. ASSUME NEW k \in (a + 1)..(b - 1) PROVE L[k].player_id # L[a].player_id
      <4> DEFINE h == k - d
      <4>1. h \in 1..Len(K) /\ h \in (i + 1)..(j - 1) /\ h + d = k /\ h + d <= Len(L)
        BY <2>2, <2>5, <3>1
      <4> HIDE DEF h, a, b
      <4>2. K[h] = L[k]
        BY <2>2, <4>1
      <4> QED BY <2>5, <3>1, <4>1, <4>2
    <3>3. j \in Int /\ j <= Len(K) /\ b <= Len(L) + 1 /\ b \in Int
      BY <2>3
    <3>4. CASE b <= Len(L)
      <4>1. b \in 1..Len(L) /\ K[j] = L[b]
        BY <2>2, <2>5, <3>1, <3>4
      <4> HIDE DEF a, b
      <4> QED BY <2>4, <2>5, <3>1, <3>2, <4>1
    <3>5. CASE b = Len(L) + 1
      <4>0. ~(j + d <= Len(L))
        BY <2>3, <3>5, <3>3
      <4>1. K[j] = e
        BY <2>2, <4>0
      <4>2. L[a].player_id = e.player_id
        BY <2>5, <3>1, <4>1
      <4>3. \A k \in (a + 1)..Len(L) : L[k].player_id # e.player_id
        <5>1. b - 1 = Len(L)
          BY <2>2, <3>5
        <5> HIDE DEF a, b
        <5> QED BY <3>2, <4>2, <5>1
      <4> HIDE DEF a, b
      <4>4. L[a].event_type = "LEAVE" => LeftLast(e.player_id)
        BY <3>1, <4>2, <4>3 DEF LeftLast, L
      <4> QED BY <2>1, <3>1, <4>1, <4>2, <4>4
    <3>6. b <= Len(L) \/ b = Len(L) + 1
      BY <2>3, <3>3
    <3> QED BY <3>4, <3>5, <3>6
  <2> QED BY <2>5 DEF PlayerHistory, NextOf, K
<1> QED BY <1>1, <1>2

\* If each player is spoken for by one worker, then however the workers take
\* event ids and log their events, and whoever attacks whom meanwhile, the
\* events of one player are logged in the order of their ids, and after LEAVE
\* comes nothing but JOIN (recordEvent, the checks of the handlers).
THEOREM HistoryCorrect == Owned /\ RHSpec => []PlayerHistory
<1>1. RHInit => HistoryInv
  BY DEF RHInit, GSInit, HistoryInv, EvInv, LeftInv, PlayerHistory, hasPlayer, Place, Logging,
     Accepted, Dropped, Saved
<1>2. TypesInv /\ TypesInv' /\ OwnInv /\ EventIdsUnique /\ HistoryInv /\ [RHNext]_rhVars
        => HistoryInv'
  <2> SUFFICES ASSUME TypesInv, TypesInv', OwnInv, EventIdsUnique, HistoryInv, [RHNext]_rhVars
               PROVE  HistoryInv'
    OBVIOUS
  <2>1. ASSUME NEW t \in Threads, Step(t) PROVE HistoryInv'
    BY <2>1, EvStep, LeftStep, PushHistory DEF HistoryInv
  <2>2. ASSUME NEW t \in Threads, NEW r \in Request, Receive(t, r) PROVE HistoryInv'
    <3>1. UNCHANGED <<m_players, m_events, ev>>
      BY <2>2, InReceive
    <3>2. /\ Place(t) = "idle" /\ Place(t)' \in Checks \cup {"succeed", "fail"}
          /\ \A u \in Threads \ {t} : Place(u)' = Place(u) /\ req'[u] = req[u]
      BY <2>2, Begins DEF TypesInv
    <3>3. /\ Place(t) # "pushEvent" /\ Place(t)' # "pushEvent"
          /\ Place(t)' \notin Logging /\ ~In(t, "JOIN", Logging)
      BY <3>2 DEF In, Checks, Logging, Accepted, Dropped, Saved
    <3>4. \A u \in Threads \ {t} : \A a, S : In(u, a, S)' <=> In(u, a, S)
      BY <3>2 DEF In
    <3>5. EvInv'
      BY <3>1, <3>2, <3>3 DEF HistoryInv, EvInv
    <3>6. ASSUME NEW u \in Threads
          PROVE  /\ Place(u)' \in Logging /\ LeftLast(req'[u].player_id) => req'[u].action = "JOIN"
                 /\ \A p \in Speaks[u] : p \in DOMAIN m_players /\ LeftLast(p) =>
                      In(u, "JOIN", Logging)' /\ req'[u].player_id = p
      <4>1. CASE u = t BY <3>3, <4>1 DEF HistoryInv, LeftInv, hasPlayer
      <4>2. CASE u # t BY <3>2, <3>4, <4>2 DEF HistoryInv, LeftInv, hasPlayer
      <4> QED BY <4>1, <4>2
    <3>7. LeftInv'
      BY <3>1, <3>6 DEF LeftInv, LeftLast, hasPlayer
    <3>8. PlayerHistory'
      BY <3>1 DEF HistoryInv, PlayerHistory, NextOf
    <3> QED BY <3>5, <3>7, <3>8 DEF HistoryInv
  <2>3. CASE Background
    <3>1. UNCHANGED <<m_players, m_events, ev, req>>
      BY <2>3, InBackground
    <3>2. \A u \in Threads : Place(u)' = Place(u) /\ \A a, S : In(u, a, S)' <=> In(u, a, S)
      BY <2>3, InBackground
    <3>3. EvInv'
      BY <3>1, <3>2 DEF HistoryInv, EvInv
    <3>4. LeftInv'
      BY <3>1, <3>2 DEF HistoryInv, LeftInv, LeftLast, hasPlayer
    <3>5. PlayerHistory'
      BY <3>1 DEF HistoryInv, PlayerHistory, NextOf
    <3> QED BY <3>3, <3>4, <3>5 DEF HistoryInv
  <2> QED BY <2>1, <2>2, <2>3 DEF RHNext, Background
<1>3. HistoryInv => PlayerHistory
  BY DEF HistoryInv
<1>4. RHSpec => []EventIdsUnique
  BY HandlersUseGameState, IdsCorrect, PTL
<1> QED BY <1>1, <1>2, <1>3, <1>4, TypesCorrect, OwnCorrect, PTL DEF RHSpec

=============================================================================
