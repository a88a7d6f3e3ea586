------------------------------ MODULE GameState ------------------------------
(***************************************************************************)
(* The authoritative game world: class GameState of the server             *)
(* (include/server/GameState.h, server/src/GameState.cpp).                 *)
(*                                                                         *)
(* Every public operation locks GameState::m_mutex for its whole body and  *)
(* is one atomic action here.  The one exception is recordEvent, which     *)
(* takes its event id from the atomic m_nextEventId BEFORE it locks the    *)
(* mutex: it is two actions, takeEventId and pushEvent, and ev[t] holds    *)
(* the GameEvent thread t has built but not yet appended.                  *)
(*                                                                         *)
(* An operation that returns false changes nothing; its condition is the   *)
(* negation of the ...OK operator beside the action.                       *)
(*                                                                         *)
(* A definition named X_slip, just before X, is a plausible slip in the    *)
(* code X models.  No specification uses it: it is there to be put in the  *)
(* place of X, to see that a property notices.                             *)
(***************************************************************************)
EXTENDS Integers, Sequences, FiniteSets

CONSTANTS
  Players,        \* the player ids the clients use
  Threads,        \* the threads that call recordEvent
  EventTypes,     \* "JOIN", "MOVE", ...
  Coords,         \* the coordinates movePlayer is called with
  Scores,         \* the scores setScore is called with
  MAP_MIN, MAP_MAX, SPAWN,
  MAX_HEALTH, ATTACK_DAMAGE,
  MAX_EVENTS,     \* capacity of the event log
  INT_MAX,        \* the largest C++ int (2^31 - 1 in the build, small in runs)
  NoEvent         \* thread t is not inside recordEvent

VARIABLES
  m_players,      \* id -> PlayerState, for the players in the game
  m_status,       \* MatchStatus
  m_totalKills,
  m_nextEventId,
  m_events,       \* the event log, oldest first
  ev              \* ev[t]: the event of a recordEvent call between its steps

gsVars == <<m_players, m_status, m_totalKills, m_nextEventId, m_events, ev>>
playerVars == <<m_players, m_status, m_totalKills>>
eventVars == <<m_nextEventId, m_events, ev>>

INT_MIN == -INT_MAX - 1
CInt == INT_MIN..INT_MAX

ASSUME ConstantsAssumption ==
  /\ MAP_MIN \in Int /\ MAP_MAX \in Int /\ SPAWN \in MAP_MIN..MAP_MAX
  /\ MAX_HEALTH \in Nat \ {0} /\ ATTACK_DAMAGE \in Nat \ {0}
  /\ MAX_EVENTS \in Nat \ {0}
  /\ INT_MAX \in Nat /\ INT_MAX >= 100
  /\ MAP_MIN..MAP_MAX \subseteq CInt
  /\ Coords \subseteq CInt /\ Scores \subseteq CInt

ASSUME ThreadsAssumption == IsFiniteSet(Threads)

\* Player ids are of type int.
ASSUME PlayersAssumption == IsFiniteSet(Players)

Event == [event_id : Nat \ {0}, player_id : Players, event_type : EventTypes]

ASSUME NoEventAssumption == NoEvent \notin Event

PlayerState == [x : MAP_MIN..MAP_MAX, y : MAP_MIN..MAP_MAX,
                health : 0..MAX_HEALTH, score : CInt, kills : Nat]

MatchStatus == {"WAITING", "ACTIVE", "FINISHED"}

-----------------------------------------------------------------------------
(* Helpers *)

Clamp_lowOnly(v) == IF v < MAP_MIN THEN MAP_MIN ELSE v

\* std::clamp(v, MAP_MIN, MAP_MAX)
Clamp(v) == IF v < MAP_MIN THEN MAP_MIN ELSE IF v > MAP_MAX THEN MAP_MAX ELSE v

\* score += pts on a C++ int: overflow is undefined behaviour, and the build's
\* plain add instruction wraps around.
AddInt(a, b) == IF a + b > INT_MAX THEN a + b - 2 * (INT_MAX + 1) ELSE a + b

\* m_players.erase
Without(f, p) == [q \in DOMAIN f \ {p} |-> f[q]]

\* A default-constructed PlayerState.
NewPlayer == [x |-> SPAWN, y |-> SPAWN, health |-> MAX_HEALTH,
              score |-> 0, kills |-> 0]

hasPlayer(p) == p \in DOMAIN m_players

activePlayerCount == Cardinality(DOMAIN m_players)

StatusWithout_never(p) == m_status
StatusWithout_lastOne(p) ==
  IF m_status = "ACTIVE" /\ Cardinality(DOMAIN m_players) <= 2
    THEN "FINISHED" ELSE m_status

\* The ACTIVE -> FINISHED transition after p is erased.
StatusWithout(p) ==
  IF m_status = "ACTIVE" /\ DOMAIN m_players = {p} THEN "FINISHED" ELSE m_status

-----------------------------------------------------------------------------
(* Player operations *)

addPlayerOK(p) == ~hasPlayer(p)

addPlayer(p) ==
  /\ addPlayerOK(p)
  /\ m_players' = [q \in DOMAIN m_players \cup {p} |->
                     IF q = p THEN NewPlayer ELSE m_players[q]]
  /\ m_status' = IF m_status = "WAITING" THEN "ACTIVE" ELSE m_status
  /\ UNCHANGED <<m_totalKills, eventVars>>

removePlayerOK(p) == hasPlayer(p)

removePlayer(p) ==
  /\ removePlayerOK(p)
  /\ m_players' = Without(m_players, p)
  /\ m_status' = StatusWithout(p)
  /\ UNCHANGED <<m_totalKills, eventVars>>

movePlayerOK(p) == hasPlayer(p)

movePlayer(p, x, y) ==
  /\ movePlayerOK(p)
  /\ m_players' = [m_players EXCEPT ![p].x = Clamp(x), ![p].y = Clamp(y)]
  /\ UNCHANGED <<m_status, m_totalKills, eventVars>>

attackPlayerOK(a, t) == a # t /\ hasPlayer(a) /\ hasPlayer(t)

\* result.targetHealthAfter, then result.targetEliminated
HealthAfter(t) == IF m_players[t].health > ATTACK_DAMAGE
                    THEN m_players[t].health - ATTACK_DAMAGE ELSE 0
Eliminates(t) == HealthAfter(t) = 0

\* The hit takes health, the attacker gets 10 points, or 100 and the kill.
AfterHit(a, t) ==
  [m_players EXCEPT
     ![t].health = HealthAfter(t),
     ![a].score = AddInt(@, IF Eliminates(t) THEN 100 ELSE 10),
     ![a].kills = IF Eliminates(t) THEN @ + 1 ELSE @]

attackPlayer(a, t) ==
  /\ attackPlayerOK(a, t)
  /\ \/ /\ ~Eliminates(t)
        /\ m_players' = AfterHit(a, t)
        /\ UNCHANGED <<m_status, m_totalKills>>
     \/ /\ Eliminates(t)
        /\ m_players' = Without(AfterHit(a, t), t)
        /\ m_totalKills' = m_totalKills + 1
        /\ m_status' = StatusWithout(t)
  /\ UNCHANGED eventVars

setScoreOK(p) == hasPlayer(p)

setScore(p, s) ==
  /\ setScoreOK(p)
  /\ m_players' = [m_players EXCEPT ![p].score = s]
  /\ UNCHANGED <<m_status, m_totalKills, eventVars>>

-----------------------------------------------------------------------------
(* Event log *)

FreshId_logSize == Len(m_events) + 1

\* The value fetch_add returns.
FreshId == m_nextEventId

\* recordEvent up to the lock: fetch_add on the atomic id and fill in the event.
takeEventId(t, p, type) ==
  /\ ev[t] = NoEvent
  /\ ev' = [ev EXCEPT ![t] = [event_id |-> FreshId, player_id |-> p,
                              event_type |-> type]]
  /\ m_nextEventId' = m_nextEventId + 1
  /\ UNCHANGED <<playerVars, m_events>>

Capped_early(log) == IF Len(log) >= MAX_EVENTS THEN Tail(log) ELSE log

\* push_back, then pop_front when the log has outgrown MAX_EVENTS.
Capped(log) == IF Len(log) > MAX_EVENTS THEN Tail(log) ELSE log

\* recordEvent under the lock.
pushEvent(t) ==
  /\ ev[t] # NoEvent
  /\ m_events' = Capped(Append(m_events, ev[t]))
  /\ ev' = [ev EXCEPT ![t] = NoEvent]
  /\ UNCHANGED <<playerVars, m_nextEventId>>

-----------------------------------------------------------------------------
GSInit ==
  /\ m_players = [p \in {} |-> NewPlayer]
  /\ m_status = "WAITING"
  /\ m_totalKills = 0
  /\ m_nextEventId = 1
  /\ m_events = <<>>
  /\ ev = [t \in Threads |-> NoEvent]

PlayerNext ==
  \E p \in Players :
    \/ addPlayer(p)
    \/ removePlayer(p)
    \/ \E x, y \in Coords : movePlayer(p, x, y)
    \/ \E t \in Players : attackPlayer(p, t)
    \/ \E s \in Scores : setScore(p, s)

EventNext ==
  \E t \in Threads :
    \/ \E p \in Players, type \in EventTypes : takeEventId(t, p, type)
    \/ pushEvent(t)

GSNext == PlayerNext \/ EventNext

GSSpec == GSInit /\ [][GSNext]_gsVars

-----------------------------------------------------------------------------
(* Properties *)

GSTypeOK ==
  /\ DOMAIN m_players \subseteq Players
  /\ m_players \in [DOMAIN m_players -> PlayerState]
  /\ m_status \in MatchStatus
  /\ m_totalKills \in Nat
  /\ m_nextEventId \in Nat \ {0}
  /\ m_events \in Seq(Event)
  /\ ev \in [Threads -> Event \cup {NoEvent}]

\* The match status agrees with the player table (addPlayer, removePlayer,
\* attackPlayer each keep their half of this): nobody has played in a WAITING
\* match, and an ACTIVE match is never left without players.  A FINISHED match
\* may have players: there is no way back from FINISHED.
MatchLifecycle ==
  /\ m_status = "WAITING" => DOMAIN m_players = {} /\ m_totalKills = 0
  /\ m_status = "ACTIVE" => DOMAIN m_players # {}

\* Nobody is in the game with no health left: the hit that takes the last of it
\* also erases the player, whatever the damage leaves over.
PlayersAlive == \A p \in DOMAIN m_players : m_players[p].health > 0

\* The kills of the players in the table, one element each.
StandingKills ==
  UNION {{p} \X (1..m_players[p].kills) : p \in DOMAIN m_players}

\* attackPlayer keeps two kill counters, the attacker's and the match's.  The
\* match total covers the kills of everybody in the table; it is larger once
\* somebody with kills has left or has been eliminated.
KillAccounting == Cardinality(StandingKills) <= m_totalKills

\* Only removePlayer ends a match.  attackPlayer never does, since the attacker
\* is still in the table after its target is erased: the FINISHED branch at the
\* end of attackPlayer is unreachable.  This contradicts that branch and what
\* scripts/test_milestone4.py (line 9) says, "Match finishes when last player
\* eliminated": the match goes on until the last player leaves.
EliminationNeverEndsMatch ==
  [][m_totalKills' # m_totalKills =>
       m_status' = m_status /\ DOMAIN m_players' # {}]_gsVars

\* The threads between the two steps of recordEvent.
Pending == {t \in Threads : ev[t] # NoEvent}

\* No two recordEvent calls get the same id, however they interleave: ids are
\* distinct within the log, among the events not yet appended, and across.
EventIdsUnique ==
  /\ \A i \in 1..Len(m_events) : m_events[i].event_id < m_nextEventId
  /\ \A t \in Pending : ev[t].event_id < m_nextEventId
  /\ \A i, j \in 1..Len(m_events) :
       i # j => m_events[i].event_id # m_events[j].event_id
  /\ \A t, u \in Pending : t # u => ev[t].event_id # ev[u].event_id
  /\ \A i \in 1..Len(m_events), t \in Pending :
       m_events[i].event_id # ev[t].event_id

\* No event is lost before the log is full, and the log never exceeds its
\* capacity: the log holds what was recorded, less what is still pending, up to
\* MAX_EVENTS.
LogAccounting ==
  LET recorded == m_nextEventId - 1 - Cardinality(Pending)
  IN  Len(m_events) = IF recorded < MAX_EVENTS THEN recorded ELSE MAX_EVENTS
=============================================================================
