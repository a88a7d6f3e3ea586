--------------------------- MODULE GameStateProofs ---------------------------
(***************************************************************************)
(* Proofs about GameState for every number of players and threads, every   *)
(* map, damage, log capacity and width of int.                             *)
(***************************************************************************)
EXTENDS GameState, FiniteSetTheorems, TLAPS

-----------------------------------------------------------------------------
(* The helpers *)

\* std::clamp lands on the map.
LEMMA ClampOnMap == \A v \in Int : Clamp(v) \in MAP_MIN..MAP_MAX
  BY ConstantsAssumption DEF Clamp

\* Adding 10 or 100 points to an int gives an int again, wrapped or not.
LEMMA AddIntIsInt ==
  \A a \in CInt, b \in {10, 100} : AddInt(a, b) \in CInt
  BY ConstantsAssumption DEF AddInt, CInt, INT_MIN

\* A fresh player is a PlayerState with all its health.
LEMMA NewPlayerType == NewPlayer \in PlayerState /\ NewPlayer.health > 0
  BY ConstantsAssumption DEF NewPlayer, PlayerState, CInt, INT_MIN

\* A hit leaves a table of PlayerStates with the same players, in which only
\* the target's health has changed, to HealthAfter.
LEMMA AfterHitType ==
  ASSUME GSTypeOK, NEW a \in Players, NEW t \in Players, attackPlayerOK(a, t)
  PROVE  /\ AfterHit(a, t) \in [DOMAIN m_players -> PlayerState]
         /\ HealthAfter(t) \in 0..MAX_HEALTH
         /\ AfterHit(a, t)[t].health = HealthAfter(t)
         /\ \A q \in DOMAIN m_players \ {t} :
              AfterHit(a, t)[q].health = m_players[q].health
<1> DEFINE ma == m_players[a]
           mt == m_players[t]
           ra == [ma EXCEPT !.score = AddInt(@, IF Eliminates(t) THEN 100 ELSE 10),
                            !.kills = IF Eliminates(t) THEN @ + 1 ELSE @]
           rt == [mt EXCEPT !.health = HealthAfter(t)]
<1>1. a \in DOMAIN m_players /\ t \in DOMAIN m_players /\ a # t
  BY DEF attackPlayerOK, hasPlayer
<1>2. ma \in PlayerState /\ mt \in PlayerState
  BY <1>1 DEF GSTypeOK
<1>3. HealthAfter(t) \in 0..MAX_HEALTH
  BY <1>2, ConstantsAssumption DEF HealthAfter, PlayerState
<1>4. rt \in PlayerState /\ rt.health = HealthAfter(t)
  BY <1>2, <1>3 DEF PlayerState
<1>5. AddInt(ma.score, IF Eliminates(t) THEN 100 ELSE 10) \in CInt
  BY <1>2, AddIntIsInt DEF PlayerState
<1>6. (IF Eliminates(t) THEN ma.kills + 1 ELSE ma.kills) \in Nat
  BY <1>2 DEF PlayerState
<1>7. ra \in PlayerState /\ ra.health = ma.health
  BY <1>2, <1>5, <1>6 DEF PlayerState
<1>8. AfterHit(a, t) = [m_players EXCEPT ![t] = rt, ![a] = ra]
  BY <1>1, <1>2 DEF AfterHit, PlayerState, GSTypeOK
<1> QED BY <1>1, <1>3, <1>4, <1>7, <1>8 DEF GSTypeOK

-----------------------------------------------------------------------------
(* Type correctness *)

LEMMA TypeInit == GSInit => GSTypeOK
  BY NoEventAssumption DEF GSInit, GSTypeOK, MatchStatus

LEMMA TypeStep == GSTypeOK /\ [GSNext]_gsVars => GSTypeOK'
<1> SUFFICES ASSUME GSTypeOK, [GSNext]_gsVars PROVE GSTypeOK'
  OBVIOUS
<1> USE DEF playerVars, eventVars
<1>1. ASSUME NEW p \in Players, addPlayer(p) PROVE GSTypeOK'
  BY <1>1, NewPlayerType DEF addPlayer, GSTypeOK, MatchStatus
<1>2. ASSUME NEW p \in Players, removePlayer(p) PROVE GSTypeOK'
  BY <1>2 DEF removePlayer, Without, StatusWithout, GSTypeOK, MatchStatus
<1>3. ASSUME NEW p \in Players, NEW x \in Coords, NEW y \in Coords,
             movePlayer(p, x, y)
      PROVE GSTypeOK'
  <2>1. Clamp(x) \in MAP_MIN..MAP_MAX /\ Clamp(y) \in MAP_MIN..MAP_MAX
    BY ClampOnMap, ConstantsAssumption DEF CInt, INT_MIN
  <2>2. p \in DOMAIN m_players /\ m_players[p] \in PlayerState
    BY <1>3 DEF movePlayer, movePlayerOK, hasPlayer, GSTypeOK
  <2>3. [m_players[p] EXCEPT !.x = Clamp(x), !.y = Clamp(y)] \in PlayerState
    BY <2>1, <2>2 DEF PlayerState
  <2>4. m_players' = [m_players EXCEPT ![p] =
                        [m_players[p] EXCEPT !.x = Clamp(x), !.y = Clamp(y)]]
    BY <1>3, <2>2 DEF movePlayer, GSTypeOK, PlayerState
  <2> QED BY <1>3, <2>2, <2>3, <2>4 DEF movePlayer, GSTypeOK
<1>4. ASSUME NEW a \in Players, NEW t \in Players, attackPlayer(a, t)
      PROVE GSTypeOK'
  <2>1. AfterHit(a, t) \in [DOMAIN m_players -> PlayerState]
    BY <1>4, AfterHitType DEF attackPlayer
  <2>2. CASE ~Eliminates(t)
    BY <1>4, <2>1, <2>2 DEF attackPlayer, GSTypeOK
  <2>3. CASE Eliminates(t)
    BY <1>4, <2>1, <2>3 DEF attackPlayer, Without, StatusWithout, GSTypeOK, MatchStatus
  <2> QED BY <2>2, <2>3
<1>5. ASSUME NEW p \in Players, NEW s \in Scores, setScore(p, s) PROVE GSTypeOK'
  <2>1. p \in DOMAIN m_players /\ m_players[p] \in PlayerState /\ s \in CInt
    BY <1>5, ConstantsAssumption DEF setScore, setScoreOK, hasPlayer, GSTypeOK
  <2>2. [m_players[p] EXCEPT !.score = s] \in PlayerState
    BY <2>1 DEF PlayerState
  <2> QED BY <1>5, <2>1, <2>2 DEF setScore, GSTypeOK
<1>6. ASSUME NEW t \in Threads, NEW p \in Players, NEW type \in EventTypes,
             takeEventId(t, p, type)
      PROVE GSTypeOK'
  BY <1>6 DEF takeEventId, FreshId, GSTypeOK, Event
<1>7. ASSUME NEW t \in Threads, pushEvent(t) PROVE GSTypeOK'
  <2>1. ev[t] \in Event
    BY <1>7 DEF pushEvent, GSTypeOK
  <2>2. Append(m_events, ev[t]) \in Seq(Event) /\ Append(m_events, ev[t]) # <<>>
    BY <2>1 DEF GSTypeOK
  <2>3. Capped(Append(m_events, ev[t])) \in Seq(Event)
    BY <2>2 DEF Capped
  <2> QED BY <1>7, <2>3 DEF pushEvent, GSTypeOK
<1>8. CASE UNCHANGED gsVars
  BY <1>8 DEF gsVars, GSTypeOK
<1> QED BY <1>1, <1>2, <1>3, <1>4, <1>5, <1>6, <1>7, <1>8
        DEF GSNext, PlayerNext, EventNext

\* Every reachable world is well typed: positions stay on the map, health in
\* 0..MAX_HEALTH and scores within an int, for any constants.
THEOREM TypeCorrect == GSSpec => []GSTypeOK
  BY TypeInit, TypeStep, PTL DEF GSSpec

-----------------------------------------------------------------------------
(* The match lifecycle and the living *)

LEMMA LifecycleStep ==
  GSTypeOK /\ MatchLifecycle /\ [GSNext]_gsVars => MatchLifecycle'
<1> SUFFICES ASSUME GSTypeOK, MatchLifecycle, [GSNext]_gsVars
             PROVE MatchLifecycle'
  OBVIOUS
<1> USE DEF playerVars, eventVars, MatchLifecycle, hasPlayer
<1>1. ASSUME NEW p \in Players, addPlayer(p) PROVE MatchLifecycle'
  BY <1>1 DEF addPlayer, GSTypeOK, MatchStatus
<1>2. ASSUME NEW p \in Players, removePlayer(p) PROVE MatchLifecycle'
  BY <1>2 DEF removePlayer, removePlayerOK, Without, StatusWithout
<1>3. ASSUME NEW p \in Players, NEW x \in Coords, NEW y \in Coords,
             movePlayer(p, x, y)
      PROVE MatchLifecycle'
  BY <1>3 DEF movePlayer
<1>4. ASSUME NEW a \in Players, NEW t \in Players, attackPlayer(a, t)
      PROVE MatchLifecycle'
  <2>1. a # t /\ a \in DOMAIN m_players
    BY <1>4 DEF attackPlayer, attackPlayerOK
  <2>2. DOMAIN AfterHit(a, t) = DOMAIN m_players
    BY DEF AfterHit
  <2>3. a \in DOMAIN m_players'
    BY <1>4, <2>1, <2>2 DEF attackPlayer, Without
  <2>4. m_status' = m_status
    BY <1>4, <2>1 DEF attackPlayer, StatusWithout
  <2> QED BY <2>1, <2>3, <2>4
<1>5. ASSUME NEW p \in Players, NEW s \in Scores, setScore(p, s)
      PROVE MatchLifecycle'
  BY <1>5 DEF setScore
<1>6. CASE EventNext
  BY <1>6 DEF EventNext, takeEventId, pushEvent
<1>7. CASE UNCHANGED gsVars
  BY <1>7 DEF gsVars
<1> QED BY <1>1, <1>2, <1>3, <1>4, <1>5, <1>6, <1>7 DEF GSNext, PlayerNext

\* An ACTIVE match always has players and a WAITING one has had none, however
\* joins, departures and eliminations interleave.
THEOREM LifecycleCorrect == GSSpec => []MatchLifecycle
<1>1. GSInit => MatchLifecycle
  BY DEF GSInit, MatchLifecycle
<1> QED BY <1>1, LifecycleStep, TypeCorrect, PTL DEF GSSpec

LEMMA AliveStep == GSTypeOK /\ PlayersAlive /\ [GSNext]_gsVars => PlayersAlive'
<1> SUFFICES ASSUME GSTypeOK, PlayersAlive, [GSNext]_gsVars PROVE PlayersAlive'
  OBVIOUS
<1> USE DEF playerVars, eventVars, PlayersAlive, hasPlayer
<1>0. \A q \in DOMAIN m_players : m_players[q] \in PlayerState
  BY DEF GSTypeOK
<1>1. ASSUME NEW p \in Players, addPlayer(p) PROVE PlayersAlive'
  BY <1>1, NewPlayerType DEF addPlayer
<1>2. ASSUME NEW p \in Players, removePlayer(p) PROVE PlayersAlive'
  BY <1>2 DEF removePlayer, Without
<1>3. ASSUME NEW p \in Players, NEW x \in Coords, NEW y \in Coords,
             movePlayer(p, x, y)
      PROVE PlayersAlive'
  BY <1>0, <1>3 DEF movePlayer, PlayerState
<1>4. ASSUME NEW a \in Players, NEW t \in Players, attackPlayer(a, t)
      PROVE PlayersAlive'
  <2>1. /\ AfterHit(a, t) \in [DOMAIN m_players -> PlayerState]
        /\ HealthAfter(t) \in 0..MAX_HEALTH
        /\ AfterHit(a, t)[t].health = HealthAfter(t)
        /\ \A q \in DOMAIN m_players \ {t} :
             AfterHit(a, t)[q].health = m_players[q].health
    BY <1>4, AfterHitType DEF attackPlayer
  <2>2. CASE ~Eliminates(t)
    <3>1. HealthAfter(t) > 0
      BY <2>1, <2>2, ConstantsAssumption DEF Eliminates
    <3>2. m_players' = AfterHit(a, t)
      BY <1>4, <2>2 DEF attackPlayer
    <3> QED BY <2>1, <3>1, <3>2
  <2>3. CASE Eliminates(t)
    <3>1. m_players' = Without(AfterHit(a, t), t)
      BY <1>4, <2>3 DEF attackPlayer
    <3> QED BY <2>1, <3>1 DEF Without
  <2> QED BY <2>2, <2>3
<1>5. ASSUME NEW p \in Players, NEW s \in Scores, setScore(p, s)
      PROVE PlayersAlive'
  BY <1>0, <1>5 DEF setScore, PlayerState
<1>6. CASE EventNext
  BY <1>6 DEF EventNext, takeEventId, pushEvent
<1>7. CASE UNCHANGED gsVars
  BY <1>7 DEF gsVars
<1> QED BY <1>1, <1>2, <1>3, <1>4, <1>5, <1>6, <1>7 DEF GSNext, PlayerNext

\* Whatever the damage per hit is, nobody stays in the game without health.
THEOREM AliveCorrect == GSSpec => []PlayersAlive
<1>1. GSInit => PlayersAlive
  BY DEF GSInit, PlayersAlive
<1> QED BY <1>1, AliveStep, TypeCorrect, PTL DEF GSSpec

-----------------------------------------------------------------------------
(* Kills *)

\* The members of StandingKills, for any player table m.
LEMMA StandingIs ==
  ASSUME NEW m, \A p \in DOMAIN m : m[p].kills \in Nat, NEW x
  PROVE  x \in UNION {{p} \X (1..m[p].kills) : p \in DOMAIN m} <=>
           \E p \in DOMAIN m, k \in Nat \ {0} : x = <<p, k>> /\ k <= m[p].kills
<1>1. \A p \in DOMAIN m : x \in {p} \X (1..m[p].kills) <=> \E k \in 1..m[p].kills : x = <<p, k>>
  OBVIOUS
<1>2. \A p \in DOMAIN m : \A k : k \in 1..m[p].kills <=> k \in Nat \ {0} /\ k <= m[p].kills
  OBVIOUS
<1> QED BY <1>1, <1>2

\* The set is finite, and no larger than the total.
KillInv == IsFiniteSet(StandingKills) /\ KillAccounting

\* Everybody in the table has a number of kills.
LEMMA KillsNat == GSTypeOK => \A p \in DOMAIN m_players : m_players[p].kills \in Nat
  BY DEF GSTypeOK, PlayerState

\* A step after which nobody in the table has more kills than before.
LEMMA NoNewKill ==
  ASSUME GSTypeOK, GSTypeOK', KillInv, m_totalKills' = m_totalKills,
         \A p \in DOMAIN m_players' :
           \/ m_players'[p].kills = 0
           \/ p \in DOMAIN m_players /\ m_players'[p].kills = m_players[p].kills
  PROVE  KillInv'
<1>0. /\ \A p \in DOMAIN m_players : m_players[p].kills \in Nat
      /\ \A p \in DOMAIN m_players' : m_players'[p].kills \in Nat
  BY DEF GSTypeOK, PlayerState
<1>1. StandingKills' \subseteq StandingKills
  <2> SUFFICES ASSUME NEW x \in StandingKills' PROVE x \in StandingKills
    OBVIOUS
  <2>1. PICK p \in DOMAIN m_players', k \in Nat \ {0} : x = <<p, k>> /\ k <= m_players'[p].kills
    BY <1>0, StandingIs DEF StandingKills
  <2>2. m_players'[p].kills # 0
    BY <2>1
  <2> QED BY <1>0, <2>1, <2>2, StandingIs DEF StandingKills
<1>2. /\ IsFiniteSet(StandingKills') /\ Cardinality(StandingKills') <= Cardinality(StandingKills)
      /\ Cardinality(StandingKills) \in Nat /\ Cardinality(StandingKills') \in Nat
  BY <1>1, FS_Subset, FS_CardinalityType DEF KillInv
<1> QED BY <1>2 DEF KillInv, KillAccounting, GSTypeOK

\* An elimination adds a kill to the attacker's and one to the total.
LEMMA NewKill ==
  ASSUME GSTypeOK, GSTypeOK', KillInv, NEW a \in Players, NEW t \in Players,
         attackPlayer(a, t), Eliminates(t)
  PROVE  KillInv'
<1> DEFINE n == m_players[a].kills + 1
<1>0. /\ \A p \in DOMAIN m_players : m_players[p].kills \in Nat
      /\ \A p \in DOMAIN m_players' : m_players'[p].kills \in Nat
  BY DEF GSTypeOK, PlayerState
<1>1. a \in DOMAIN m_players /\ m_totalKills' = m_totalKills + 1
  <2>1. \/ ~Eliminates(t) \/ m_totalKills' = m_totalKills + 1
    BY DEF attackPlayer
  <2> QED BY <2>1 DEF attackPlayer, attackPlayerOK, hasPlayer
<1>2. \A p \in DOMAIN m_players' :
        p \in DOMAIN m_players /\ m_players'[p].kills = IF p = a THEN n ELSE m_players[p].kills
  <2>1. m_players' = Without(AfterHit(a, t), t)
    BY DEF attackPlayer
  <2>2. DOMAIN m_players' = DOMAIN m_players \ {t}
    BY <2>1 DEF Without, AfterHit
  <2> SUFFICES ASSUME NEW p \in DOMAIN m_players \ {t}
               PROVE m_players'[p].kills = IF p = a THEN n ELSE m_players[p].kills
    BY <2>2
  <2>3. m_players'[p] = AfterHit(a, t)[p]
    BY <2>1, <2>2 DEF Without, AfterHit
  <2>4. m_players[p] \in PlayerState /\ a # t
    BY DEF GSTypeOK, attackPlayer, attackPlayerOK
  <2>5. CASE p # a
    BY <2>3, <2>4, <2>5 DEF AfterHit
  <2>6. CASE p = a
    <3>1. AfterHit(a, t)[a].kills = n
      BY <1>1, <2>4, <2>6 DEF AfterHit, PlayerState
    <3> QED BY <2>3, <2>6, <3>1
  <2> QED BY <2>5, <2>6
<1>3. StandingKills' \subseteq StandingKills \cup {<<a, n>>}
  <2> SUFFICES ASSUME NEW x \in StandingKills', x # <<a, n>> PROVE x \in StandingKills
    OBVIOUS
  <2>1. PICK p \in DOMAIN m_players', k \in Nat \ {0} : x = <<p, k>> /\ k <= m_players'[p].kills
    BY <1>0, StandingIs DEF StandingKills
  <2>2. p \in DOMAIN m_players /\ m_players[p].kills \in Nat
    BY <1>0, <1>2
  <2>3. k <= m_players[p].kills
    <3>1. CASE p # a
      BY <1>2, <2>1, <3>1
    <3>2. CASE p = a
      <4>1. k <= n /\ k # n
        BY <1>2, <2>1, <3>2
      <4> QED BY <2>1, <2>2, <3>2, <4>1
    <3> QED BY <3>1, <3>2
  <2> QED BY <1>0, <2>1, <2>2, <2>3, StandingIs DEF StandingKills
<1>4. /\ IsFiniteSet(StandingKills \cup {<<a, n>>}) /\ Cardinality(StandingKills) \in Nat
      /\ Cardinality(StandingKills \cup {<<a, n>>}) <= Cardinality(StandingKills) + 1
      /\ Cardinality(StandingKills \cup {<<a, n>>}) \in Nat
  <2> HIDE DEF n
  <2>1. IsFiniteSet(StandingKills) /\ Cardinality(StandingKills) \in Nat
    BY FS_CardinalityType DEF KillInv
  <2>2. /\ IsFiniteSet(StandingKills \cup {<<a, n>>})
        /\ Cardinality(StandingKills \cup {<<a, n>>}) \in
             {Cardinality(StandingKills), Cardinality(StandingKills) + 1}
    BY <2>1, FS_AddElement
  <2> QED BY <2>1, <2>2
<1>5. /\ IsFiniteSet(StandingKills') /\ Cardinality(StandingKills') \in Nat
      /\ Cardinality(StandingKills') <= Cardinality(StandingKills \cup {<<a, n>>})
  BY <1>3, <1>4, FS_Subset, FS_CardinalityType
<1>6. Cardinality(StandingKills) <= m_totalKills /\ m_totalKills \in Nat
  BY DEF KillInv, KillAccounting, GSTypeOK
<1>7. Cardinality(StandingKills') <= m_totalKills'
  <2> HIDE DEF n
  <2> QED BY <1>1, <1>4, <1>5, <1>6
<1> QED BY <1>5, <1>7 DEF KillInv, KillAccounting

\* Only an elimination makes a kill.
LEMMA KillStep == GSTypeOK /\ KillInv /\ [GSNext]_gsVars => KillInv'
<1> SUFFICES ASSUME GSTypeOK, KillInv, [GSNext]_gsVars PROVE KillInv'
  OBVIOUS
<1>0. GSTypeOK'
  BY TypeStep
<1>1. CASE UNCHANGED playerVars
  BY <1>1 DEF playerVars, KillInv, KillAccounting, StandingKills
<1>2. ASSUME NEW p \in Players, addPlayer(p) PROVE KillInv'
  BY <1>0, <1>2, NoNewKill DEF addPlayer, NewPlayer
<1>3. ASSUME NEW p \in Players, removePlayer(p) PROVE KillInv'
  BY <1>0, <1>3, NoNewKill DEF removePlayer, Without
<1>4. ASSUME NEW p \in Players, NEW x \in Coords, NEW y \in Coords, movePlayer(p, x, y)
      PROVE  KillInv'
  <2>1. \A q \in DOMAIN m_players' :
          q \in DOMAIN m_players /\ m_players'[q].kills = m_players[q].kills
    BY <1>4 DEF movePlayer, movePlayerOK, hasPlayer, GSTypeOK, PlayerState
  <2> QED BY <1>0, <1>4, <2>1, NoNewKill DEF movePlayer
<1>5. ASSUME NEW p \in Players, NEW s \in Scores, setScore(p, s) PROVE KillInv'
  <2>1. \A q \in DOMAIN m_players' :
          q \in DOMAIN m_players /\ m_players'[q].kills = m_players[q].kills
    BY <1>5 DEF setScore, setScoreOK, hasPlayer, GSTypeOK, PlayerState
  <2> QED BY <1>0, <1>5, <2>1, NoNewKill DEF setScore
<1>6. ASSUME NEW p \in Players, NEW t \in Players, attackPlayer(p, t) PROVE KillInv'
  <2>1. CASE Eliminates(t)
    BY <1>0, <1>6, <2>1, NewKill
  <2>2. CASE ~Eliminates(t)
    <3>1. m_players' = AfterHit(p, t) /\ m_totalKills' = m_totalKills
      BY <1>6, <2>2 DEF attackPlayer
    <3>2. p # t /\ p \in DOMAIN m_players /\ t \in DOMAIN m_players
      BY <1>6 DEF attackPlayer, attackPlayerOK, hasPlayer
    <3>3. \A q \in DOMAIN m_players' :
            q \in DOMAIN m_players /\ m_players'[q].kills = m_players[q].kills
      BY <2>2, <3>1, <3>2 DEF AfterHit, GSTypeOK, PlayerState
    <3> QED BY <1>0, <3>1, <3>3, NoNewKill
  <2> QED BY <2>1, <2>2
<1>7. CASE EventNext
  BY <1>1, <1>7 DEF EventNext, takeEventId, pushEvent
<1>8. CASE UNCHANGED gsVars
  BY <1>1, <1>8 DEF gsVars, playerVars
<1> QED BY <1>2, <1>3, <1>4, <1>5, <1>6, <1>7, <1>8 DEF GSNext, PlayerNext

\* The match total covers the kills of everybody in the table: attackPlayer keeps
\* both counters, for any number of players.
THEOREM KillsCorrect == GSSpec => []KillAccounting
<1>1. GSInit => KillInv
  <2> SUFFICES ASSUME GSInit PROVE KillInv
    OBVIOUS
  <2>1. StandingKills = {}
    BY DEF GSInit, StandingKills
  <2> QED BY <2>1, FS_EmptySet DEF GSInit, KillInv, KillAccounting
<1>2. KillInv => KillAccounting
  BY DEF KillInv
<1> QED BY <1>1, <1>2, KillStep, TypeCorrect, PTL DEF GSSpec

-----------------------------------------------------------------------------
(* The end of a match *)

\* The "last player eliminated" branch of attackPlayer is dead code: no
\* elimination changes the status or empties the table.
THEOREM EliminationCorrect == GSSpec => EliminationNeverEndsMatch
<1> DEFINE P == m_totalKills' # m_totalKills =>
                  m_status' = m_status /\ DOMAIN m_players' # {}
<1>1. GSTypeOK /\ [GSNext]_gsVars => [P]_gsVars
  <2> SUFFICES ASSUME GSTypeOK, GSNext, m_totalKills' # m_totalKills
               PROVE m_status' = m_status /\ DOMAIN m_players' # {}
    OBVIOUS
  <2>1. m_totalKills \in Nat
    BY DEF GSTypeOK
  <2>2. PICK a \in Players, t \in Players : attackPlayer(a, t) /\ Eliminates(t)
    BY <2>1 DEF GSNext, PlayerNext, EventNext, addPlayer, removePlayer, movePlayer,
                attackPlayer, setScore, takeEventId, pushEvent, playerVars
  <2>3. a # t /\ a \in DOMAIN m_players
    BY <2>2 DEF attackPlayer, attackPlayerOK, hasPlayer
  <2>4. DOMAIN AfterHit(a, t) = DOMAIN m_players
    BY DEF AfterHit
  <2> QED BY <2>2, <2>3, <2>4 DEF attackPlayer, Without, StatusWithout
<1> QED BY <1>1, TypeCorrect, PTL DEF GSSpec, EliminationNeverEndsMatch

-----------------------------------------------------------------------------
(* The event log *)

LEMMA IdsStep == GSTypeOK /\ EventIdsUnique /\ [GSNext]_gsVars => EventIdsUnique'
<1> SUFFICES ASSUME GSTypeOK, EventIdsUnique, [GSNext]_gsVars
             PROVE EventIdsUnique'
  OBVIOUS
<1>0. /\ m_events \in Seq(Event)
      /\ m_nextEventId \in Nat
      /\ \A i \in 1..Len(m_events) : m_events[i].event_id \in Nat
      /\ \A t \in Pending : ev[t] \in Event /\ ev[t].event_id \in Nat
  <2>1. m_events \in Seq(Event) /\ m_nextEventId \in Nat
    BY DEF GSTypeOK
  <2>2. \A i \in 1..Len(m_events) : m_events[i] \in Event
    BY <2>1
  <2>3. \A t \in Pending : ev[t] \in Event
    BY DEF GSTypeOK, Pending
  <2>4. \A e \in Event : e.event_id \in Nat
    BY DEF Event
  <2> QED BY <2>1, <2>2, <2>3, <2>4
<1>1. CASE UNCHANGED eventVars
  BY <1>1 DEF eventVars, EventIdsUnique, Pending
<1>2. ASSUME NEW t \in Threads, NEW p \in Players, NEW type \in EventTypes,
             takeEventId(t, p, type)
      PROVE EventIdsUnique'
  <2>1. /\ m_events' = m_events
        /\ m_nextEventId' = m_nextEventId + 1
        /\ ev[t] = NoEvent
        /\ ev'[t].event_id = m_nextEventId
        /\ \A u \in Threads \ {t} : ev'[u] = ev[u]
    BY <1>2 DEF takeEventId, FreshId, GSTypeOK
  <2>2. Pending' \subseteq Pending \cup {t} /\ t \notin Pending
    BY <2>1 DEF Pending
  <2> QED BY <1>0, <2>1, <2>2 DEF EventIdsUnique, Pending
<1>3. ASSUME NEW t \in Threads, pushEvent(t) PROVE EventIdsUnique'
  <2> DEFINE log == Append(m_events, ev[t])
  <2>1. t \in Pending /\ Pending' = Pending \ {t}
    BY <1>3 DEF pushEvent, Pending, GSTypeOK
  <2>2. /\ m_nextEventId' = m_nextEventId
        /\ \A u \in Pending' : ev'[u] = ev[u]
    BY <1>3, <2>1 DEF pushEvent, GSTypeOK, Pending
  <2>3. /\ log \in Seq(Event) /\ Len(log) = Len(m_events) + 1
        /\ \A i \in 1..Len(m_events) : log[i] = m_events[i]
        /\ log[Len(log)] = ev[t]
    BY <1>0, <2>1
  <2>4. /\ \A i \in 1..Len(log) : log[i].event_id < m_nextEventId
        /\ \A i, j \in 1..Len(log) : i # j => log[i].event_id # log[j].event_id
        /\ \A i \in 1..Len(log), u \in Pending' :
             log[i].event_id # ev[u].event_id
    <3> HIDE DEF log
    <3>1. Len(m_events) \in Nat
      BY <1>0
    <3>2. \A i \in 1..Len(log) : i \in 1..Len(m_events) \/ i = Len(log)
      BY <2>3, <3>1
    <3>3. \A i \in 1..Len(m_events) : log[i].event_id # log[Len(log)].event_id
      BY <2>1, <2>3 DEF EventIdsUnique
    <3>4. \A i \in 1..Len(log) : log[i].event_id < m_nextEventId
      BY <2>1, <2>3, <3>2 DEF EventIdsUnique
    <3>5. \A i, j \in 1..Len(log) : i # j => log[i].event_id # log[j].event_id
      BY <2>3, <3>2, <3>3 DEF EventIdsUnique
    <3>6. \A i \in 1..Len(log), u \in Pending' : log[i].event_id # ev[u].event_id
      BY <2>1, <2>3, <3>2 DEF EventIdsUnique
    <3> QED BY <3>4, <3>5, <3>6
  <2>5. m_events' = Capped(log)
    BY <1>3 DEF pushEvent
  <2>6. \E k \in {0, 1} : /\ Len(m_events') = Len(log) - k
                          /\ \A i \in 1..Len(m_events') : m_events'[i] = log[i + k]
    <3>1. Len(log) \in Nat /\ log # <<>>
      BY <2>3
    <3> HIDE DEF log
    <3>2. CASE Len(log) > MAX_EVENTS
      <4>1. m_events' = Tail(log)
        BY <2>5, <3>2 DEF Capped
      <4> QED BY <2>3, <3>1, <4>1
    <3>3. CASE ~(Len(log) > MAX_EVENTS)
      BY <2>3, <2>5, <3>1, <3>3 DEF Capped
    <3> QED BY <3>2, <3>3
  <2>7. PICK k \in {0, 1} :
          /\ Len(m_events') = Len(log) - k
          /\ \A i \in 1..Len(m_events') : m_events'[i] = log[i + k]
    BY <2>6
  <2>8. \A i \in 1..Len(m_events') : i + k \in 1..Len(log)
    <3> HIDE DEF log
    <3> QED BY <2>3, <2>7
  <2> HIDE DEF log
  <2>9. (\A i \in 1..Len(m_events) : m_events[i].event_id < m_nextEventId)'
    BY <2>2, <2>4, <2>7, <2>8
  <2>10. (\A i, j \in 1..Len(m_events) :
            i # j => m_events[i].event_id # m_events[j].event_id)'
    BY <2>3, <2>4, <2>7, <2>8
  <2>11. (\A i \in 1..Len(m_events), u \in Pending :
            m_events[i].event_id # ev[u].event_id)'
    BY <2>2, <2>4, <2>7, <2>8
  <2>12. (\A u \in Pending : ev[u].event_id < m_nextEventId)'
    BY <2>1, <2>2 DEF EventIdsUnique
  <2>13. (\A u, v \in Pending : u # v => ev[u].event_id # ev[v].event_id)'
    BY <2>1, <2>2 DEF EventIdsUnique
  <2> QED BY <2>9, <2>10, <2>11, <2>12, <2>13 DEF EventIdsUnique
<1>4. CASE PlayerNext
  BY <1>1, <1>4 DEF PlayerNext, addPlayer, removePlayer, movePlayer, attackPlayer,
                    setScore, eventVars
<1>5. CASE UNCHANGED gsVars
  BY <1>1, <1>5 DEF gsVars, eventVars
<1> QED BY <1>2, <1>3, <1>4, <1>5 DEF GSNext, EventNext

\* Event ids stay unique although the log's lock does not cover the id counter,
\* for any number of threads.
THEOREM IdsCorrect == GSSpec => []EventIdsUnique
<1>1. GSInit => EventIdsUnique
  BY DEF GSInit, EventIdsUnique, Pending
<1> QED BY <1>1, IdsStep, TypeCorrect, PTL DEF GSSpec

LEMMA LogStep == GSTypeOK /\ LogAccounting /\ [GSNext]_gsVars => LogAccounting'
<1> SUFFICES ASSUME GSTypeOK, LogAccounting, [GSNext]_gsVars
             PROVE LogAccounting'
  OBVIOUS
<1>0. /\ IsFiniteSet(Pending) /\ Cardinality(Pending) \in Nat
      /\ m_nextEventId \in Nat \ {0} /\ MAX_EVENTS \in Nat \ {0}
      /\ m_events \in Seq(Event)
  <2>1. IsFiniteSet(Pending)
    BY ThreadsAssumption, FS_Subset DEF Pending
  <2> QED BY <2>1, FS_CardinalityType, ConstantsAssumption DEF GSTypeOK
<1>1. CASE UNCHANGED eventVars
  BY <1>1 DEF eventVars, LogAccounting, Pending
<1>2. ASSUME NEW t \in Threads, NEW p \in Players, NEW type \in EventTypes,
             takeEventId(t, p, type)
      PROVE LogAccounting'
  <2>1. t \notin Pending /\ Pending' = Pending \cup {t}
    <3>1. ev'[t] \in Event
      BY <1>2 DEF takeEventId, FreshId, GSTypeOK, Event
    <3> QED BY <1>2, <3>1, NoEventAssumption DEF takeEventId, Pending, GSTypeOK
  <2>2. Cardinality(Pending') = Cardinality(Pending) + 1
    BY <1>0, <2>1, FS_AddElement
  <2> QED BY <1>0, <1>2, <2>2 DEF takeEventId, LogAccounting
<1>3. ASSUME NEW t \in Threads, pushEvent(t) PROVE LogAccounting'
  <2>1. t \in Pending /\ Pending' = Pending \ {t}
    BY <1>3 DEF pushEvent, Pending, GSTypeOK
  <2>2. Cardinality(Pending') = Cardinality(Pending) - 1
    BY <1>0, <2>1, FS_RemoveElement
  <2>3. ev[t] \in Event
    BY <1>3 DEF pushEvent, GSTypeOK
  <2>4. Len(m_events') = IF Len(m_events) + 1 > MAX_EVENTS
                           THEN Len(m_events) ELSE Len(m_events) + 1
    <3> DEFINE log == Append(m_events, ev[t])
    <3>1. log \in Seq(Event) /\ Len(log) = Len(m_events) + 1 /\ log # <<>>
      BY <1>0, <2>3
    <3>2. m_events' = Capped(log)
      BY <1>3 DEF pushEvent
    <3> HIDE DEF log
    <3> QED BY <1>0, <3>1, <3>2 DEF Capped
  <2> QED BY <1>0, <1>3, <2>2, <2>4 DEF pushEvent, LogAccounting
<1>4. CASE PlayerNext
  BY <1>1, <1>4 DEF PlayerNext, addPlayer, removePlayer, movePlayer, attackPlayer,
                    setScore, eventVars
<1>5. CASE UNCHANGED gsVars
  BY <1>1, <1>5 DEF gsVars, eventVars
<1> QED BY <1>2, <1>3, <1>4, <1>5 DEF GSNext, EventNext

\* The log loses no event before it is full and never outgrows its capacity.
THEOREM LogCorrect == GSSpec => []LogAccounting
<1>1. GSInit => LogAccounting
  <2> SUFFICES ASSUME GSInit PROVE LogAccounting
    OBVIOUS
  <2>1. Pending = {}
    BY DEF GSInit, Pending
  <2>2. Cardinality(Pending) = 0
    BY <2>1, FS_EmptySet
  <2> QED BY <2>2, ConstantsAssumption DEF GSInit, LogAccounting
<1> QED BY <1>1, LogStep, TypeCorrect, PTL DEF GSSpec
=============================================================================
