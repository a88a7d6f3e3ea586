\* Two players and two threads at the limits of the data: a map of one point,
\* with coordinates off both ends of it; a score that the next attack carries
\* past INT_MAX; two hits to eliminate, with damage left over; a log of one event.
SPECIFICATION MCSpec
CONSTANTS
  Players = {p1, p2}
  Threads = {t1, t2}
  EventTypes = {"MOVE"}
  Coords = {0, 2}
  Scores = {120}
  MAP_MIN = 1
  MAP_MAX = 1
  SPAWN = 1
  MAX_HEALTH = 100
  ATTACK_DAMAGE = 60
  MAX_EVENTS = 1
  INT_MAX = 127
  NoEvent = NoEvent
  MaxKills = 2
  MaxEvents = 3
  MaxScore = 120
SYMMETRY GameSymmetry
INVARIANTS GSTypeOK MatchLifecycle EventIdsUnique LogAccounting
PROPERTIES EliminationNeverEndsMatch
CHECK_DEADLOCK FALSE
