\* Two connections that speak for the same player, all requests, Redis on and off,
\* and stores that fail in every way.  GET_METRICS stands for SPECTATE as
\* well, which makes the same calls.
SPECIFICATION MCSpec
SYMMETRY WorkerSymmetry
CONSTANTS
  Players = {p1}
  Threads = {t1, t2}
  EventTypes = {"JOIN", "MOVE", "ATTACK", "CHAT", "UPDATE_SCORE", "LEAVE"}
  Coords <- ReachCoords
  Scores <- ReachScores
  MAP_MIN = 1
  MAP_MAX = 3
  SPAWN = 2
  MAX_HEALTH = 100
  ATTACK_DAMAGE = 100
  MAX_EVENTS = 1
  INT_MAX = 127
  NoEvent = NoEvent
  Actions = {"JOIN", "MOVE", "ATTACK", "CHAT", "GET_STATE", "UPDATE_SCORE", "LEAVE", "GET_METRICS", "INVALID"}
  Speaks <- AnyPlayer
  JsonInts = {3, 200}
  CacheSettings = {TRUE, FALSE}
  MayFail = {"redis", "mysql"}
  NoRequest = NoRequest
  NoPos = NoPos
  NoRow = NoRow
  NoScore = NoScore
  MaxRequests = 3
  MaxLate = 1
  MayExpire = FALSE
INVARIANTS RequestsBalance HighScoreKept
CHECK_DEADLOCK FALSE
