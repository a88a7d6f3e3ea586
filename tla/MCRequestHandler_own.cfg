\* Two clients with a player each; the stores work.
SPECIFICATION MCSpec
CONSTANTS
  Players = {p1, p2}
  Threads = {t1, t2}
  EventTypes = {"JOIN", "MOVE", "ATTACK", "CHAT", "UPDATE_SCORE", "LEAVE"}
  Coords <- ReachCoords
  Scores <- ReachScores
  MAP_MIN = 1
  MAP_MAX = 3
  SPAWN = 2
  MAX_HEALTH = 100
  ATTACK_DAMAGE = 100
  MAX_EVENTS = 8
  INT_MAX = 127
  NoEvent = NoEvent
  Actions = {"JOIN", "MOVE", "ATTACK", "LEAVE"}
  Speaks <- OwnPlayer
  JsonInts = {1, 300}
  CacheSettings = {TRUE}
  MayFail = {}
  NoRequest = NoRequest
  NoPos = NoPos
  NoRow = NoRow
  NoScore = NoScore
  MaxRequests = 4
  MaxLate = 0
  MayExpire = TRUE
INVARIANTS FinalScorePersisted SessionDropped PositionFresh PlayerHistory DbHistory
CHECK_DEADLOCK FALSE
