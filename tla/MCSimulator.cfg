\* Two bots and one thread of the server.  Headers of two bytes, a byte has four
\* values, a payload of two bytes is too large; text read as a length is too large.
SPECIFICATION SimSpec
CONSTANTS
  HEADER_SIZE = 2
  BYTE = 4
  MAX_MESSAGE_SIZE = 1
  TEXT = 3
  LargeReply = 2
  Bots = {1, 2}
  Ghosts = {2}
  Breakable = {1}
  Workers = 1
  Actions = {"ATTACK", "GET_STATE"}
  MaxActions <- MCMaxActions
INVARIANTS GhostExplained SummaryTrue
PROPERTIES ImplementsExchange SimulatorEnds
CHECK_DEADLOCK FALSE
