\* Two workers and three operations, the first of which creates the schema.
SPECIFICATION MCDBSpec
CONSTANTS
  Callers = {t1, t2}
  Keys = {k1}
  NoCall = NoCall
  MaxCalls = 3
INVARIANTS NullExplained AckedStored SuccessCounted
PROPERTIES Recovers
CHECK_DEADLOCK FALSE
