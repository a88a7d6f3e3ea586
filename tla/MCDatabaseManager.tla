-------------------------- MODULE MCDatabaseManager --------------------------
(* DatabaseManager with the number of operations bounded. *)
EXTENDS DatabaseManager

CONSTANT MaxCalls   \* operations in a behaviour, initSchema included

MCCall(t, o, k) == calls < MaxCalls /\ Call(t, o, k)

MCDBNext ==
  \/ \E t \in Callers :
       CallerStep(t) \/ StatementCut(t) \/ \E o \in Operations, k \in Keys : MCCall(t, o, k)
  \/ Outage \/ Restart \/ Memory \/ Destroy

MCDBSpec == DBInit /\ [][MCDBNext]_dbVars /\ \A t \in Callers : WF_dbVars(CallerStep(t))
=============================================================================
