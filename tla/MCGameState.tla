----------------------------- MODULE MCGameState -----------------------------
(* GameState on a small instance, with the counters that grow for ever bounded. *)
EXTENDS GameState, TLC

CONSTANTS
  MaxKills,       \* eliminations in a behaviour
  MaxEvents,      \* recordEvent calls in a behaviour
  MaxScore        \* largest score an attack may start from

MCNext ==
  /\ GSNext
  /\ m_totalKills' <= MaxKills
  /\ m_nextEventId' <= MaxEvents + 1
  /\ \A p \in DOMAIN m_players' : m_players'[p].score <= MaxScore

MCSpec == GSInit /\ [][MCNext]_gsVars

GameSymmetry == Permutations(Players) \cup Permutations(Threads)
=============================================================================
