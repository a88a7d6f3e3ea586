------------------------------ MODULE MCMetrics ------------------------------
(* Metrics with the number of requests bounded. *)
EXTENDS Metrics, TLC

CONSTANT MaxRequests

MCReceive(w) == metrics[requestsTotal] < MaxRequests /\ Receive(w)

\* Reports only read: one reader in a behaviour is enough, and a second report of
\* it after one that showed something.
MCStartReport(r) ==
  /\ \A q \in Reporters \ {r} : Complete(q) /\ report[q][requestsTotal] = 0
  /\ before[r][requestsTotal] = 0
  /\ StartReport(r)

MCMNext ==
  \/ \E w \in Workers : MCReceive(w) \/ WorkerStep(w)
  \/ \E r \in Reporters : MCStartReport(r) \/ ReadCounter(r)

MCMSpec == MInit /\ [][MCMNext]_mVars

TheBounds == <<3>>

WorkerSymmetry == Permutations(Workers)
=============================================================================
