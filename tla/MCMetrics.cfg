\* Two workers, a reader of /metrics, and GET_METRICS of either worker.
SPECIFICATION MCMSpec
CONSTANTS
  Workers = {w1, w2}
  Http = Http
  Latencies = {1, 5}
  Bounds <- TheBounds
  MaxRequests = 2
SYMMETRY WorkerSymmetry
INVARIANTS HistogramSkew RequestsSkew ReportsMonotone SumExact
CHECK_DEADLOCK FALSE
