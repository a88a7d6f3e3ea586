------------------------------- MODULE Metrics -------------------------------
(***************************************************************************)
(* class MetricsRegistry (server/src/Metrics.cpp): counters that every     *)
(* worker updates and reports that are read from them, all without a lock. *)
(*                                                                         *)
(* A request is counted, handled, counted again as a success or a failure  *)
(* and then timed, which updates count, sum and every bucket one by one.   *)
(* A report reads the counters one by one: the thread of HttpMetricsServer *)
(* reads toPrometheusText, a worker that handles GET_METRICS reads toJson. *)
(* Each atomic access is an action.  They are sequentially consistent, as  *)
(* on x86-64, where a locked instruction makes every relaxed update one.   *)
(*                                                                         *)
(* A definition named X_slip, just before X, is a plausible slip in the    *)
(* code X models; no specification uses it.                                *)
(***************************************************************************)
EXTENDS Integers, Sequences, FiniteSets

CONSTANTS
  Workers,
  Http,             \* the thread of HttpMetricsServer
  Latencies,        \* what a request may take
  Bounds            \* m_latencyBuckets

ASSUME MetricsAssumption ==
  /\ IsFiniteSet(Workers) /\ Http \notin Workers
  /\ Latencies \subseteq Nat
  /\ Bounds \in Seq(Nat)
  /\ \A i \in 1..(Len(Bounds) - 1) : Bounds[i] <= Bounds[i + 1]

Inf == Len(Bounds) + 1
Bucket(i) == <<"latencyBucketCounts", i>>
requestsTotal == <<"requestsTotal", 0>>
successful == <<"successfulRequests", 0>>
failed == <<"failedRequests", 0>>
latencyCount == <<"latencyCount", 0>>
latencySum == <<"latencySumSeconds", 0>>

\* The order in which the reports read.
PrometheusText ==
  <<requestsTotal, successful, failed>> \o [i \in 1..Inf |-> Bucket(i)]
    \o <<latencySum, latencyCount>>
Json == <<requestsTotal, latencyCount, latencySum, successful, failed>>

Counters == {Bucket(i) : i \in 1..Inf}
              \cup {requestsTotal, successful, failed, latencyCount, latencySum}
Reporters == Workers \cup {Http}
Order(r) == IF r = Http THEN PrometheusText ELSE Json

VARIABLES
  metrics,          \* the counters
  at,               \* at[w]: where worker w is with its request
  lat,              \* lat[w]: how long the request took
  cur,              \* cur[w]: currentSum in recordRequestLatency
  pos,              \* pos[w]: the bucket it looks at next
  reading,          \* reading[r]: the place of the counter r reads next
  report,           \* report[r]: what it has read
  before,           \* history: before[r]: the report r read before this one
  busy,             \* history: busy[r]: the workers that had a request in hand
                    \* at some time since r began its report
  spent             \* history: the sum of what the timed requests took

workerVars == <<at, lat, cur, pos>>
reportVars == <<reading, report, before, busy>>
mVars == <<metrics, workerVars, reportVars, spent>>

(***************************************************************************)
(* idle      no request                                                    *)
(* handling  counted in requestsTotal                                      *)
(* asked     in GET_METRICS, reading its report                            *)
(* timing    answered and counted as a success or a failure                *)
(* loading   counted in latencyCount                                       *)
(* adding    has loaded the sum                                            *)
(* buckets   has added to the sum                                          *)
(***************************************************************************)
Places == {"idle", "handling", "asked", "timing", "loading", "adding", "buckets"}

Add(c, n) == metrics' = [metrics EXCEPT ![c] = @ + n]
Goes(w, from, to) == at[w] = from /\ at' = [at EXCEPT ![w] = to]

-----------------------------------------------------------------------------
(* A request *)

Receive(w) ==
  /\ Goes(w, "idle", "handling")
  /\ Add(requestsTotal, 1)
  /\ busy' = [r \in Reporters |-> busy[r] \cup {w}]
  /\ UNCHANGED <<lat, cur, pos, reading, report, before, spent>>

Answer_uncounted(w, c) ==
  /\ Goes(w, "handling", "timing")
  /\ IF c = failed THEN UNCHANGED metrics ELSE Add(c, 1)
  /\ UNCHANGED <<lat, cur, pos, reportVars, spent>>

Answer(w, c) ==
  /\ Goes(w, "handling", "timing")
  /\ Add(c, 1)
  /\ UNCHANGED <<lat, cur, pos, reportVars, spent>>

CountLatency(w, l) ==
  /\ Goes(w, "timing", "loading")
  /\ lat' = [lat EXCEPT ![w] = l]
  /\ spent' = spent + l
  /\ Add(latencyCount, 1)
  /\ UNCHANGED <<cur, pos, reportVars>>

LoadSum(w) ==
  /\ Goes(w, "loading", "adding")
  /\ cur' = [cur EXCEPT ![w] = metrics[latencySum]]
  /\ UNCHANGED <<metrics, lat, pos, reportVars, spent>>

AddSum_store(w) ==
  /\ at[w] = "adding"
  /\ metrics' = [metrics EXCEPT ![latencySum] = cur[w] + lat[w]]
  /\ at' = [at EXCEPT ![w] = "buckets"]
  /\ pos' = [pos EXCEPT ![w] = 1]
  /\ UNCHANGED <<lat, cur, reportVars, spent>>

\* compare_exchange_weak: adds if the sum is still what was loaded; fails if it
\* is not, or for no reason, and loads it again.
AddSum(w) ==
  /\ at[w] = "adding"
  /\ \/ /\ metrics[latencySum] = cur[w]
        /\ metrics' = [metrics EXCEPT ![latencySum] = cur[w] + lat[w]]
        /\ at' = [at EXCEPT ![w] = "buckets"]
        /\ pos' = [pos EXCEPT ![w] = 1]
        /\ UNCHANGED cur
     \/ /\ cur' = [cur EXCEPT ![w] = metrics[latencySum]]
        /\ UNCHANGED <<metrics, at, pos>>
  /\ UNCHANGED <<lat, reportVars, spent>>

AddBucket_first(w) ==
  /\ at[w] = "buckets"
  /\ IF pos[w] = Inf \/ lat[w] <= Bounds[pos[w]]
       THEN /\ Add(Bucket(pos[w]), 1)
            /\ at' = [at EXCEPT ![w] = "idle"]
            /\ pos' = [pos EXCEPT ![w] = 0]
       ELSE /\ pos' = [pos EXCEPT ![w] = @ + 1]
            /\ UNCHANGED <<metrics, at>>
  /\ UNCHANGED <<lat, cur, reportVars, spent>>

\* The buckets from the first to +Inf; then the worker is free.
AddBucket(w) ==
  /\ at[w] = "buckets"
  /\ IF pos[w] = Inf \/ lat[w] <= Bounds[pos[w]]
       THEN Add(Bucket(pos[w]), 1)
       ELSE UNCHANGED metrics
  /\ IF pos[w] = Inf
       THEN /\ at' = [at EXCEPT ![w] = "idle"]
            /\ pos' = [pos EXCEPT ![w] = 0]
            /\ lat' = [lat EXCEPT ![w] = 0]
            /\ cur' = [cur EXCEPT ![w] = 0]
       ELSE /\ pos' = [pos EXCEPT ![w] = @ + 1]
            /\ UNCHANGED <<at, lat, cur>>
  /\ UNCHANGED <<reportVars, spent>>

-----------------------------------------------------------------------------
(* Reports *)

Complete(r) == reading[r] = Len(Order(r)) + 1
Active == {w \in Workers : at[w] # "idle"}

StartReport_reset(r) ==
  /\ Complete(r)
  /\ IF r = Http THEN UNCHANGED at ELSE Goes(r, "handling", "asked")
  /\ reading' = [reading EXCEPT ![r] = 1]
  /\ before' = [before EXCEPT ![r] = report[r]]
  /\ busy' = [busy EXCEPT ![r] = Active]
  /\ metrics' = [c \in Counters |-> 0]
  /\ UNCHANGED <<lat, cur, pos, report, spent>>

StartReport(r) ==
  /\ Complete(r)
  /\ IF r = Http THEN UNCHANGED at ELSE Goes(r, "handling", "asked")
  /\ reading' = [reading EXCEPT ![r] = 1]
  /\ before' = [before EXCEPT ![r] = report[r]]
  /\ busy' = [busy EXCEPT ![r] = Active]
  /\ UNCHANGED <<metrics, lat, cur, pos, report, spent>>

ReadCounter(r) ==
  /\ ~Complete(r)
  /\ LET c == Order(r)[reading[r]]
     IN  report' = [report EXCEPT ![r][c] = metrics[c]]
  /\ reading' = [reading EXCEPT ![r] = @ + 1]
  /\ UNCHANGED <<metrics, workerVars, before, busy, spent>>

\* The worker sends the report as its answer.
EndReport(w) ==
  /\ Complete(w) /\ Goes(w, "asked", "timing")
  /\ Add(successful, 1)
  /\ UNCHANGED <<lat, cur, pos, reportVars, spent>>

-----------------------------------------------------------------------------
MInit ==
  /\ metrics = [c \in Counters |-> 0]
  /\ at = [w \in Workers |-> "idle"]
  /\ lat = [w \in Workers |-> 0]
  /\ cur = [w \in Workers |-> 0]
  /\ pos = [w \in Workers |-> 0]
  /\ reading = [r \in Reporters |-> Len(Order(r)) + 1]
  /\ report = [r \in Reporters |-> [c \in Counters |-> 0]]
  /\ before = [r \in Reporters |-> [c \in Counters |-> 0]]
  /\ busy = [r \in Reporters |-> {}]
  /\ spent = 0

WorkerStep(w) ==
  \/ Answer(w, successful) \/ Answer(w, failed) \/ EndReport(w)
  \/ \E l \in Latencies : CountLatency(w, l)
  \/ LoadSum(w) \/ AddSum(w) \/ AddBucket(w)

MNext ==
  \/ \E w \in Workers : Receive(w) \/ WorkerStep(w)
  \/ \E r \in Reporters : StartReport(r) \/ ReadCounter(r)

MSpec == MInit /\ [][MNext]_mVars

-----------------------------------------------------------------------------
(* Properties *)

MTypeOK ==
  /\ metrics \in [Counters -> Nat]
  /\ at \in [Workers -> Places]
  /\ lat \in [Workers -> Nat] /\ cur \in [Workers -> Nat]
  /\ pos \in [Workers -> 0..Inf]
  /\ \A w \in Workers : at[w] = "buckets" <=> pos[w] # 0
  /\ reading \in [Reporters -> Nat \ {0}]
  /\ \A r \in Reporters : reading[r] <= Len(Order(r)) + 1
  /\ report \in [Reporters -> [Counters -> Nat]]
  /\ before \in [Reporters -> [Counters -> Nat]]
  /\ busy \in [Reporters -> SUBSET Workers]
  /\ spent \in Nat

Seen(r, c) == \E k \in 1..(reading[r] - 1) : Order(r)[k] = c
Skew(r) == Cardinality(busy[r])

\* "Update cumulative histogram buckets", "+Inf bucket (always counts all
\* requests)": a histogram read while workers write is torn, but each of its
\* buckets exceeds the next by no more than the workers that had a request in hand
\* while it was read, and +Inf never exceeds the count, which is read after it and
\* written before it.  With no such worker the histogram is cumulative.
HistogramSkew ==
  LET v == report[Http]
  IN  /\ \A i \in 1..Len(Bounds) : Seen(Http, Bucket(i + 1)) =>
           v[Bucket(i)] <= v[Bucket(i + 1)] + Skew(Http)
      /\ Seen(Http, latencyCount) => v[Bucket(Inf)] <= v[latencyCount]

\* The request counters of either report: no more requests are missing from the
\* outcomes, and no more outcomes from the histogram, than workers had a request
\* in hand; a JSON report never has more timed requests than outcomes.
RequestsSkew ==
  /\ \A r \in Reporters : LET v == report[r] IN
       Seen(r, failed) => v[requestsTotal] <= v[successful] + v[failed] + Skew(r)
  /\ LET v == report[Http] IN
       Seen(Http, Bucket(Inf)) => v[successful] + v[failed] <= v[Bucket(Inf)] + Skew(Http)
  /\ \A w \in Workers : LET v == report[w] IN
       Seen(w, failed) => v[latencyCount] <= v[successful] + v[failed]

\* The workers whose latency is not yet in the sum, and what they owe it, one
\* element for each unit.
Adders == {w \in Workers : at[w] \in {"loading", "adding"}}
Owed == UNION {{w} \X (1..lat[w]) : w \in Adders}

\* "Atomic double addition via compare-exchange": no update of the sum is lost in
\* the loops of concurrent workers; it lacks exactly what they still have to add.
SumExact == metrics[latencySum] + Cardinality(Owed) = spent

\* Prometheus takes a counter that goes down for a restart: no counter of a report
\* is below what the same reader saw in its report before.
ReportsMonotone ==
  \A r \in Reporters, c \in Counters :
    Seen(r, c) => before[r][c] <= report[r][c]
=============================================================================
