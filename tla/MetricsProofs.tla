---------------------------- MODULE MetricsProofs ----------------------------
(***************************************************************************)
(* What a report can show, proved for any number of workers and any list   *)
(* of bounds.  Live relates the counters themselves: they differ by the    *)
(* workers between two updates.  Val(r, c) is what report r has of c, or   *)
(* would get if it read c now: reading does not change it, so what Live    *)
(* says of the counters when the first of them is read carries over to the *)
(* whole report.                                                           *)
(***************************************************************************)
EXTENDS Metrics, FiniteSetTheorems, SequenceTheorems, TLAPS

-----------------------------------------------------------------------------
(* The counters and the order in which they are read *)

LEMMA Names ==
  /\ \A i \in Nat : Bucket(i) \notin {requestsTotal, successful, failed, latencyCount, latencySum}
  /\ \A i, j \in Nat : Bucket(i) = Bucket(j) => i = j
  /\ requestsTotal \notin {successful, failed, latencyCount, latencySum}
  /\ successful \notin {failed, latencyCount, latencySum}
  /\ failed \notin {latencyCount, latencySum}
  /\ latencyCount # latencySum
  BY DEF Bucket, requestsTotal, successful, failed, latencyCount, latencySum

LEMMA InfNat == Inf \in Nat \ {0} /\ Len(Bounds) \in Nat /\ Inf = Len(Bounds) + 1
  BY MetricsAssumption DEF Inf

LEMMA InCounters ==
  /\ \A i \in 1..Inf : Bucket(i) \in Counters
  /\ {requestsTotal, successful, failed, latencyCount, latencySum} \subseteq Counters
  BY DEF Counters

LEMMA Concat ==
  ASSUME NEW s \in Seq(Counters), NEW t \in Seq(Counters)
  PROVE  /\ s \o t \in Seq(Counters) /\ Len(s \o t) = Len(s) + Len(t)
         /\ \A i \in 1..Len(s) : (s \o t)[i] = s[i]
         /\ \A i \in 1..Len(t) : (s \o t)[Len(s) + i] = t[i]
<1> DEFINE c == s \o t
<1>1. /\ c \in Seq(Counters) /\ Len(c) = Len(s) + Len(t)
      /\ \A i \in 1..(Len(s) + Len(t)) : c[i] = IF i <= Len(s) THEN s[i] ELSE t[i - Len(s)]
  BY ConcatProperties
<1>2. Len(s) \in Nat /\ Len(t) \in Nat
  OBVIOUS
<1> HIDE DEF c
<1>3. \A i \in 1..Len(s) : c[i] = s[i]
  BY <1>1, <1>2
<1>4. \A i \in 1..Len(t) : c[Len(s) + i] = t[i]
  <2> TAKE i \in 1..Len(t)
  <2>1. Len(s) + i \in 1..(Len(s) + Len(t)) /\ ~(Len(s) + i <= Len(s)) /\ Len(s) + i - Len(s) = i
    BY <1>2
  <2> QED BY <2>1, <1>1
<1> QED BY <1>1, <1>3, <1>4 DEF c

\* Where each counter is in the two reports.
LEMMA TextOrder ==
  /\ PrometheusText \in Seq(Counters) /\ Len(PrometheusText) = Inf + 5
  /\ PrometheusText[1] = requestsTotal /\ PrometheusText[2] = successful
  /\ PrometheusText[3] = failed
  /\ \A i \in 1..Inf : PrometheusText[3 + i] = Bucket(i)
  /\ PrometheusText[Inf + 4] = latencySum /\ PrometheusText[Inf + 5] = latencyCount
<1> DEFINE A == <<requestsTotal, successful, failed>>
           B == [i \in 1..Inf |-> Bucket(i)]
           C == <<latencySum, latencyCount>>
<1>1. A \in Seq(Counters) /\ Len(A) = 3 /\ C \in Seq(Counters) /\ Len(C) = 2
  BY InCounters
<1>2. B \in Seq(Counters) /\ Len(B) = Inf
  BY InCounters, InfNat
<1>3. A[1] = requestsTotal /\ A[2] = successful /\ A[3] = failed
      /\ C[1] = latencySum /\ C[2] = latencyCount /\ \A i \in 1..Inf : B[i] = Bucket(i)
  OBVIOUS
<1>4. PrometheusText = (A \o B) \o C
  BY DEF PrometheusText
<1> HIDE DEF A, B, C
<1> DEFINE D == A \o B
<1>5. D \in Seq(Counters) /\ Len(D) = Len(A) + Len(B)
      /\ (\A i \in 1..Len(A) : D[i] = A[i]) /\ \A i \in 1..Len(B) : D[Len(A) + i] = B[i]
  <2>1. A \in Seq(Counters) /\ B \in Seq(Counters)
    BY <1>1, <1>2
  <2> QED BY <2>1, Concat
<1> HIDE DEF D
<1>6. D \in Seq(Counters) /\ Len(D) = Inf + 3
      /\ (\A i \in 1..3 : D[i] = A[i]) /\ \A i \in 1..Inf : D[3 + i] = B[i]
  <2>1. Len(A) = 3 /\ Len(B) = Inf /\ 3 + Inf = Inf + 3
    BY <1>1, <1>2, InfNat
  <2> QED BY <2>1, <1>5, Zenon
<1> DEFINE F == D \o C
<1>7. F \in Seq(Counters) /\ Len(F) = Len(D) + Len(C)
      /\ (\A i \in 1..Len(D) : F[i] = D[i]) /\ \A i \in 1..Len(C) : F[Len(D) + i] = C[i]
  <2>1. D \in Seq(Counters) /\ C \in Seq(Counters)
    BY <1>1, <1>6
  <2> QED BY <2>1, Concat
<1>a. PrometheusText = F
  BY <1>4, Zenon DEF D, F
<1> HIDE DEF F
<1>8. PrometheusText \in Seq(Counters) /\ Len(PrometheusText) = Inf + 5
      /\ (\A i \in 1..(Inf + 3) : PrometheusText[i] = D[i])
      /\ \A i \in 1..2 : PrometheusText[Inf + 3 + i] = C[i]
  <2>1. Len(C) = 2 /\ Len(D) = Inf + 3 /\ Inf + 3 + 2 = Inf + 5
    BY <1>1, <1>6, InfNat
  <2> QED BY <2>1, <1>7, <1>a, Zenon
<1>9. \A i \in 1..Inf : PrometheusText[3 + i] = Bucket(i)
  BY <1>8, <1>6, <1>3, InfNat
<1>10. PrometheusText[1] = requestsTotal /\ PrometheusText[2] = successful
       /\ PrometheusText[3] = failed
  BY <1>8, <1>6, <1>3, InfNat
<1>11. PrometheusText[Inf + 4] = latencySum /\ PrometheusText[Inf + 5] = latencyCount
  <2>1. PrometheusText[Inf + 3 + 1] = C[1] /\ PrometheusText[Inf + 3 + 2] = C[2]
    BY <1>8
  <2> QED BY <2>1, <1>3, InfNat
<1> QED BY <1>8, <1>9, <1>10, <1>11

LEMMA JsonOrder ==
  /\ Json \in Seq(Counters) /\ Len(Json) = 5
  /\ Json[1] = requestsTotal /\ Json[2] = latencyCount /\ Json[3] = latencySum
  /\ Json[4] = successful /\ Json[5] = failed
  BY InCounters DEF Json

LEMMA OrderOnce ==
  ASSUME NEW r \in Reporters
  PROVE  /\ Order(r) \in Seq(Counters) /\ Len(Order(r)) \in Nat
         /\ \A j, k \in 1..Len(Order(r)) : Order(r)[j] = Order(r)[k] => j = k
<1>1. CASE r = Http
  <2>1. Order(r) = PrometheusText
    BY <1>1 DEF Order
  <2>2. \A j \in 1..(Inf + 5) :
          j \in {1, 2, 3, Inf + 4, Inf + 5} \/ \E i \in 1..Inf : j = 3 + i
    <3> SUFFICES ASSUME NEW j \in 1..(Inf + 5), j \notin {1, 2, 3, Inf + 4, Inf + 5}
                 PROVE \E i \in 1..Inf : j = 3 + i
      OBVIOUS
    <3>1. j - 3 \in 1..Inf /\ j = 3 + (j - 3)
      BY InfNat
    <3> QED BY <3>1
  <2>3. ASSUME NEW j \in 1..(Inf + 5), NEW k \in 1..(Inf + 5),
               PrometheusText[j] = PrometheusText[k]
        PROVE  j = k
    <3>1. CASE j \in {1, 2, 3, Inf + 4, Inf + 5} /\ k \in {1, 2, 3, Inf + 4, Inf + 5}
      BY <3>1, <2>3, TextOrder, Names, InfNat
    <3>2. CASE j \in {1, 2, 3, Inf + 4, Inf + 5} /\ \E i \in 1..Inf : k = 3 + i
      BY <3>2, <2>3, TextOrder, Names, InfNat
    <3>3. CASE k \in {1, 2, 3, Inf + 4, Inf + 5} /\ \E i \in 1..Inf : j = 3 + i
      BY <3>3, <2>3, TextOrder, Names, InfNat
    <3>4. CASE (\E i \in 1..Inf : j = 3 + i) /\ \E i \in 1..Inf : k = 3 + i
      BY <3>4, <2>3, TextOrder, Names, InfNat
    <3> QED BY <3>1, <3>2, <3>3, <3>4, <2>2
  <2> QED BY <2>1, <2>3, TextOrder, InfNat
<1>2. CASE r # Http
  <2>1. Order(r) = Json
    BY <1>2 DEF Order
  <2>2. \A j \in 1..5 : j \in {1, 2, 3, 4, 5}
    OBVIOUS
  <2> QED BY <2>1, <2>2, JsonOrder, Names
<1> QED BY <1>1, <1>2

LEMMA SeenAt ==
  ASSUME NEW r \in Reporters, reading \in [Reporters -> Nat \ {0}],
         reading[r] <= Len(Order(r)) + 1,
         NEW p \in 1..Len(Order(r))
  PROVE  Seen(r, Order(r)[p]) <=> reading[r] > p
  BY OrderOnce DEF Seen

\* Who has read one counter has read the ones before it.
LEMMA ReadBefore ==
  ASSUME NEW r \in Reporters, MTypeOK
  PROVE  /\ Seen(r, successful) => Seen(r, requestsTotal)
         /\ Seen(r, failed) => Seen(r, successful)
         /\ r = Http =>
              /\ Seen(r, Bucket(Inf)) => Seen(r, failed)
              /\ \A i \in 1..Len(Bounds) : Seen(r, Bucket(i + 1)) => Seen(r, Bucket(i))
              /\ Seen(r, latencyCount) => Seen(r, Bucket(Inf))
         /\ r # Http => (Seen(r, successful) => Seen(r, latencyCount))
<1>1. reading \in [Reporters -> Nat \ {0}] /\ reading[r] <= Len(Order(r)) + 1
  BY DEF MTypeOK
<1>2. CASE r = Http
  <2>1. Order(r) = PrometheusText
    BY <1>2 DEF Order
  <2>2. \A p \in 1..(Inf + 5) : Seen(r, PrometheusText[p]) <=> reading[r] > p
    BY <1>1, <2>1, SeenAt, TextOrder
  <2>3. /\ Seen(r, requestsTotal) <=> reading[r] > 1
        /\ Seen(r, successful) <=> reading[r] > 2
        /\ Seen(r, failed) <=> reading[r] > 3
        /\ Seen(r, latencyCount) <=> reading[r] > Inf + 5
    <3>1. 1 \in 1..(Inf + 5) /\ 2 \in 1..(Inf + 5) /\ 3 \in 1..(Inf + 5)
          /\ (Inf + 5) \in 1..(Inf + 5)
      BY InfNat
    <3> QED BY <3>1, <2>2, TextOrder
  <2>4. \A i \in 1..Inf : Seen(r, Bucket(i)) <=> reading[r] > 3 + i
    <3> TAKE i \in 1..Inf
    <3>1. (3 + i) \in 1..(Inf + 5)
      BY InfNat
    <3> QED BY <3>1, <2>2, TextOrder
  <2>5. \A i \in 1..Len(Bounds) : i \in 1..Inf /\ i + 1 \in 1..Inf
    BY InfNat
  <2>6. Inf \in 1..Inf /\ reading[r] \in Nat
    BY InfNat, <1>1
  <2>7. Seen(r, Bucket(Inf)) <=> reading[r] > 3 + Inf
    BY <2>4, <2>6
  <2>8. \A i \in 1..Len(Bounds) : Seen(r, Bucket(i + 1)) => Seen(r, Bucket(i))
    <3> TAKE i \in 1..Len(Bounds)
    <3>1. (Seen(r, Bucket(i)) <=> reading[r] > 3 + i)
          /\ (Seen(r, Bucket(i + 1)) <=> reading[r] > 3 + (i + 1))
      BY <2>4, <2>5
    <3> QED BY <3>1, <2>6
  <2> QED BY <2>3, <2>6, <2>7, <2>8, <1>2, InfNat
<1>3. CASE r # Http
  <2>1. Order(r) = Json
    BY <1>3 DEF Order
  <2>2. \A p \in 1..5 : Seen(r, Json[p]) <=> reading[r] > p
    BY <1>1, <2>1, SeenAt, JsonOrder
  <2>3. /\ Seen(r, requestsTotal) <=> reading[r] > 1
        /\ Seen(r, latencyCount) <=> reading[r] > 2
        /\ Seen(r, successful) <=> reading[r] > 4
        /\ Seen(r, failed) <=> reading[r] > 5
    BY <2>2, JsonOrder
  <2> QED BY <2>3, <1>1, <1>3
<1> QED BY <1>2, <1>3

-----------------------------------------------------------------------------
(* Types *)

LEMMA MCases ==
  ASSUME [MNext]_mVars
  PROVE  \/ \E w \in Workers :
              \/ Receive(w) \/ Answer(w, successful) \/ Answer(w, failed) \/ EndReport(w)
              \/ \E l \in Latencies : CountLatency(w, l)
              \/ LoadSum(w) \/ AddSum(w) \/ AddBucket(w)
         \/ \E r \in Reporters : StartReport(r) \/ ReadCounter(r)
         \/ UNCHANGED mVars
  BY DEF MNext, WorkerStep

LEMMA Adds ==
  ASSUME metrics \in [Counters -> Nat], NEW c \in Counters, NEW n \in Nat, Add(c, n)
  PROVE  /\ metrics' \in [Counters -> Nat]
         /\ metrics'[c] = metrics[c] + n
         /\ \A d \in Counters : d # c => metrics'[d] = metrics[d]
  BY DEF Add

LEMMA MTypeStep ==
  ASSUME MTypeOK, [MNext]_mVars
  PROVE  MTypeOK'
<1> USE DEF MTypeOK, Places, Goes, workerVars, reportVars
<1>1. ASSUME NEW w \in Workers, Receive(w) PROVE MTypeOK'
  <2>1. metrics' \in [Counters -> Nat]
    BY <1>1, Adds, InCounters DEF Receive
  <2> QED BY <1>1, <2>1, InfNat DEF Receive
<1>2. ASSUME NEW w \in Workers, NEW c \in {successful, failed}, Answer(w, c) PROVE MTypeOK'
  <2>1. metrics' \in [Counters -> Nat]
    BY <1>2, Adds, InCounters DEF Answer
  <2> QED BY <1>2, <2>1, InfNat DEF Answer
<1>3. ASSUME NEW w \in Workers, EndReport(w) PROVE MTypeOK'
  <2>1. metrics' \in [Counters -> Nat]
    BY <1>3, Adds, InCounters DEF EndReport
  <2> QED BY <1>3, <2>1, InfNat DEF EndReport
<1>4. ASSUME NEW w \in Workers, NEW l \in Latencies, CountLatency(w, l) PROVE MTypeOK'
  <2>1. metrics' \in [Counters -> Nat]
    BY <1>4, Adds, InCounters DEF CountLatency
  <2>2. l \in Nat
    BY MetricsAssumption
  <2> QED BY <1>4, <2>1, <2>2, InfNat DEF CountLatency
<1>5. ASSUME NEW w \in Workers, LoadSum(w) PROVE MTypeOK'
  <2>1. metrics[latencySum] \in Nat
    BY InCounters
  <2> QED BY <1>5, <2>1, InfNat DEF LoadSum
<1>6. ASSUME NEW w \in Workers, AddSum(w) PROVE MTypeOK'
  <2>1. metrics[latencySum] \in Nat /\ cur[w] + lat[w] \in Nat
    BY InCounters
  <2>2. CASE at' = [at EXCEPT ![w] = "buckets"] /\ pos' = [pos EXCEPT ![w] = 1]
              /\ metrics' = [metrics EXCEPT ![latencySum] = cur[w] + lat[w]]
              /\ UNCHANGED cur
    <3>1. metrics' \in [Counters -> Nat]
      BY <2>1, <2>2
    <3>2. 1 \in 0..Inf
      BY InfNat
    <3> QED BY <1>6, <2>2, <3>1, <3>2 DEF AddSum
  <2>3. CASE UNCHANGED <<metrics, at, pos>> /\ cur' = [cur EXCEPT ![w] = metrics[latencySum]]
    BY <1>6, <2>1, <2>3 DEF AddSum
  <2> QED BY <1>6, <2>2, <2>3 DEF AddSum
<1>7. ASSUME NEW w \in Workers, AddBucket(w) PROVE MTypeOK'
  <2>1. at[w] = "buckets" /\ pos[w] \in 1..Inf
    BY <1>7, InfNat DEF AddBucket
  <2>2. metrics' \in [Counters -> Nat]
    <3>1. Bucket(pos[w]) \in Counters
      BY <2>1, InCounters
    <3>2. Add(Bucket(pos[w]), 1) => metrics' \in [Counters -> Nat]
      BY <3>1, Adds
    <3> QED BY <1>7, <3>2 DEF AddBucket
  <2>3. CASE pos[w] = Inf
    <3>1. at' = [at EXCEPT ![w] = "idle"] /\ pos' = [pos EXCEPT ![w] = 0]
          /\ lat' = [lat EXCEPT ![w] = 0] /\ cur' = [cur EXCEPT ![w] = 0]
          /\ UNCHANGED <<reportVars, spent>>
      BY <1>7, <2>3 DEF AddBucket
    <3> QED BY <3>1, <2>1, <2>2, InfNat
  <2>4. CASE pos[w] # Inf
    <3>1. pos' = [pos EXCEPT ![w] = pos[w] + 1] /\ UNCHANGED <<at, lat, cur, reportVars, spent>>
      BY <1>7, <2>4 DEF AddBucket
    <3>2. pos[w] + 1 \in 1..Inf
      BY <2>1, <2>4, InfNat
    <3> QED BY <3>1, <3>2, <2>1, <2>2
  <2> QED BY <2>3, <2>4
<1>8. ASSUME NEW r \in Reporters, StartReport(r) PROVE MTypeOK'
  <2>1. r # Http => r \in Workers
    BY DEF Reporters
  <2>2. Active \subseteq Workers
    BY DEF Active
  <2>3. at' \in [Workers -> Places] /\ \A w \in Workers : at'[w] = "buckets" <=> at[w] = "buckets"
    BY <1>8, <2>1 DEF StartReport
  <2>4. Len(Order(r)) \in Nat
    BY OrderOnce
  <2> QED BY <1>8, <2>2, <2>3, <2>4, InfNat DEF StartReport
<1>9. ASSUME NEW r \in Reporters, ReadCounter(r) PROVE MTypeOK'
  <2>1. reading[r] \in 1..Len(Order(r)) /\ Len(Order(r)) \in Nat
    BY <1>9, OrderOnce DEF ReadCounter, Complete
  <2>2. Order(r)[reading[r]] \in Counters
    BY <2>1, OrderOnce
  <2>3. report' \in [Reporters -> [Counters -> Nat]]
    BY <1>9, <2>2 DEF ReadCounter
  <2>4. reading' \in [Reporters -> Nat \ {0}]
        /\ \A q \in Reporters : reading'[q] <= Len(Order(q)) + 1
    BY <1>9, <2>1 DEF ReadCounter
  <2> QED BY <1>9, <2>3, <2>4 DEF ReadCounter
<1>10. CASE UNCHANGED mVars
  BY <1>10 DEF mVars
<1> QED BY <1>1, <1>2, <1>3, <1>4, <1>5, <1>6, <1>7, <1>8, <1>9, <1>10, MCases

-----------------------------------------------------------------------------
(* The counters between two updates *)

Count(S) == Cardinality({w \in Workers : at[w] \in S})

\* The workers that have counted their request in bucket i and not yet in the next.
Between(i) == {w \in Workers : at[w] = "buckets" /\ pos[w] = i + 1 /\ lat[w] <= Bounds[i]}

Live ==
  /\ metrics[requestsTotal] =
       metrics[successful] + metrics[failed] + Count({"handling", "asked"})
  /\ metrics[successful] + metrics[failed] = metrics[latencyCount] + Count({"timing"})
  /\ metrics[successful] + metrics[failed] =
       metrics[Bucket(Inf)] + Count({"timing", "loading", "adding", "buckets"})
  /\ metrics[latencyCount] = metrics[Bucket(Inf)] + Count({"loading", "adding", "buckets"})

Cumulative ==
  \A i \in 1..Len(Bounds) :
    metrics[Bucket(i)] <= metrics[Bucket(i + 1)] + Cardinality(Between(i))

LEMMA CountMoves ==
  ASSUME at \in [Workers -> Places], NEW w \in Workers, NEW q,
         at' = [at EXCEPT ![w] = q], NEW S
  PROVE  /\ Count(S) \in Nat /\ Count(S)' \in Nat
         /\ (at[w] \in S <=> q \in S) => Count(S)' = Count(S)
         /\ at[w] \in S /\ q \notin S => Count(S)' = Count(S) - 1
         /\ at[w] \notin S /\ q \in S => Count(S)' = Count(S) + 1
<1> DEFINE P == {v \in Workers : at[v] \in S}
           Q == {v \in Workers : at'[v] \in S}
<1>1. IsFiniteSet(P) /\ IsFiniteSet(Q)
  BY MetricsAssumption, FS_Subset
<1>2. Cardinality(P) \in Nat /\ Cardinality(Q) \in Nat
  BY <1>1, FS_CardinalityType
<1>3. (at[w] \in S <=> q \in S) => Q = P
  OBVIOUS
<1>4. at[w] \in S /\ q \notin S => Q = P \ {w} /\ w \in P
  OBVIOUS
<1>5. at[w] \notin S /\ q \in S => Q = P \cup {w} /\ w \notin P
  OBVIOUS
<1> HIDE DEF P, Q
<1>6. w \in P => Cardinality(P \ {w}) = Cardinality(P) - 1
  BY <1>1, FS_RemoveElement
<1>7. w \notin P => Cardinality(P \cup {w}) = Cardinality(P) + 1
  BY <1>1, FS_AddElement
<1>8. Count(S) = Cardinality(P) /\ Count(S)' = Cardinality(Q)
  BY DEF Count, P, Q
<1> QED BY <1>2, <1>3, <1>4, <1>5, <1>6, <1>7, <1>8

\* The four sets of places that Live counts, for a worker that goes from p to q.
LEMMA CountsMove ==
  ASSUME MTypeOK, NEW w \in Workers, NEW q \in Places, at' = [at EXCEPT ![w] = q]
  PROVE  \A S \in {{"handling", "asked"}, {"timing"}, {"loading", "adding", "buckets"},
                   {"timing", "loading", "adding", "buckets"}} :
           /\ Count(S) \in Nat /\ Count(S)' \in Nat
           /\ (at[w] \in S <=> q \in S) => Count(S)' = Count(S)
           /\ at[w] \in S /\ q \notin S => Count(S)' = Count(S) - 1
           /\ at[w] \notin S /\ q \in S => Count(S)' = Count(S) + 1
<1>1. at \in [Workers -> Places]
  BY DEF MTypeOK
<1> QED BY <1>1, CountMoves

LEMMA LiveStep ==
  ASSUME MTypeOK, Live, [MNext]_mVars
  PROVE  Live'
<1> DEFINE H == {"handling", "asked"}
           T == {"timing"}
           L == {"loading", "adding", "buckets"}
           A == {"timing", "loading", "adding", "buckets"}
<1>a. metrics \in [Counters -> Nat] /\ at \in [Workers -> Places]
  BY DEF MTypeOK
<1>b. /\ requestsTotal \in Counters /\ successful \in Counters /\ failed \in Counters
      /\ latencyCount \in Counters /\ latencySum \in Counters /\ Bucket(Inf) \in Counters
  BY InCounters, InfNat
<1>c. /\ Bucket(Inf) \notin {requestsTotal, successful, failed, latencyCount, latencySum}
      /\ requestsTotal \notin {successful, failed, latencyCount, latencySum}
      /\ successful \notin {failed, latencyCount, latencySum}
      /\ failed \notin {latencyCount, latencySum} /\ latencyCount # latencySum
  BY Names, InfNat
<1>d. /\ metrics[requestsTotal] = metrics[successful] + metrics[failed] + Count(H)
      /\ metrics[successful] + metrics[failed] = metrics[latencyCount] + Count(T)
      /\ metrics[successful] + metrics[failed] = metrics[Bucket(Inf)] + Count(A)
      /\ metrics[latencyCount] = metrics[Bucket(Inf)] + Count(L)
  BY DEF Live
<1>e. /\ metrics'[requestsTotal] = metrics'[successful] + metrics'[failed] + Count(H)'
      /\ metrics'[successful] + metrics'[failed] = metrics'[latencyCount] + Count(T)'
      /\ metrics'[successful] + metrics'[failed] = metrics'[Bucket(Inf)] + Count(A)'
      /\ metrics'[latencyCount] = metrics'[Bucket(Inf)] + Count(L)'
      => Live'
  BY Zenon DEF Live
<1> HIDE DEF H, T, L, A
<1>f. ASSUME NEW w \in Workers, NEW q \in Places, at' = [at EXCEPT ![w] = q]
      PROVE  \A S \in {H, T, L, A} :
           /\ Count(S) \in Nat /\ Count(S)' \in Nat
           /\ (at[w] \in S <=> q \in S) => Count(S)' = Count(S)
           /\ at[w] \in S /\ q \notin S => Count(S)' = Count(S) - 1
           /\ at[w] \notin S /\ q \in S => Count(S)' = Count(S) + 1
  BY <1>f, CountsMove DEF H, T, L, A
<1>g. ASSUME UNCHANGED at
      PROVE  Count(H)' = Count(H) /\ Count(T)' = Count(T) /\ Count(L)' = Count(L)
             /\ Count(A)' = Count(A)
  BY <1>g DEF Count
<1>1. ASSUME NEW w \in Workers, Receive(w) PROVE Live'
  <2>1. Add(requestsTotal, 1) /\ at[w] = "idle" /\ at' = [at EXCEPT ![w] = "handling"]
    BY <1>1 DEF Receive, Goes
  <2>2. Count(H)' = Count(H) + 1 /\ Count(T)' = Count(T) /\ Count(L)' = Count(L)
        /\ Count(A)' = Count(A) /\ Count(H) \in Nat
    BY <2>1, <1>f DEF Places, H, T, L, A
  <2>3. metrics'[requestsTotal] = metrics[requestsTotal] + 1
        /\ \A d \in Counters : d # requestsTotal => metrics'[d] = metrics[d]
    BY <2>1, <1>a, <1>b, Adds
  <2> QED BY <2>2, <2>3, <1>a, <1>b, <1>c, <1>d, <1>e
<1>2. ASSUME NEW w \in Workers, NEW c \in {successful, failed}, NEW p \in {"handling", "asked"},
             Add(c, 1), Goes(w, p, "timing")
      PROVE  Live'
  <2>1. at[w] = p /\ at' = [at EXCEPT ![w] = "timing"]
    BY <1>2 DEF Goes
  <2>2. Count(H)' = Count(H) - 1 /\ Count(T)' = Count(T) + 1 /\ Count(L)' = Count(L)
        /\ Count(A)' = Count(A) + 1 /\ Count(H) \in Nat /\ Count(T) \in Nat /\ Count(A) \in Nat
    BY <2>1, <1>f DEF Places, H, T, L, A
  <2>3. c \in Counters
    BY <1>b
  <2>4. metrics'[c] = metrics[c] + 1 /\ \A d \in Counters : d # c => metrics'[d] = metrics[d]
    BY <1>2, <2>3, <1>a, Adds
  <2>5. metrics'[successful] + metrics'[failed] = metrics[successful] + metrics[failed] + 1
    BY <2>4, <1>a, <1>b, <1>c
  <2>6. metrics'[requestsTotal] = metrics[requestsTotal]
        /\ metrics'[latencyCount] = metrics[latencyCount]
        /\ metrics'[Bucket(Inf)] = metrics[Bucket(Inf)]
    BY <2>4, <1>b, <1>c
  <2> QED BY <2>2, <2>5, <2>6, <1>a, <1>b, <1>d, <1>e
<1>3. ASSUME NEW w \in Workers, NEW l \in Latencies, CountLatency(w, l) PROVE Live'
  <2>1. Add(latencyCount, 1) /\ at[w] = "timing" /\ at' = [at EXCEPT ![w] = "loading"]
    BY <1>3 DEF CountLatency, Goes
  <2>2. Count(H)' = Count(H) /\ Count(T)' = Count(T) - 1 /\ Count(L)' = Count(L) + 1
        /\ Count(A)' = Count(A) /\ Count(T) \in Nat /\ Count(L) \in Nat
    BY <2>1, <1>f DEF Places, H, T, L, A
  <2>3. metrics'[latencyCount] = metrics[latencyCount] + 1
        /\ \A d \in Counters : d # latencyCount => metrics'[d] = metrics[d]
    BY <2>1, <1>a, <1>b, Adds
  <2> QED BY <2>2, <2>3, <1>a, <1>b, <1>c, <1>d, <1>e
<1>4. ASSUME NEW w \in Workers, LoadSum(w) \/ AddSum(w) PROVE Live'
  <2>1. \A d \in Counters : d # latencySum => metrics'[d] = metrics[d]
    BY <1>4, <1>a DEF LoadSum, AddSum
  <2>2. Count(H)' = Count(H) /\ Count(T)' = Count(T) /\ Count(L)' = Count(L) /\ Count(A)' = Count(A)
    <3>1. CASE UNCHANGED at
      BY <3>1, <1>g
    <3>2. ASSUME NEW q \in {"adding", "buckets"}, at[w] \in {"loading", "adding"},
                 at' = [at EXCEPT ![w] = q]
          PROVE  Count(H)' = Count(H) /\ Count(T)' = Count(T) /\ Count(L)' = Count(L)
                 /\ Count(A)' = Count(A)
      BY <3>2, <1>f DEF Places, H, T, L, A
    <3>3. UNCHANGED at \/ \E q \in {"adding", "buckets"} :
            at[w] \in {"loading", "adding"} /\ at' = [at EXCEPT ![w] = q]
      BY <1>4 DEF LoadSum, AddSum, Goes
    <3> QED BY <3>1, <3>2, <3>3
  <2> QED BY <2>1, <2>2, <1>b, <1>c, <1>d, <1>e
<1>5. ASSUME NEW w \in Workers, AddBucket(w) PROVE Live'
  <2>1. at[w] = "buckets" /\ pos[w] \in 1..Inf
    BY <1>5, InfNat DEF AddBucket, MTypeOK
  <2>2. Bucket(pos[w]) \in Counters
        /\ Bucket(pos[w]) \notin {requestsTotal, successful, failed, latencyCount, latencySum}
    BY <2>1, InCounters, Names, InfNat
  <2>3. CASE pos[w] = Inf
    <3>1. Add(Bucket(Inf), 1) /\ at' = [at EXCEPT ![w] = "idle"]
      BY <1>5, <2>3 DEF AddBucket
    <3>2. Count(H)' = Count(H) /\ Count(T)' = Count(T) /\ Count(L)' = Count(L) - 1
          /\ Count(A)' = Count(A) - 1 /\ Count(A) \in Nat /\ Count(L) \in Nat
      BY <3>1, <2>1, <1>f DEF Places, H, T, L, A
    <3>3. metrics'[Bucket(Inf)] = metrics[Bucket(Inf)] + 1
          /\ \A d \in Counters : d # Bucket(Inf) => metrics'[d] = metrics[d]
      BY <3>1, <1>a, <1>b, Adds
    <3> QED BY <3>2, <3>3, <1>a, <1>b, <1>c, <1>d, <1>e
  <2>4. CASE pos[w] # Inf
    <3>1. UNCHANGED at /\ (Add(Bucket(pos[w]), 1) \/ UNCHANGED metrics)
      BY <1>5, <2>4 DEF AddBucket
    <3>2. Bucket(pos[w]) # Bucket(Inf)
      BY <2>1, <2>4, Names, InfNat
    <3>3. \A d \in Counters : d # Bucket(pos[w]) => metrics'[d] = metrics[d]
      BY <3>1, <2>2, <1>a, Adds
    <3> QED BY <3>1, <3>2, <3>3, <2>2, <1>b, <1>c, <1>d, <1>e, <1>g
  <2> QED BY <2>3, <2>4
<1>6. ASSUME NEW r \in Reporters, StartReport(r) PROVE Live'
  <2>1. UNCHANGED metrics
    BY <1>6 DEF StartReport
  <2>2. Count(H)' = Count(H) /\ Count(T)' = Count(T) /\ Count(L)' = Count(L) /\ Count(A)' = Count(A)
    <3>1. CASE r = Http
      BY <3>1, <1>6, <1>g DEF StartReport
    <3>2. CASE r # Http
      <4>1. r \in Workers /\ at[r] = "handling" /\ at' = [at EXCEPT ![r] = "asked"]
        BY <3>2, <1>6 DEF StartReport, Goes, Reporters
      <4> QED BY <4>1, <1>f DEF Places, H, T, L, A
    <3> QED BY <3>1, <3>2
  <2> QED BY <2>1, <2>2, <1>d, <1>e
<1>7. CASE UNCHANGED <<metrics, at>>
  BY <1>7, <1>d, <1>e, <1>g
<1>8. ASSUME NEW w \in Workers, Answer(w, successful) \/ Answer(w, failed) \/ EndReport(w)
      PROVE Live'
  BY <1>8, <1>2 DEF Answer, EndReport
<1>9. ASSUME NEW r \in Reporters, ReadCounter(r) PROVE Live'
  BY <1>9, <1>7 DEF ReadCounter, workerVars
<1>10. CASE UNCHANGED mVars
  BY <1>10, <1>7 DEF mVars, workerVars
<1> QED BY <1>1, <1>3, <1>4, <1>5, <1>6, <1>8, <1>9, <1>10, MCases

\* The buckets are cumulative but for the workers between two of them.  A request
\* that counts in one bucket counts in the next, since the bounds are sorted.
LEMMA CumulativeStep ==
  ASSUME MTypeOK, Cumulative, [MNext]_mVars
  PROVE  Cumulative'
<1> SUFFICES ASSUME NEW i \in 1..Len(Bounds)
             PROVE  metrics'[Bucket(i)] <= metrics'[Bucket(i + 1)] + Cardinality(Between(i)')
  BY Zenon DEF Cumulative
<1>a. metrics \in [Counters -> Nat] /\ at \in [Workers -> Places] /\ lat \in [Workers -> Nat]
      /\ pos \in [Workers -> 0..Inf] /\ \A w \in Workers : at[w] = "buckets" <=> pos[w] # 0
  BY DEF MTypeOK
<1>b. i \in Nat /\ i + 1 \in Nat /\ i \in 1..Inf /\ i + 1 \in 1..Inf /\ i # Inf
  BY InfNat
<1>c. Bucket(i) \in Counters /\ Bucket(i + 1) \in Counters /\ Bucket(i) # Bucket(i + 1)
      /\ {Bucket(i), Bucket(i + 1)} \cap
         {requestsTotal, successful, failed, latencyCount, latencySum} = {}
  <2>1. Bucket(i) # Bucket(i + 1)
    BY <1>b, Names
  <2>2. Bucket(i) \in Counters /\ Bucket(i + 1) \in Counters
    BY <1>b, InCounters
  <2>3. Bucket(i) \notin {requestsTotal, successful, failed, latencyCount, latencySum}
        /\ Bucket(i + 1) \notin {requestsTotal, successful, failed, latencyCount, latencySum}
    BY <1>b, Names
  <2> QED BY <2>1, <2>2, <2>3
<1>d. metrics[Bucket(i)] <= metrics[Bucket(i + 1)] + Cardinality(Between(i))
      /\ metrics[Bucket(i)] \in Nat /\ metrics[Bucket(i + 1)] \in Nat
  BY <1>a, <1>c DEF Cumulative
<1>e. IsFiniteSet(Between(i)) /\ IsFiniteSet(Between(i)')
      /\ Cardinality(Between(i)) \in Nat /\ Cardinality(Between(i)') \in Nat
  <2>1. Between(i) \subseteq Workers /\ Between(i)' \subseteq Workers
    BY DEF Between
  <2> QED BY <2>1, MetricsAssumption, FS_Subset, FS_CardinalityType
<1>f. Bounds[i] \in Nat /\ (i + 1 = Inf \/ (Bounds[i + 1] \in Nat /\ Bounds[i] <= Bounds[i + 1]))
  <2>1. i + 1 # Inf => i \in 1..(Len(Bounds) - 1) /\ i + 1 \in 1..Len(Bounds)
    BY InfNat
  <2> QED BY <2>1, MetricsAssumption
<1>1. ASSUME metrics'[Bucket(i)] = metrics[Bucket(i)], Between(i)' = Between(i),
             metrics'[Bucket(i + 1)] = metrics[Bucket(i + 1)]
      PROVE  metrics'[Bucket(i)] <= metrics'[Bucket(i + 1)] + Cardinality(Between(i)')
  BY <1>1, <1>d
<1>2. ASSUME NEW w \in Workers, AddBucket(w)
      PROVE  metrics'[Bucket(i)] <= metrics'[Bucket(i + 1)] + Cardinality(Between(i)')
  <2>1. at[w] = "buckets" /\ pos[w] \in 1..Inf /\ lat[w] \in Nat
    BY <1>2, <1>a, InfNat DEF AddBucket
  <2>2. /\ pos' = [pos EXCEPT ![w] = IF pos[w] = Inf THEN 0 ELSE pos[w] + 1]
        /\ pos[w] # Inf => UNCHANGED <<at, lat>>
        /\ pos[w] = Inf => at' = [at EXCEPT ![w] = "idle"] /\ lat' = [lat EXCEPT ![w] = 0]
    BY <1>2 DEF AddBucket
  <2>3. IF pos[w] = Inf \/ lat[w] <= Bounds[pos[w]]
          THEN Add(Bucket(pos[w]), 1) ELSE UNCHANGED metrics
    BY <1>2 DEF AddBucket
  <2>4. Bucket(pos[w]) \in Counters /\ (Bucket(pos[w]) = Bucket(i) => pos[w] = i)
        /\ (Bucket(pos[w]) = Bucket(i + 1) => pos[w] = i + 1)
    <3>1. pos[w] \in Nat
      BY <2>1, InfNat
    <3> QED BY <3>1, <2>1, <1>b, InCounters, Names
  <2>5. Add(Bucket(pos[w]), 1) =>
          /\ metrics'[Bucket(pos[w])] = metrics[Bucket(pos[w])] + 1
          /\ \A d \in Counters : d # Bucket(pos[w]) => metrics'[d] = metrics[d]
    BY <2>4, <1>a, Adds
  <2>6. CASE pos[w] = i /\ lat[w] <= Bounds[i]
    <3>1. Between(i)' = Between(i) \cup {w} /\ w \notin Between(i)
      BY <2>1, <2>2, <2>6, <1>a, <1>b DEF Between
    <3>2. Cardinality(Between(i)') = Cardinality(Between(i)) + 1
      BY <3>1, <1>e, FS_AddElement
    <3>3. metrics'[Bucket(i)] = metrics[Bucket(i)] + 1
          /\ metrics'[Bucket(i + 1)] = metrics[Bucket(i + 1)]
      BY <2>3, <2>5, <2>6, <1>c
    <3> QED BY <3>2, <3>3, <1>d, <1>e
  <2>7. CASE pos[w] = i /\ ~(lat[w] <= Bounds[i])
    <3>1. Between(i)' = Between(i)
      BY <2>1, <2>2, <2>7, <1>a, <1>b DEF Between
    <3>2. UNCHANGED metrics
      BY <2>3, <2>7, <1>b
    <3> QED BY <3>1, <3>2, <1>1
  <2>8. CASE pos[w] = i + 1 /\ lat[w] <= Bounds[i]
    <3>1. Between(i)' = Between(i) \ {w} /\ w \in Between(i)
      BY <2>1, <2>2, <2>8, <1>a, <1>b, InfNat DEF Between
    <3>2. Cardinality(Between(i)') = Cardinality(Between(i)) - 1
      BY <3>1, <1>e, FS_RemoveElement
    <3>3. pos[w] = Inf \/ lat[w] <= Bounds[pos[w]]
      BY <2>1, <2>8, <1>f
    <3>4. metrics'[Bucket(i + 1)] = metrics[Bucket(i + 1)] + 1
          /\ metrics'[Bucket(i)] = metrics[Bucket(i)]
      BY <3>3, <2>3, <2>5, <2>8, <1>c
    <3> QED BY <3>2, <3>4, <1>d, <1>e
  <2>9. CASE pos[w] = i + 1 /\ ~(lat[w] <= Bounds[i])
    <3>1. Between(i)' = Between(i)
      BY <2>1, <2>2, <2>9, <1>a, <1>b, InfNat DEF Between
    <3>2. metrics'[Bucket(i)] = metrics[Bucket(i)]
          /\ (metrics'[Bucket(i + 1)] = metrics[Bucket(i + 1)] + 1
              \/ metrics'[Bucket(i + 1)] = metrics[Bucket(i + 1)])
      BY <2>3, <2>5, <2>9, <1>c
    <3> QED BY <3>1, <3>2, <1>d, <1>e
  <2>10. CASE pos[w] # i /\ pos[w] # i + 1
    <3>1. Between(i)' = Between(i)
      BY <2>1, <2>2, <2>10, <1>a, <1>b, InfNat DEF Between
    <3>2. metrics'[Bucket(i)] = metrics[Bucket(i)]
          /\ metrics'[Bucket(i + 1)] = metrics[Bucket(i + 1)]
      BY <2>3, <2>4, <2>5, <2>10, <1>c
    <3> QED BY <3>1, <3>2, <1>1
  <2> QED BY <2>6, <2>7, <2>8, <2>9, <2>10
<1>3. ASSUME NEW w \in Workers, at[w] # "buckets", UNCHANGED pos,
             NEW q \in Places \ {"buckets"}, at' = [at EXCEPT ![w] = q],
             \A v \in Workers \ {w} : lat'[v] = lat[v]
      PROVE  Between(i)' = Between(i)
  BY <1>3, <1>a DEF Between
<1>4. ASSUME NEW w \in Workers,
             \/ Receive(w) \/ Answer(w, successful) \/ Answer(w, failed) \/ EndReport(w)
             \/ \E l \in Latencies : CountLatency(w, l)
             \/ LoadSum(w)
      PROVE  /\ Between(i)' = Between(i) /\ metrics'[Bucket(i)] = metrics[Bucket(i)]
             /\ metrics'[Bucket(i + 1)] = metrics[Bucket(i + 1)]
  <2>1. \/ UNCHANGED metrics
        \/ \E c \in {requestsTotal, successful, failed, latencyCount} : Add(c, 1)
    BY <1>4 DEF Receive, Answer, EndReport, CountLatency, LoadSum
  <2>2. metrics'[Bucket(i)] = metrics[Bucket(i)]
        /\ metrics'[Bucket(i + 1)] = metrics[Bucket(i + 1)]
    BY <2>1, <1>a, <1>c DEF Add
  <2>3. at[w] # "buckets" /\ UNCHANGED pos
        /\ \E q \in Places \ {"buckets"} : at' = [at EXCEPT ![w] = q]
    BY <1>4 DEF Receive, Answer, EndReport, CountLatency, LoadSum, Goes, Places
  <2>4. \A v \in Workers \ {w} : lat'[v] = lat[v]
    BY <1>4, <1>a DEF Receive, Answer, EndReport, CountLatency, LoadSum
  <2> QED BY <2>2, <2>3, <2>4, <1>3
<1>5. ASSUME NEW w \in Workers, AddSum(w)
      PROVE  /\ Between(i)' = Between(i) /\ metrics'[Bucket(i)] = metrics[Bucket(i)]
             /\ metrics'[Bucket(i + 1)] = metrics[Bucket(i + 1)]
  <2>1. metrics'[Bucket(i)] = metrics[Bucket(i)]
        /\ metrics'[Bucket(i + 1)] = metrics[Bucket(i + 1)]
    BY <1>5, <1>a, <1>c DEF AddSum
  <2>2. Between(i)' = Between(i)
    <3>1. at[w] = "adding" /\ UNCHANGED lat
          /\ \/ UNCHANGED <<at, pos>>
             \/ at' = [at EXCEPT ![w] = "buckets"] /\ pos' = [pos EXCEPT ![w] = 1]
      BY <1>5 DEF AddSum
    <3> QED BY <3>1, <1>a, <1>b DEF Between
  <2> QED BY <2>1, <2>2
<1>6. ASSUME NEW r \in Reporters, StartReport(r)
      PROVE  Between(i)' = Between(i) /\ UNCHANGED metrics
  <2>1. UNCHANGED <<metrics, lat, pos>>
    BY <1>6 DEF StartReport
  <2>2. CASE r = Http
    BY <2>1, <2>2, <1>6 DEF StartReport, Between
  <2>3. CASE r # Http
    <3>1. r \in Workers /\ at[r] = "handling" /\ at' = [at EXCEPT ![r] = "asked"]
      BY <2>3, <1>6 DEF StartReport, Goes, Reporters
    <3> QED BY <3>1, <2>1, <1>a DEF Between
  <2> QED BY <2>2, <2>3
<1>7. ASSUME NEW r \in Reporters, ReadCounter(r)
      PROVE  Between(i)' = Between(i) /\ UNCHANGED metrics
  BY <1>7 DEF ReadCounter, workerVars, Between
<1>8. ASSUME UNCHANGED mVars
      PROVE  Between(i)' = Between(i) /\ UNCHANGED metrics
  BY <1>8 DEF mVars, workerVars, Between
<1> QED BY <1>1, <1>2, <1>4, <1>5, <1>6, <1>7, <1>8, MCases

-----------------------------------------------------------------------------
(* Counters only grow, and no report is ahead of them *)

ActiveBusy == \A r \in Reporters : Active \subseteq busy[r]
Behind == \A r \in Reporters, c \in Counters : report[r][c] <= metrics[c]

MInv == MTypeOK /\ Live /\ Cumulative /\ ActiveBusy /\ Behind

LEMMA Grows ==
  ASSUME MTypeOK, [MNext]_mVars, NEW c \in Counters
  PROVE  metrics[c] <= metrics'[c] /\ metrics[c] \in Nat /\ metrics'[c] \in Nat
<1>a. metrics \in [Counters -> Nat] /\ lat \in [Workers -> Nat] /\ pos \in [Workers -> 0..Inf]
      /\ (\A w \in Workers : at[w] = "buckets" <=> pos[w] # 0) /\ metrics' \in [Counters -> Nat]
  BY MTypeStep DEF MTypeOK
<1>1. ASSUME NEW d \in Counters, Add(d, 1) PROVE metrics[c] <= metrics'[c]
  BY <1>1, <1>a, Adds
<1>2. ASSUME NEW w \in Workers, AddSum(w) PROVE metrics[c] <= metrics'[c]
  <2>1. lat[w] \in Nat /\ metrics[latencySum] \in Nat
    BY <1>a, InCounters
  <2>2. CASE UNCHANGED metrics
    BY <2>2, <1>a
  <2>3. CASE metrics[latencySum] = cur[w]
             /\ metrics' = [metrics EXCEPT ![latencySum] = cur[w] + lat[w]]
    BY <2>1, <2>3, <1>a
  <2> QED BY <2>2, <2>3, <1>2 DEF AddSum
<1>3. ASSUME NEW w \in Workers, AddBucket(w) PROVE metrics[c] <= metrics'[c]
  <2>1. pos[w] \in 1..Inf
    BY <1>3, <1>a, InfNat DEF AddBucket
  <2>2. Bucket(pos[w]) \in Counters
    BY <2>1, InCounters
  <2> QED BY <2>2, <1>1, <1>3, <1>a DEF AddBucket
<1>4. ASSUME UNCHANGED metrics PROVE metrics[c] <= metrics'[c]
  BY <1>4, <1>a
<1>5. ASSUME NEW w \in Workers,
             \/ Receive(w) \/ Answer(w, successful) \/ Answer(w, failed) \/ EndReport(w)
             \/ \E l \in Latencies : CountLatency(w, l)
      PROVE  metrics[c] <= metrics'[c]
  BY <1>5, <1>1, InCounters DEF Receive, Answer, EndReport, CountLatency
<1>6. metrics[c] <= metrics'[c]
  BY <1>2, <1>3, <1>4, <1>5, MCases DEF LoadSum, StartReport, ReadCounter, mVars
<1> QED BY <1>6, <1>a

LEMMA BusyStep ==
  ASSUME MTypeOK, ActiveBusy, [MNext]_mVars
  PROVE  ActiveBusy'
<1> USE DEF ActiveBusy, Active, Goes
<1>a. at \in [Workers -> Places] /\ busy \in [Reporters -> SUBSET Workers]
  BY DEF MTypeOK
<1>1. ASSUME NEW w \in Workers, Receive(w) PROVE ActiveBusy'
  BY <1>1, <1>a DEF Receive
<1>2. ASSUME NEW w \in Workers,
             \/ Answer(w, successful) \/ Answer(w, failed) \/ EndReport(w)
             \/ \E l \in Latencies : CountLatency(w, l)
             \/ LoadSum(w) \/ AddSum(w) \/ AddBucket(w)
      PROVE  ActiveBusy'
  <2>1. UNCHANGED busy
    BY <1>2 DEF Answer, EndReport, CountLatency, LoadSum, AddSum, AddBucket, reportVars
  <2>2. at[w] # "idle" /\ \A v \in Workers \ {w} : at'[v] = at[v]
    BY <1>2, <1>a DEF Answer, EndReport, CountLatency, LoadSum, AddSum, AddBucket
  <2>3. Active' \subseteq Active
    BY <2>2
  <2> QED BY <2>1, <2>3
<1>3. ASSUME NEW r \in Reporters, StartReport(r) PROVE ActiveBusy'
  <2>1. busy' = [busy EXCEPT ![r] = Active]
    BY <1>3 DEF StartReport
  <2>2. Active' = Active
    <3>1. CASE r = Http
      BY <3>1, <1>3 DEF StartReport
    <3>2. CASE r # Http
      BY <3>2, <1>3, <1>a DEF StartReport, Reporters
    <3> QED BY <3>1, <3>2
  <2> HIDE DEF Active
  <2> QED BY <2>1, <2>2, <1>a
<1>4. CASE UNCHANGED <<at, busy>>
  BY <1>4
<1> QED BY <1>1, <1>2, <1>3, <1>4, MCases DEF ReadCounter, workerVars, mVars, reportVars

LEMMA BehindStep ==
  ASSUME MTypeOK, Behind, [MNext]_mVars
  PROVE  Behind'
<1> SUFFICES ASSUME NEW r \in Reporters, NEW c \in Counters
             PROVE  report'[r][c] <= metrics'[c]
  BY DEF Behind
<1>1. report \in [Reporters -> [Counters -> Nat]] /\ metrics \in [Counters -> Nat]
      /\ metrics' \in [Counters -> Nat] /\ report' \in [Reporters -> [Counters -> Nat]]
  BY MTypeStep DEF MTypeOK
<1>2. metrics[c] <= metrics'[c] /\ report[r][c] <= metrics[c]
  BY Grows DEF Behind
<1>3. \/ report'[r][c] = report[r][c]
      \/ report'[r][c] = metrics[c]
  <2>1. ASSUME NEW q \in Reporters, ReadCounter(q)
        PROVE  report'[r][c] = report[r][c] \/ report'[r][c] = metrics[c]
    BY <2>1, <1>1 DEF ReadCounter
  <2> QED BY <2>1, MCases DEF Receive, Answer, EndReport, CountLatency, LoadSum, AddSum,
             AddBucket, StartReport, mVars, reportVars
<1>4. report[r][c] \in Nat /\ metrics[c] \in Nat /\ metrics'[c] \in Nat
  BY <1>1
<1> QED BY <1>2, <1>3, <1>4

LEMMA MInvCorrect == MSpec => []MInv
<1>1. MInit => MTypeOK /\ Live /\ Cumulative /\ ActiveBusy /\ Behind
  <2> SUFFICES ASSUME MInit PROVE MTypeOK /\ Live /\ Cumulative /\ ActiveBusy /\ Behind
    OBVIOUS
  <2>1. MTypeOK
    <3>1. \A r \in Reporters : Len(Order(r)) + 1 \in Nat \ {0}
      BY OrderOnce
    <3> QED BY <3>1, InfNat DEF MInit, MTypeOK, Places
  <2>2. metrics \in [Counters -> Nat] /\ (\A c \in Counters : metrics[c] = 0)
        /\ \A w \in Workers : at[w] = "idle"
    BY DEF MInit
  <2>3. \A S : "idle" \notin S => Count(S) = 0
    <3> SUFFICES ASSUME NEW S, "idle" \notin S PROVE Count(S) = 0
      OBVIOUS
    <3>1. {w \in Workers : at[w] \in S} = {}
      BY <2>2
    <3> QED BY <3>1, FS_EmptySet DEF Count
  <2>4. Live
    <3>1. Count({"handling", "asked"}) = 0 /\ Count({"timing"}) = 0
          /\ Count({"timing", "loading", "adding", "buckets"}) = 0
          /\ Count({"loading", "adding", "buckets"}) = 0
      BY <2>3
    <3>2. Bucket(Inf) \in Counters
      BY InCounters, InfNat
    <3> QED BY <3>1, <3>2, <2>2, InCounters DEF Live
  <2>5. Cumulative
    <3> SUFFICES ASSUME NEW i \in 1..Len(Bounds)
                 PROVE  metrics[Bucket(i)] <= metrics[Bucket(i + 1)] + Cardinality(Between(i))
      BY DEF Cumulative
    <3>1. i \in 1..Inf /\ i + 1 \in 1..Inf
      BY InfNat
    <3>2. Between(i) = {}
      BY <2>2 DEF Between
    <3> QED BY <3>1, <3>2, <2>2, InCounters, FS_EmptySet
  <2>6. ActiveBusy
    BY <2>2 DEF ActiveBusy, Active
  <2>7. Behind
    BY DEF MInit, Behind
  <2> QED BY <2>1, <2>4, <2>5, <2>6, <2>7
<1>2. MInv /\ [MNext]_mVars => MInv'
  BY MTypeStep, LiveStep, CumulativeStep, BusyStep, BehindStep DEF MInv
<1>3. MInit => MInv
  BY <1>1 DEF MInv
<1> QED BY <1>2, <1>3, PTL DEF MSpec

-----------------------------------------------------------------------------
(* A report while it is read *)

Val(r, c) == IF Seen(r, c) THEN report[r][c] ELSE metrics[c]

Torn(r) ==
  /\ \A c \in Counters : before[r][c] <= Val(r, c)
  /\ Val(r, requestsTotal) <= Val(r, successful) + Val(r, failed) + Skew(r)
  /\ r = Http =>
       /\ \A i \in 1..Len(Bounds) : Val(r, Bucket(i)) <= Val(r, Bucket(i + 1)) + Skew(r)
       /\ Val(r, Bucket(Inf)) <= Val(r, latencyCount)
       /\ Val(r, successful) + Val(r, failed) <= Val(r, Bucket(Inf)) + Skew(r)
  /\ r # Http => Val(r, latencyCount) <= Val(r, successful) + Val(r, failed)

LEMMA SkewNat ==
  ASSUME MTypeOK, NEW r \in Reporters
  PROVE  IsFiniteSet(busy[r]) /\ Skew(r) \in Nat
<1>1. busy[r] \subseteq Workers
  BY DEF MTypeOK
<1> QED BY <1>1, MetricsAssumption, FS_Subset, FS_CardinalityType DEF Skew

\* What Live says, with the workers that are busy in place of those between two
\* updates.
LEMMA LiveBounds ==
  ASSUME MInv, NEW r \in Reporters
  PROVE  /\ metrics[requestsTotal] <= metrics[successful] + metrics[failed] + Skew(r)
         /\ metrics[successful] + metrics[failed] <= metrics[Bucket(Inf)] + Skew(r)
         /\ metrics[Bucket(Inf)] <= metrics[latencyCount]
         /\ metrics[latencyCount] <= metrics[successful] + metrics[failed]
         /\ \A i \in 1..Len(Bounds) : metrics[Bucket(i)] <= metrics[Bucket(i + 1)] + Skew(r)
<1>1. MTypeOK /\ Live /\ Cumulative /\ Active \subseteq busy[r]
  BY DEF MInv, ActiveBusy
<1>2. IsFiniteSet(busy[r]) /\ Skew(r) \in Nat
  BY <1>1, SkewNat
<1>3. ASSUME NEW P, P \subseteq Active
      PROVE  Cardinality(P) \in Nat /\ Cardinality(P) <= Skew(r)
  <2>1. P \subseteq busy[r]
    BY <1>1, <1>3
  <2> QED BY <2>1, <1>2, FS_Subset, FS_CardinalityType DEF Skew
<1>4. ASSUME NEW S, "idle" \notin S
      PROVE  Count(S) \in Nat /\ Count(S) <= Skew(r)
  <2>1. {w \in Workers : at[w] \in S} \subseteq Active
    BY <1>4 DEF Active
  <2> QED BY <2>1, <1>3 DEF Count
<1>5. /\ Count({"handling", "asked"}) \in Nat /\ Count({"handling", "asked"}) <= Skew(r)
      /\ Count({"timing", "loading", "adding", "buckets"}) \in Nat
      /\ Count({"timing", "loading", "adding", "buckets"}) <= Skew(r)
      /\ Count({"timing"}) \in Nat /\ Count({"loading", "adding", "buckets"}) \in Nat
  BY <1>4
<1>6. \A c \in Counters : metrics[c] \in Nat
  BY <1>1 DEF MTypeOK
<1>7. /\ metrics[requestsTotal] \in Nat /\ metrics[successful] \in Nat /\ metrics[failed] \in Nat
      /\ metrics[latencyCount] \in Nat /\ metrics[Bucket(Inf)] \in Nat
  BY <1>6, InCounters, InfNat
<1>8. ASSUME NEW i \in 1..Len(Bounds)
      PROVE  metrics[Bucket(i)] <= metrics[Bucket(i + 1)] + Skew(r)
  <2>1. Between(i) \subseteq Active
    BY DEF Between, Active
  <2>2. i \in 1..Inf /\ i + 1 \in 1..Inf
    BY InfNat
  <2>3. metrics[Bucket(i)] \in Nat /\ metrics[Bucket(i + 1)] \in Nat
    BY <2>2, <1>6, InCounters
  <2>4. metrics[Bucket(i)] <= metrics[Bucket(i + 1)] + Cardinality(Between(i))
    BY <1>1 DEF Cumulative
  <2> QED BY <2>1, <2>3, <2>4, <1>2, <1>3
<1>9. /\ metrics[requestsTotal] <= metrics[successful] + metrics[failed] + Skew(r)
      /\ metrics[successful] + metrics[failed] <= metrics[Bucket(Inf)] + Skew(r)
      /\ metrics[Bucket(Inf)] <= metrics[latencyCount]
      /\ metrics[latencyCount] <= metrics[successful] + metrics[failed]
  BY <1>1, <1>2, <1>5, <1>7 DEF Live
<1> QED BY <1>8, <1>9

\* A report starts again, or it reads, which changes no value, or it does not, and
\* the values it has read stay while the others and the skew may grow.
LEMMA Drift ==
  ASSUME MTypeOK, [MNext]_mVars, NEW r \in Reporters
  PROVE  \/ StartReport(r)
         \/ /\ \A c \in Counters : Val(r, c)' = Val(r, c)
            /\ UNCHANGED <<before[r], Skew(r)>>
         \/ /\ \A c \in Counters : (Seen(r, c)' <=> Seen(r, c)) /\ report'[r][c] = report[r][c]
            /\ before'[r] = before[r] /\ Skew(r) <= Skew(r)'
<1>a. busy \in [Reporters -> SUBSET Workers] /\ reading \in [Reporters -> Nat \ {0}]
      /\ report \in [Reporters -> [Counters -> Nat]] /\ reading[r] <= Len(Order(r)) + 1
      /\ before \in [Reporters -> [Counters -> Nat]]
  BY DEF MTypeOK
<1>b. IsFiniteSet(busy[r]) /\ Skew(r) \in Nat
  BY SkewNat
<1>1. ASSUME UNCHANGED reportVars
      PROVE  /\ \A c \in Counters : (Seen(r, c)' <=> Seen(r, c)) /\ report'[r][c] = report[r][c]
             /\ before'[r] = before[r] /\ Skew(r) <= Skew(r)'
  BY <1>1, <1>b DEF reportVars, Seen, Skew
<1>2. ASSUME NEW w \in Workers, Receive(w)
      PROVE  /\ \A c \in Counters : (Seen(r, c)' <=> Seen(r, c)) /\ report'[r][c] = report[r][c]
             /\ before'[r] = before[r] /\ Skew(r) <= Skew(r)'
  <2>1. UNCHANGED <<reading, report, before>> /\ busy'[r] = busy[r] \cup {w}
    BY <1>2 DEF Receive
  <2>2. IsFiniteSet(busy[r] \cup {w})
    BY <1>b, FS_AddElement
  <2>3. Cardinality(busy[r]) <= Cardinality(busy[r] \cup {w})
    BY <2>2, FS_Subset
  <2> QED BY <2>1, <2>3 DEF Seen, Skew
<1>3. ASSUME NEW q \in Reporters, q # r, StartReport(q) \/ ReadCounter(q)
      PROVE  /\ \A c \in Counters : (Seen(r, c)' <=> Seen(r, c)) /\ report'[r][c] = report[r][c]
             /\ before'[r] = before[r] /\ Skew(r) <= Skew(r)'
  <2>1. reading'[r] = reading[r] /\ report'[r] = report[r] /\ before'[r] = before[r]
        /\ busy'[r] = busy[r]
    BY <1>3, <1>a DEF StartReport, ReadCounter
  <2> QED BY <2>1, <1>b DEF Seen, Skew
<1>4. ASSUME ReadCounter(r)
      PROVE  /\ \A c \in Counters : Val(r, c)' = Val(r, c)
             /\ UNCHANGED <<before[r], Skew(r)>>
  <2> DEFINE p == reading[r]
             d == Order(r)[p]
  <2>1. p \in 1..Len(Order(r)) /\ reading'[r] = p + 1 /\ UNCHANGED <<metrics, before, busy>>
    BY <1>4, <1>a, OrderOnce DEF ReadCounter, Complete
  <2>2. report' = [report EXCEPT ![r][d] = metrics[d]]
    BY <1>4 DEF ReadCounter
  <2>3. ~Seen(r, d) /\ d \in Counters
    <3>1. Seen(r, Order(r)[p]) <=> reading[r] > p
      BY <2>1, <1>a, SeenAt
    <3>2. ~(reading[r] > p) /\ d \in Counters
      BY <2>1, <1>a, OrderOnce
    <3> QED BY <3>1, <3>2
  <2>4. ASSUME NEW c \in Counters PROVE Seen(r, c)' <=> Seen(r, c) \/ c = d
    <3>1. Seen(r, c)' <=> \E k \in 1..p : Order(r)[k] = c
      BY <2>1 DEF Seen
    <3>2. Seen(r, c) <=> \E k \in 1..(p - 1) : Order(r)[k] = c
      BY DEF Seen
    <3>3. \A k : k \in 1..p <=> k \in 1..(p - 1) \/ k = p
      BY <2>1, OrderOnce
    <3> QED BY <3>1, <3>2, <3>3
  <2> HIDE DEF d
  <2>5. ASSUME NEW c \in Counters PROVE Val(r, c)' = Val(r, c)
    <3>1. CASE c = d
      BY <3>1, <2>1, <2>2, <2>3, <2>4, <1>a DEF Val
    <3>2. CASE c # d
      BY <3>2, <2>1, <2>2, <2>4, <1>a DEF Val
    <3> QED BY <3>1, <3>2
  <2> QED BY <2>1, <2>5 DEF Skew
<1>5. ASSUME NEW w \in Workers,
             \/ Answer(w, successful) \/ Answer(w, failed) \/ EndReport(w)
             \/ \E l \in Latencies : CountLatency(w, l)
             \/ LoadSum(w) \/ AddSum(w) \/ AddBucket(w)
      PROVE  UNCHANGED reportVars
  BY <1>5 DEF Answer, EndReport, CountLatency, LoadSum, AddSum, AddBucket
<1>6. ASSUME UNCHANGED mVars PROVE UNCHANGED reportVars
  BY <1>6 DEF mVars
<1> QED BY <1>1, <1>2, <1>3, <1>4, <1>5, <1>6, MCases

LEMMA ValType ==
  ASSUME MInv, NEW r \in Reporters, NEW c \in Counters
  PROVE  Val(r, c) \in Nat /\ metrics[c] \in Nat /\ Val(r, c) <= metrics[c]
         /\ before[r][c] \in Nat /\ report[r][c] \in Nat
<1>1. report[r][c] \in Nat /\ metrics[c] \in Nat /\ before[r][c] \in Nat
  BY DEF MInv, MTypeOK
<1>2. report[r][c] <= metrics[c]
  BY DEF MInv, Behind
<1> QED BY <1>1, <1>2 DEF Val

\* The three lemmas above in one.
Sound(r) ==
  /\ \A c \in Counters : /\ Val(r, c) \in Nat /\ metrics[c] \in Nat /\ Val(r, c) <= metrics[c]
                         /\ before[r][c] \in Nat /\ report[r][c] \in Nat
  /\ metrics[requestsTotal] <= metrics[successful] + metrics[failed] + Skew(r)
  /\ metrics[successful] + metrics[failed] <= metrics[Bucket(Inf)] + Skew(r)
  /\ metrics[Bucket(Inf)] <= metrics[latencyCount]
  /\ metrics[latencyCount] <= metrics[successful] + metrics[failed]
  /\ \A i \in 1..Len(Bounds) : metrics[Bucket(i)] <= metrics[Bucket(i + 1)] + Skew(r)
  /\ Skew(r) \in Nat

LEMMA AllSound == MInv => \A r \in Reporters : Sound(r)
<1> SUFFICES ASSUME MInv, NEW r \in Reporters PROVE Sound(r)
  OBVIOUS
<1>1. Skew(r) \in Nat
  BY SkewNat DEF MInv
<1> QED BY <1>1, ValType, LiveBounds DEF Sound

LEMMA TornStep ==
  ASSUME MInv, [MNext]_mVars, NEW r \in Reporters, Sound(r)', Torn(r)
  PROVE  Torn(r)'
<1>a. MTypeOK
  BY DEF MInv
<1>b. /\ requestsTotal \in Counters /\ successful \in Counters /\ failed \in Counters
      /\ latencyCount \in Counters /\ \A i \in 1..Inf : Bucket(i) \in Counters
  BY InCounters
<1>c. Inf \in 1..Inf /\ \A i \in 1..Len(Bounds) : i \in 1..Inf /\ i + 1 \in 1..Inf
  BY InfNat
<1>d. \A c \in Counters :
        /\ Val(r, c) \in Nat /\ metrics[c] \in Nat /\ Val(r, c) <= metrics[c]
        /\ before[r][c] \in Nat /\ report[r][c] \in Nat
  BY ValType
<1>e. \A c \in Counters :
        /\ Val(r, c)' \in Nat /\ metrics'[c] \in Nat /\ Val(r, c)' <= metrics'[c]
        /\ before'[r][c] \in Nat /\ report'[r][c] \in Nat
  BY DEF Sound
<1>f. /\ metrics'[requestsTotal] <= metrics'[successful] + metrics'[failed] + Skew(r)'
      /\ metrics'[successful] + metrics'[failed] <= metrics'[Bucket(Inf)] + Skew(r)'
      /\ metrics'[Bucket(Inf)] <= metrics'[latencyCount]
      /\ metrics'[latencyCount] <= metrics'[successful] + metrics'[failed]
      /\ \A i \in 1..Len(Bounds) : metrics'[Bucket(i)] <= metrics'[Bucket(i + 1)] + Skew(r)'
  BY DEF Sound
<1>g. Skew(r) \in Nat /\ Skew(r)' \in Nat
  BY <1>a, SkewNat DEF Sound
<1>1. CASE StartReport(r)
  <2>1. \A c \in Counters : ~Seen(r, c)' /\ before'[r][c] = report[r][c] /\ metrics'[c] = metrics[c]
    <3>1. reading'[r] = 1 /\ before'[r] = report[r] /\ metrics' = metrics
      BY <1>1, <1>a DEF StartReport, MTypeOK
    <3> QED BY <3>1 DEF Seen
  <2>2. \A c \in Counters : Val(r, c)' = metrics'[c]
    BY <2>1 DEF Val
  <2>3. \A c \in Counters : before'[r][c] <= Val(r, c)'
    BY <2>1, <2>2 DEF MInv, Behind
  <2> QED BY <2>2, <2>3, <1>b, <1>c, <1>f, Zenon DEF Torn
<1>2. CASE (\A c \in Counters : Val(r, c)' = Val(r, c)) /\ UNCHANGED <<before[r], Skew(r)>>
  BY <1>2, <1>b, <1>c DEF Torn
<1>3. CASE /\ \A c \in Counters : (Seen(r, c)' <=> Seen(r, c)) /\ report'[r][c] = report[r][c]
           /\ before'[r] = before[r] /\ Skew(r) <= Skew(r)'
  <2>1. \A c \in Counters : IF Seen(r, c) THEN Val(r, c)' = Val(r, c)
                                          ELSE Val(r, c)' = metrics'[c] /\ Val(r, c) = metrics[c]
    BY <1>3 DEF Val
  <2>2. \A c \in Counters : Val(r, c) <= Val(r, c)'
    <3> TAKE c \in Counters
    <3>1. metrics[c] <= metrics'[c]
      BY Grows, <1>a
    <3> QED BY <3>1, <2>1, <1>d
  <2>3. \A c \in Counters : before'[r][c] <= Val(r, c)'
    <3> TAKE c \in Counters
    <3>1. before[r][c] <= Val(r, c)
      BY DEF Torn
    <3> QED BY <3>1, <2>2, <1>3, <1>d, <1>e
  <2>4. Val(r, requestsTotal)' <= Val(r, successful)' + Val(r, failed)' + Skew(r)'
    <3>1. CASE Seen(r, requestsTotal)
      <4>1. Val(r, requestsTotal) <= Val(r, successful) + Val(r, failed) + Skew(r)
        BY DEF Torn
      <4>2. Val(r, requestsTotal)' = Val(r, requestsTotal)
        BY <3>1, <2>1, <1>b
      <4>3. Val(r, successful) <= Val(r, successful)' /\ Val(r, failed) <= Val(r, failed)'
        BY <2>2, <1>b
      <4> QED BY <4>1, <4>2, <4>3, <1>3, <1>b, <1>d, <1>e, <1>g
    <3>2. CASE ~Seen(r, requestsTotal)
      <4>1. ~Seen(r, successful) /\ ~Seen(r, failed)
        BY <3>2, <1>a, ReadBefore
      <4>2. Val(r, requestsTotal)' = metrics'[requestsTotal]
            /\ Val(r, successful)' = metrics'[successful] /\ Val(r, failed)' = metrics'[failed]
        BY <3>2, <4>1, <2>1, <1>b
      <4> QED BY <4>2, <1>f
    <3> QED BY <3>1, <3>2
  <2>5. ASSUME r = Http, NEW i \in 1..Len(Bounds)
        PROVE  Val(r, Bucket(i))' <= Val(r, Bucket(i + 1))' + Skew(r)'
    <3>a. Bucket(i) \in Counters /\ Bucket(i + 1) \in Counters
      BY <1>b, <1>c
    <3>1. CASE Seen(r, Bucket(i + 1))
      <4>1. Seen(r, Bucket(i))
        BY <3>1, <2>5, <1>a, ReadBefore
      <4>2. Val(r, Bucket(i)) <= Val(r, Bucket(i + 1)) + Skew(r)
        BY <2>5 DEF Torn
      <4>3. Val(r, Bucket(i))' = Val(r, Bucket(i)) /\ Val(r, Bucket(i + 1))' = Val(r, Bucket(i + 1))
        BY <3>1, <4>1, <3>a, <2>1
      <4> QED BY <4>2, <4>3, <3>a, <1>3, <1>d, <1>g
    <3>2. CASE ~Seen(r, Bucket(i + 1))
      <4>1. Val(r, Bucket(i + 1))' = metrics'[Bucket(i + 1)]
            /\ Val(r, Bucket(i))' <= metrics'[Bucket(i)]
        BY <3>2, <3>a, <2>1, <1>e
      <4>2. metrics'[Bucket(i)] <= metrics'[Bucket(i + 1)] + Skew(r)'
        BY <1>f
      <4> QED BY <4>1, <4>2, <3>a, <1>e, <1>g
    <3> QED BY <3>1, <3>2
  <2>6. ASSUME r = Http PROVE Val(r, Bucket(Inf))' <= Val(r, latencyCount)'
    <3>a. Bucket(Inf) \in Counters
      BY <1>b, <1>c
    <3>1. CASE Seen(r, latencyCount)
      <4>1. Seen(r, Bucket(Inf))
        BY <3>1, <2>6, <1>a, ReadBefore
      <4>2. Val(r, Bucket(Inf)) <= Val(r, latencyCount)
        BY <2>6 DEF Torn
      <4> QED BY <3>1, <3>a, <4>1, <4>2, <2>1, <1>b
    <3>2. CASE ~Seen(r, latencyCount)
      <4>1. Val(r, latencyCount)' = metrics'[latencyCount]
            /\ Val(r, Bucket(Inf))' <= metrics'[Bucket(Inf)]
        BY <3>2, <3>a, <2>1, <1>b, <1>e
      <4> QED BY <4>1, <3>a, <1>b, <1>e, <1>f
    <3> QED BY <3>1, <3>2
  <2>7. ASSUME r = Http
        PROVE  Val(r, successful)' + Val(r, failed)' <= Val(r, Bucket(Inf))' + Skew(r)'
    <3>a. Bucket(Inf) \in Counters
      BY <1>b, <1>c
    <3>1. CASE Seen(r, Bucket(Inf))
      <4>1. Seen(r, failed) /\ Seen(r, successful)
        BY <3>1, <2>7, <1>a, ReadBefore
      <4>2. Val(r, successful) + Val(r, failed) <= Val(r, Bucket(Inf)) + Skew(r)
        BY <2>7 DEF Torn
      <4>3. Val(r, successful)' = Val(r, successful) /\ Val(r, failed)' = Val(r, failed)
            /\ Val(r, Bucket(Inf))' = Val(r, Bucket(Inf))
        BY <3>1, <3>a, <4>1, <2>1, <1>b
      <4> QED BY <4>2, <4>3, <3>a, <1>3, <1>b, <1>d, <1>g
    <3>2. CASE ~Seen(r, Bucket(Inf))
      <4>1. Val(r, Bucket(Inf))' = metrics'[Bucket(Inf)]
            /\ Val(r, successful)' <= metrics'[successful] /\ Val(r, failed)' <= metrics'[failed]
        BY <3>2, <3>a, <2>1, <1>b, <1>e
      <4> QED BY <4>1, <3>a, <1>b, <1>e, <1>f, <1>g
    <3> QED BY <3>1, <3>2
  <2>8. ASSUME r # Http
        PROVE  Val(r, latencyCount)' <= Val(r, successful)' + Val(r, failed)'
    <3>1. CASE Seen(r, latencyCount)
      <4>1. Val(r, latencyCount) <= Val(r, successful) + Val(r, failed)
        BY <2>8 DEF Torn
      <4>2. Val(r, latencyCount)' = Val(r, latencyCount)
        BY <3>1, <2>1, <1>b
      <4>3. Val(r, successful) <= Val(r, successful)' /\ Val(r, failed) <= Val(r, failed)'
        BY <2>2, <1>b
      <4> QED BY <4>1, <4>2, <4>3, <1>b, <1>d, <1>e
    <3>2. CASE ~Seen(r, latencyCount)
      <4>1. ~Seen(r, successful) /\ ~Seen(r, failed)
        BY <3>2, <2>8, <1>a, ReadBefore
      <4>2. Val(r, latencyCount)' = metrics'[latencyCount]
            /\ Val(r, successful)' = metrics'[successful] /\ Val(r, failed)' = metrics'[failed]
        BY <3>2, <4>1, <2>1, <1>b
      <4> QED BY <4>2, <1>f
    <3> QED BY <3>1, <3>2
  <2> QED BY <2>3, <2>4, <2>5, <2>6, <2>7, <2>8, Zenon DEF Torn
<1> QED BY <1>1, <1>2, <1>3, <1>a, Drift

LEMMA TornCorrect == MSpec => [](MInv /\ \A r \in Reporters : Torn(r))
<1>1. MInit /\ MInv => \A r \in Reporters : Torn(r)
  <2> SUFFICES ASSUME MInit, MInv, NEW r \in Reporters PROVE Torn(r)
    OBVIOUS
  <2>1. \A c \in Counters : Val(r, c) = 0 /\ before[r][c] = 0
    BY DEF MInit, Val
  <2>2. Skew(r) \in Nat
    BY SkewNat DEF MInv
  <2>3. /\ requestsTotal \in Counters /\ successful \in Counters /\ failed \in Counters
        /\ latencyCount \in Counters /\ Bucket(Inf) \in Counters
        /\ \A i \in 1..Len(Bounds) : Bucket(i) \in Counters /\ Bucket(i + 1) \in Counters
    BY InCounters, InfNat
  <2> QED BY <2>1, <2>2, <2>3 DEF Torn
<1>2. MInv /\ (\A r \in Reporters : Sound(r))' /\ (\A r \in Reporters : Torn(r))
        /\ [MNext]_mVars => (\A r \in Reporters : Torn(r))'
  BY TornStep
<1>3. MSpec => [](\A r \in Reporters : Sound(r))
  BY MInvCorrect, AllSound, PTL
<1> QED BY <1>1, <1>2, <1>3, MInvCorrect, PTL DEF MSpec

-----------------------------------------------------------------------------
(* The theorems *)

\* Every counter is a number, and a worker is at a bucket exactly while it updates
\* the histogram.
THEOREM MTypeCorrect == MSpec => []MTypeOK
<1>1. MInv => MTypeOK
  BY DEF MInv
<1> QED BY <1>1, MInvCorrect, PTL

\* What a reader has seen once it never sees less of, for any number of readers.
THEOREM MonotoneCorrect == MSpec => []ReportsMonotone
<1>1. (\A r \in Reporters : Torn(r)) => ReportsMonotone
  BY DEF Torn, Val, ReportsMonotone
<1> QED BY <1>1, TornCorrect, PTL

\* A histogram read while any number of workers write it, with any sorted bounds,
\* is out of order by no more than the workers that had a request in hand.
THEOREM HistogramCorrect == MSpec => []HistogramSkew
<1>1. MInv /\ (\A r \in Reporters : Torn(r)) => HistogramSkew
  <2> SUFFICES ASSUME MInv, \A r \in Reporters : Torn(r) PROVE HistogramSkew
    OBVIOUS
  <2>1. Http \in Reporters /\ MTypeOK
    BY DEF Reporters, MInv
  <2>2. Torn(Http)
    BY <2>1
  <2>3. ASSUME NEW i \in 1..Len(Bounds), Seen(Http, Bucket(i + 1))
        PROVE  report[Http][Bucket(i)] <= report[Http][Bucket(i + 1)] + Skew(Http)
    <3>1. Seen(Http, Bucket(i))
      BY <2>1, <2>3, ReadBefore
    <3> QED BY <3>1, <2>2, <2>3 DEF Torn, Val
  <2>4. ASSUME Seen(Http, latencyCount)
        PROVE  report[Http][Bucket(Inf)] <= report[Http][latencyCount]
    <3>1. Seen(Http, Bucket(Inf))
      BY <2>1, <2>4, ReadBefore
    <3> QED BY <3>1, <2>2, <2>4 DEF Torn, Val
  <2> QED BY <2>3, <2>4 DEF HistogramSkew
<1> QED BY <1>1, TornCorrect, PTL

\* The request counters of a report differ by no more than the workers that had a
\* request in hand, and a JSON report has no more timed requests than outcomes.
THEOREM RequestsCorrect == MSpec => []RequestsSkew
<1>1. MInv /\ (\A r \in Reporters : Torn(r)) => RequestsSkew
  <2> SUFFICES ASSUME MInv, \A r \in Reporters : Torn(r) PROVE RequestsSkew
    OBVIOUS
  <2>1. Http \in Reporters /\ MTypeOK /\ \A w \in Workers : w \in Reporters /\ w # Http
    BY MetricsAssumption DEF Reporters, MInv
  <2>2. ASSUME NEW r \in Reporters, Seen(r, failed)
        PROVE  report[r][requestsTotal]
                 <= report[r][successful] + report[r][failed] + Skew(r)
    <3>1. Seen(r, successful) /\ Seen(r, requestsTotal)
      BY <2>1, <2>2, ReadBefore
    <3>2. Torn(r)
      OBVIOUS
    <3> QED BY <3>1, <3>2, <2>2 DEF Torn, Val
  <2>3. ASSUME Seen(Http, Bucket(Inf))
        PROVE  report[Http][successful] + report[Http][failed]
                 <= report[Http][Bucket(Inf)] + Skew(Http)
    <3>1. Seen(Http, successful) /\ Seen(Http, failed)
      BY <2>1, <2>3, ReadBefore
    <3>2. Torn(Http)
      BY <2>1
    <3> QED BY <3>1, <3>2, <2>3 DEF Torn, Val
  <2>4. ASSUME NEW w \in Workers, Seen(w, failed)
        PROVE  report[w][latencyCount] <= report[w][successful] + report[w][failed]
    <3>1. w \in Reporters /\ w # Http
      BY <2>1
    <3>2. Seen(w, successful) /\ Seen(w, latencyCount)
      BY <3>1, <2>1, <2>4, ReadBefore
    <3>3. Torn(w)
      BY <3>1
    <3> QED BY <3>1, <3>2, <3>3, <2>4 DEF Torn, Val
  <2> QED BY <2>2, <2>3, <2>4 DEF RequestsSkew
<1> QED BY <1>1, TornCorrect, PTL

-----------------------------------------------------------------------------
(* The sum of the latencies *)

\* What one worker owes.
LEMMA Column ==
  ASSUME NEW w, NEW n \in Nat
  PROVE  IsFiniteSet({w} \X (1..n)) /\ Cardinality({w} \X (1..n)) = n
<1>1. IsFiniteSet({w}) /\ Cardinality({w}) = 1
  BY FS_Singleton
<1>2. IsFiniteSet(1..n) /\ Cardinality(1..n) = n
  BY FS_Interval
<1>3. /\ IsFiniteSet({w} \X (1..n))
      /\ Cardinality({w} \X (1..n)) = Cardinality({w}) * Cardinality(1..n)
  BY <1>1, <1>2, FS_Product
<1> QED BY <1>1, <1>2, <1>3

\* What is owed grows by what one more worker owes.
LEMMA Columns ==
  ASSUME NEW P, NEW w, w \notin P, NEW f, NEW g, \A v \in P : g[v] = f[v], g[w] \in Nat,
         IsFiniteSet(UNION {{v} \X (1..f[v]) : v \in P})
  PROVE  LET S == UNION {{v} \X (1..f[v]) : v \in P}
             T == UNION {{v} \X (1..g[v]) : v \in P \cup {w}}
         IN  IsFiniteSet(T) /\ Cardinality(T) = Cardinality(S) + g[w]
<1> DEFINE S == UNION {{v} \X (1..f[v]) : v \in P}
           T == UNION {{v} \X (1..g[v]) : v \in P \cup {w}}
           C == {w} \X (1..g[w])
<1>1. T = S \cup C
  OBVIOUS
<1>2. S \cap C = {}
  OBVIOUS
<1>3. IsFiniteSet(C) /\ Cardinality(C) = g[w]
  BY Column
<1>4. IsFiniteSet(S)
  OBVIOUS
<1> HIDE DEF S, T, C
<1>5. IsFiniteSet(S \cup C) /\ Cardinality(S \cup C) = Cardinality(S) + Cardinality(C) - Cardinality(S \cap C)
  BY <1>3, <1>4, FS_Union
<1>6. Cardinality(S \cap C) = 0 /\ Cardinality(S) \in Nat
  BY <1>2, <1>4, FS_EmptySet, FS_CardinalityType
<1>7. IsFiniteSet(T) /\ Cardinality(T) = Cardinality(S) + g[w]
  BY <1>1, <1>3, <1>5, <1>6
<1> QED BY <1>7 DEF S, T

\* What is owed is finite, and all that the sum lacks.
SumInv == IsFiniteSet(Owed) /\ SumExact

\* A step that touches neither the sum nor what is owed to it.
LEMMA SumSteady ==
  ASSUME SumInv, Adders' = Adders, \A w \in Adders : lat'[w] = lat[w],
         metrics'[latencySum] = metrics[latencySum], spent' = spent
  PROVE  SumInv'
<1>1. Owed' = Owed
  BY DEF Owed
<1> QED BY <1>1 DEF SumInv, SumExact

\* A request that is timed adds to what is owed.
LEMMA SumOwes ==
  ASSUME MTypeOK, SumInv, NEW w \in Workers, NEW l \in Latencies, CountLatency(w, l)
  PROVE  SumInv'
<1>1. w \notin Adders /\ Adders' = Adders \cup {w}
  BY DEF CountLatency, Goes, Adders, MTypeOK
<1>2. lat'[w] = l /\ l \in Nat /\ \A v \in Adders : lat'[v] = lat[v]
  BY <1>1, MetricsAssumption DEF CountLatency, MTypeOK
<1>3. IsFiniteSet(Owed') /\ Cardinality(Owed') = Cardinality(Owed) + l
  <2>1. IsFiniteSet(UNION {{v} \X (1..lat[v]) : v \in Adders})
    BY DEF SumInv, Owed
  <2>2. Owed' = UNION {{v} \X (1..lat'[v]) : v \in Adders \cup {w}}
    BY <1>1 DEF Owed
  <2> QED BY <1>1, <1>2, <2>1, <2>2, Columns DEF Owed
<1>4. metrics'[latencySum] = metrics[latencySum] /\ metrics[latencySum] \in Nat
  BY InCounters, Names DEF CountLatency, Add, MTypeOK
<1>5. spent' = spent + l /\ spent \in Nat /\ Cardinality(Owed) \in Nat
  BY FS_CardinalityType DEF CountLatency, MTypeOK, SumInv
<1> QED BY <1>2, <1>3, <1>4, <1>5 DEF SumInv, SumExact

\* An exchange that succeeds adds exactly what the worker owed.
LEMMA SumPays ==
  ASSUME MTypeOK, SumInv, NEW w \in Workers, AddSum(w), at'[w] # "adding"
  PROVE  SumInv'
<1>1. /\ metrics' = [metrics EXCEPT ![latencySum] = metrics[latencySum] + lat[w]]
      /\ at[w] = "adding" /\ at' = [at EXCEPT ![w] = "buckets"]
  BY DEF AddSum
<1>2. w \notin Adders' /\ Adders = Adders' \cup {w}
  BY <1>1 DEF Adders, MTypeOK
<1>3. lat' = lat /\ spent' = spent /\ lat[w] \in Nat
  BY DEF AddSum, MTypeOK
<1>4. IsFiniteSet(Owed')
  <2>1. Owed' \subseteq Owed
    BY <1>2, <1>3 DEF Owed
  <2> QED BY <2>1, FS_Subset DEF SumInv
<1>5. Cardinality(Owed) = Cardinality(Owed') + lat[w]
  <2> DEFINE P == Adders'
             S == UNION {{v} \X (1..lat[v]) : v \in P}
             T == UNION {{v} \X (1..lat[v]) : v \in P \cup {w}}
  <2>1. Owed = T /\ Owed' = S /\ IsFiniteSet(S)
    BY <1>2, <1>3, <1>4 DEF Owed
  <2>2. w \notin P
    BY <1>2
  <2> HIDE DEF P
  <2>3. Cardinality(T) = Cardinality(S) + lat[w]
    <3>1. lat[w] \in Nat /\ \A v \in P : lat[v] = lat[v]
      BY <1>3
    <3>2. IsFiniteSet(S)
      BY <2>1
    <3> QED BY <2>2, <3>1, <3>2, Columns
  <2> QED BY <2>1, <2>3
<1>6. metrics'[latencySum] = metrics[latencySum] + lat[w] /\ metrics[latencySum] \in Nat
  BY <1>1, InCounters DEF MTypeOK
<1>7. Cardinality(Owed') \in Nat
  BY <1>4, FS_CardinalityType
<1> QED BY <1>3, <1>4, <1>5, <1>6, <1>7 DEF SumInv, SumExact

\* No step loses an addition.
LEMMA SumStep == MTypeOK /\ SumInv /\ [MNext]_mVars => SumInv'
<1> SUFFICES ASSUME MTypeOK, SumInv, [MNext]_mVars PROVE SumInv'
  OBVIOUS
<1>0. \A c \in Counters : \A n : c # latencySum /\ Add(c, n) => metrics'[latencySum] = metrics[latencySum]
  BY InCounters DEF Add, MTypeOK
<1>a. /\ {requestsTotal, successful, failed, latencyCount} \subseteq Counters \ {latencySum}
      /\ \A i \in 1..Inf : Bucket(i) \in Counters \ {latencySum}
  BY InCounters, InfNat, Names
<1>1. ASSUME NEW w \in Workers, Receive(w) \/ Answer(w, successful) \/ Answer(w, failed) \/ EndReport(w)
      PROVE  SumInv'
  <2>1. metrics'[latencySum] = metrics[latencySum] /\ lat' = lat /\ spent' = spent
    BY <1>0, <1>1, <1>a DEF Receive, Answer, EndReport
  <2>2. Adders' = Adders
    BY <1>1 DEF Receive, Answer, EndReport, Goes, Adders, MTypeOK
  <2> QED BY <2>1, <2>2, SumSteady
<1>2. ASSUME NEW w \in Workers, NEW l \in Latencies, CountLatency(w, l) PROVE SumInv'
  BY <1>2, SumOwes
<1>3. ASSUME NEW w \in Workers, LoadSum(w) PROVE SumInv'
  <2>1. Adders' = Adders
    BY <1>3 DEF LoadSum, Goes, Adders, MTypeOK
  <2> QED BY <1>3, <2>1, SumSteady DEF LoadSum
<1>4. ASSUME NEW w \in Workers, AddSum(w) PROVE SumInv'
  <2>1. CASE at'[w] = "adding"
    <3>1. UNCHANGED <<metrics, at, lat, spent>>
      BY <1>4, <2>1 DEF AddSum, MTypeOK
    <3> QED BY <3>1, SumSteady DEF Adders
  <2> QED BY <1>4, <2>1, SumPays
<1>5. ASSUME NEW w \in Workers, AddBucket(w) PROVE SumInv'
  <2>1. metrics'[latencySum] = metrics[latencySum]
    <3>1. pos[w] \in 1..Inf
      BY <1>5, InfNat DEF AddBucket, MTypeOK
    <3> QED BY <1>0, <1>5, <1>a, <3>1 DEF AddBucket
  <2>2. Adders' = Adders /\ w \notin Adders
    BY <1>5 DEF AddBucket, Adders, MTypeOK
  <2>3. \A v \in Adders : lat'[v] = lat[v]
    BY <1>5, <2>2 DEF AddBucket, MTypeOK, Adders
  <2> QED BY <1>5, <2>1, <2>2, <2>3, SumSteady DEF AddBucket
<1>6. ASSUME NEW r \in Reporters, StartReport(r) PROVE SumInv'
  <2>1. Adders' = Adders
    BY <1>6 DEF StartReport, Goes, Adders, MTypeOK, Reporters
  <2> QED BY <1>6, <2>1, SumSteady DEF StartReport
<1>7. ASSUME NEW r \in Reporters, ReadCounter(r) PROVE SumInv'
  BY <1>7, SumSteady DEF ReadCounter, workerVars, Adders
<1>8. CASE UNCHANGED mVars
  BY <1>8, SumSteady DEF mVars, workerVars, Adders
<1> QED BY <1>1, <1>2, <1>3, <1>4, <1>5, <1>6, <1>7, <1>8, MCases

\* The compare-and-exchange loop of recordRequestLatency loses no addition, for
\* any number of workers.
THEOREM SumCorrect == MSpec => []SumExact
<1>1. MInit => SumInv
  <2> SUFFICES ASSUME MInit PROVE SumInv
    OBVIOUS
  <2>1. Owed = {}
    BY DEF MInit, Owed, Adders
  <2>2. IsFiniteSet(Owed) /\ Cardinality(Owed) = 0
    BY <2>1, FS_EmptySet
  <2>3. metrics[latencySum] = 0 /\ spent = 0
    BY InCounters DEF MInit
  <2> QED BY <2>2, <2>3 DEF SumInv, SumExact
<1>2. SumInv => SumExact
  BY DEF SumInv
<1> QED BY <1>1, <1>2, SumStep, MTypeCorrect, PTL DEF MSpec
=============================================================================
