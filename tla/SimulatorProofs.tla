--------------------------- MODULE SimulatorProofs ---------------------------
(***************************************************************************)
(* Proofs about Simulator and the frames of MessageFramer, for every       *)
(* number of bots, of server threads and of bytes in a header.             *)
(*                                                                         *)
(* Sections 1 and 2 show that readU32LE and writeU32LE undo each other and *)
(* that decode undoes encode.  Both are recursive functions; facts about   *)
(* them are shown by induction over the bytes of a header (Induct, Upward, *)
(* Downward: a set of numbers takes the place of the induction predicate). *)
(*                                                                         *)
(* SimInv, the inductive invariant, says what each stream holds, wherever  *)
(* it was cut.  What the server has read, followed by what is on its way,  *)
(* are the requests not yet handled, whole and in order, up to the byte    *)
(* where the connection broke; so what it dispatches is always the next    *)
(* request (DispatchIs).  What a bot has read, followed by what is on its  *)
(* way, is nothing unless the bot waits, and then the one reply it waits   *)
(* for, up to the first reply above the maximum (WholeReply, FinishStep).  *)
(* All of this is about one bot at a time: a step about a bot keeps the    *)
(* others' part (OthersSame, SameKept), and has one lemma for its own.     *)
(*                                                                         *)
(* ReportInv, on top of it, is about the report.  Replies are on their way *)
(* in the order of their requests, and what is left of one that has been   *)
(* recorded is text, which no bot takes for a header: so none is recorded  *)
(* twice (OnceInv).  The collector holds the records of the bots that are  *)
(* done, each once (CollectorInv).                                         *)
(***************************************************************************)
EXTENDS Simulator, SequenceTheorems, FiniteSetTheorems, FunctionTheorems, WellFoundedInduction,
        TLAPS
-----------------------------------------------------------------------------
(* Lengths *)

\* A set of numbers with 0 in it, and with n + 1 if it has n, has them all.
LEMMA Induct ==
  ASSUME NEW S, 0 \in S, \A n \in Nat : n \in S => n + 1 \in S
  PROVE  \A n \in Nat : n \in S
<1> SUFFICES ASSUME NEW m \in Nat, m \notin S PROVE FALSE
  OBVIOUS
<1> DEFINE T == {n \in Nat : n \notin S}
           R == OpToRel(<, Nat)
<1>1. T \subseteq Nat /\ T # {}
  OBVIOUS
<1>2. PICK n \in T : \A i \in T : ~(<<i, n>> \in R)
  <2> HIDE DEF T, R
  <2> QED BY <1>1, WFMin, NatLessThanWellFounded DEF R
<1>3. \A i \in T : ~(i < n)
  <2> HIDE DEF T
  <2> QED BY <1>1, <1>2 DEF OpToRel
<1>4. n # 0 /\ n - 1 \in Nat /\ n - 1 < n
  OBVIOUS
<1>5. n - 1 \in S
  BY <1>3, <1>4
<1>6. (n - 1) + 1 \in S
  BY <1>4, <1>5
<1> QED BY <1>6

\* The same for the numbers up to n, from below and from above.
LEMMA Upward ==
  ASSUME NEW n \in Nat, NEW S, 1 \in S, \A i \in 1..n - 1 : i \in S => i + 1 \in S
  PROVE  \A i \in 1..n : i \in S
<1> DEFINE T == {k \in Nat : k < n => k + 1 \in S}
<1>1. 0 \in T /\ \A k \in Nat : k \in T => k + 1 \in T
  OBVIOUS
<1>2. \A k \in Nat : k \in T
  <2> HIDE DEF T
  <2> QED BY <1>1, Induct
<1>3. \A i \in 1..n : i - 1 \in Nat /\ i - 1 < n /\ (i - 1) + 1 = i
  OBVIOUS
<1> QED BY <1>2, <1>3

LEMMA Downward ==
  ASSUME NEW n \in Nat, NEW S, n \in S, \A i \in 1..n - 1 : i + 1 \in S => i \in S
  PROVE  \A i \in 1..n : i \in S
<1> DEFINE T == {k \in Nat : k < n => n - k \in S}
<1>1. 0 \in T
  OBVIOUS
<1>2. ASSUME NEW k \in Nat, k \in T PROVE k + 1 \in T
  <2> SUFFICES ASSUME k + 1 < n PROVE n - (k + 1) \in S
    OBVIOUS
  <2>1. n - (k + 1) \in 1..n - 1 /\ (n - (k + 1)) + 1 = n - k /\ n - k \in S
    BY <1>2
  <2> QED BY <2>1
<1>3. \A k \in Nat : k \in T
  <2> HIDE DEF T
  <2> QED BY <1>1, <1>2, Induct
<1>4. \A i \in 1..n : n - i \in Nat /\ n - i < n /\ n - (n - i) = i
  OBVIOUS
<1> QED BY <1>3, <1>4

\* The chain of values that readU32LE is defined by.
Chain(p, value) ==
  value = [i \in 1..HEADER_SIZE + 1 |->
             IF i > HEADER_SIZE THEN 0 ELSE p[i] + BYTE * value[i + 1]]

LEMMA ReadChain ==
  ASSUME NEW p
  PROVE  \E value : Chain(p, value) /\ readU32LE(p) = value[1]
<1> DEFINE H == HEADER_SIZE
           From(lo, f) == f = [i \in lo..H + 1 |-> IF i > H THEN 0 ELSE p[i] + BYTE * f[i + 1]]
           S == {n \in Nat : n <= H => \E f : From(H + 1 - n, f)}
<1>0. H \in Nat \ {0}
  BY ByteAssumption
<1> HIDE DEF H
<1>1. 0 \in S
  <2> DEFINE f == [i \in H + 1..H + 1 |-> 0]
  <2>1. From(H + 1 - 0, f)
    BY <1>0
  <2> QED BY <2>1
<1>2. ASSUME NEW n \in Nat, n \in S PROVE n + 1 \in S
  <2> SUFFICES ASSUME n + 1 <= H PROVE \E f : From(H + 1 - (n + 1), f)
    OBVIOUS
  <2> DEFINE lo == H + 1 - n
  <2>1. PICK f : From(lo, f)
    BY <1>0, <1>2
  <2>2. lo \in Int /\ lo - 1 = H + 1 - (n + 1) /\ lo <= H + 1 /\ lo - 1 <= H
    BY <1>0
  <2> HIDE DEF lo
  <2> DEFINE g == [i \in lo - 1..H + 1 |-> IF i = lo - 1 THEN p[i] + BYTE * f[lo] ELSE f[i]]
  <2>3. \A i \in lo..H + 1 : g[i] = f[i]
    BY <1>0, <2>2
  <2>4. \A i \in lo - 1..H + 1 : g[i] = IF i > H THEN 0 ELSE p[i] + BYTE * g[i + 1]
    <3> SUFFICES ASSUME NEW i \in lo - 1..H + 1
                 PROVE g[i] = IF i > H THEN 0 ELSE p[i] + BYTE * g[i + 1]
      OBVIOUS
    <3>1. CASE i = lo - 1
      <4>1. g[i + 1] = f[lo] /\ ~(i > H)
        BY <1>0, <2>2, <2>3, <3>1
      <4> QED BY <3>1, <4>1
    <3>2. CASE i \in lo..H
      <4>1. g[i] = f[i] /\ g[i + 1] = f[i + 1] /\ ~(i > H)
        BY <1>0, <2>2, <2>3, <3>2
      <4>2. f[i] = p[i] + BYTE * f[i + 1]
        BY <1>0, <2>1, <2>2, <3>2
      <4> QED BY <4>1, <4>2
    <3>3. CASE i = H + 1
      BY <1>0, <2>1, <2>2, <2>3, <3>3
    <3> QED BY <1>0, <2>2, <3>1, <3>2, <3>3
  <2>5. From(lo - 1, g)
    BY <2>4
  <2> QED BY <2>2, <2>5
<1>3. H \in S
  <2> HIDE DEF S
  <2> QED BY <1>0, <1>1, <1>2, Induct
<1>4. H + 1 - H = 1
  BY <1>0
<1>5. \E f : From(1, f)
  BY <1>0, <1>3, <1>4
<1>6. \E f : Chain(p, f)
  BY <1>5 DEF Chain, H
<1> DEFINE V == CHOOSE f : Chain(p, f)
<1>7. Chain(p, V)
  BY <1>6
<1>8. readU32LE(p) = V[1]
  BY DEF readU32LE, Chain
<1> QED BY <1>7, <1>8

\* The chain of values that writeU32LE is defined by.
Shifts(v, left) ==
  left = [i \in 1..HEADER_SIZE |-> IF i = 1 THEN v ELSE left[i - 1] \div BYTE]

LEMMA WriteChain ==
  ASSUME NEW v
  PROVE  \E left : Shifts(v, left) /\ writeU32LE(v) = [i \in 1..HEADER_SIZE |-> left[i] % BYTE]
<1> DEFINE H == HEADER_SIZE
           To(hi, f) == f = [i \in 1..hi |-> IF i = 1 THEN v ELSE f[i - 1] \div BYTE]
           S == {n \in Nat : \E f : To(n + 1, f)}
<1>0. H \in Nat \ {0}
  BY ByteAssumption
<1> HIDE DEF H
<1>1. 0 \in S
  <2> DEFINE f == [i \in 1..1 |-> v]
  <2>1. To(0 + 1, f)
    OBVIOUS
  <2> QED BY <2>1
<1>2. ASSUME NEW n \in Nat, n \in S PROVE n + 1 \in S
  <2>1. PICK f : To(n + 1, f)
    BY <1>2
  <2> DEFINE g == [i \in 1..n + 2 |-> IF i = n + 2 THEN f[n + 1] \div BYTE ELSE f[i]]
  <2>2. \A i \in 1..n + 1 : g[i] = f[i]
    OBVIOUS
  <2>3. \A i \in 1..n + 2 : g[i] = IF i = 1 THEN v ELSE g[i - 1] \div BYTE
    <3> SUFFICES ASSUME NEW i \in 1..n + 2
                 PROVE g[i] = IF i = 1 THEN v ELSE g[i - 1] \div BYTE
      OBVIOUS
    <3>1. CASE i = n + 2
      <4>1. g[i - 1] = f[n + 1] /\ i # 1
        BY <2>2, <3>1
      <4> QED BY <3>1, <4>1
    <3>2. CASE i \in 2..n + 1
      <4>1. g[i] = f[i] /\ g[i - 1] = f[i - 1] /\ i # 1
        BY <2>2, <3>2
      <4>2. f[i] = f[i - 1] \div BYTE
        BY <2>1, <3>2
      <4> QED BY <4>1, <4>2
    <3>3. CASE i = 1
      BY <2>1, <2>2, <3>3
    <3> QED BY <3>1, <3>2, <3>3
  <2>4. To((n + 1) + 1, g)
    BY <2>3
  <2> HIDE DEF g
  <2>5. \E h : To((n + 1) + 1, h)
    BY <2>4
  <2> QED BY <2>5
<1>3. H - 1 \in S
  <2> HIDE DEF S
  <2> QED BY <1>0, <1>1, <1>2, Induct
<1>4. (H - 1) + 1 = H
  BY <1>0
<1>5. \E f : To(H, f)
  BY <1>0, <1>3, <1>4
<1>6. \E f : Shifts(v, f)
  BY <1>5 DEF Shifts, H
<1> DEFINE V == CHOOSE f : Shifts(v, f)
<1>7. Shifts(v, V)
  BY <1>6
<1>8. writeU32LE(v) = [i \in 1..HEADER_SIZE |-> V[i] % BYTE]
  BY DEF writeU32LE, Shifts
<1> QED BY <1>7, <1>8

LEMMA DivMod ==
  ASSUME NEW v \in Nat
  PROVE  /\ v \div BYTE \in Nat /\ v % BYTE \in 0..BYTE - 1
         /\ v = (v % BYTE) + BYTE * (v \div BYTE)
  BY ByteAssumption

LEMMA DivUnique ==
  ASSUME NEW q \in Nat, NEW r \in 0..BYTE - 1
  PROVE  (r + BYTE * q) \div BYTE = q /\ (r + BYTE * q) % BYTE = r
  BY ByteAssumption

LEMMA DivBound ==
  ASSUME NEW v \in Nat, NEW q \in Nat, v <= (BYTE - 1) + BYTE * q
  PROVE v \div BYTE <= q
  BY ByteAssumption

\* A header, or what begins with one.
Header(p) == \A i \in 1..HEADER_SIZE : p[i] \in 0..BYTE - 1

\* The links of the chain one by one.
LEMMA ChainLinks ==
  ASSUME NEW p, Header(p), NEW value, Chain(p, value)
  PROVE  /\ value[HEADER_SIZE + 1] = 0
         /\ \A i \in 1..HEADER_SIZE : value[i] = p[i] + BYTE * value[i + 1]
         /\ \A i \in 1..HEADER_SIZE + 1 : value[i] \in Nat
<1> DEFINE H == HEADER_SIZE
           S == {i \in Nat : value[i] \in Nat}
<1>0. H \in Nat \ {0} /\ BYTE \in Nat
  BY ByteAssumption
<1>1. value[H + 1] = 0
  <2>1. value = [i \in 1..H + 1 |-> IF i > H THEN 0 ELSE p[i] + BYTE * value[i + 1]]
    BY DEF Chain
  <2>2. H + 1 \in 1..H + 1 /\ H + 1 > H
    BY <1>0
  <2> HIDE DEF H
  <2> QED BY <2>1, <2>2
<1>2. ASSUME NEW i \in 1..H PROVE value[i] = p[i] + BYTE * value[i + 1]
  <2>1. i \in 1..H + 1 /\ ~(i > H)
    BY <1>0
  <2> QED BY <2>1 DEF Chain
<1>3. \A i \in 1..H : p[i] \in Nat
  BY <1>0 DEF Header
<1> HIDE DEF H
<1>4. H + 1 \in S
  BY <1>0, <1>1
<1>5. ASSUME NEW i \in 1..(H + 1) - 1, i + 1 \in S PROVE i \in S
  <2>1. i \in Nat /\ value[i] = p[i] + BYTE * value[i + 1] /\ p[i] \in Nat
    BY <1>0, <1>2, <1>3
  <2>2. BYTE * value[i + 1] \in Nat
    BY <1>0, <1>5
  <2> QED BY <2>1, <2>2
<1>6. \A i \in 1..H + 1 : i \in S
  <2> HIDE DEF S
  <2> QED BY <1>0, <1>4, <1>5, Downward
<1> QED BY <1>1, <1>2, <1>6 DEF H

LEMMA MulMonotone ==
  ASSUME NEW x \in Nat, NEW y \in Nat, x <= y, NEW c \in Nat
  PROVE  c * x <= c * y /\ c * x \in Nat /\ c * y \in Nat
<1>1. y - x \in Nat /\ y = x + (y - x)
  OBVIOUS
<1>2. c * (y - x) \in Nat /\ c * y = c * x + c * (y - x)
  BY <1>1
<1>3. c * x \in Nat /\ c * y \in Nat
  OBVIOUS
<1> QED BY <1>2, <1>3

\* A header with smaller bytes carries a smaller length.
LEMMA ReadMonotone ==
  ASSUME NEW p, NEW q, Header(p), Header(q), \A i \in 1..HEADER_SIZE : p[i] <= q[i]
  PROVE  readU32LE(p) \in Nat /\ readU32LE(q) \in Nat /\ readU32LE(p) <= readU32LE(q)
<1> DEFINE H == HEADER_SIZE
<1>0. H \in Nat \ {0} /\ BYTE \in Nat
  BY ByteAssumption
<1>1. PICK v : Chain(p, v) /\ readU32LE(p) = v[1]
  BY ReadChain
<1>2. PICK w : Chain(q, w) /\ readU32LE(q) = w[1]
  BY ReadChain
<1>3. /\ v[H + 1] = 0 /\ \A i \in 1..H : v[i] = p[i] + BYTE * v[i + 1]
      /\ \A i \in 1..H + 1 : v[i] \in Nat
  BY <1>1, ChainLinks
<1>4. /\ w[H + 1] = 0 /\ \A i \in 1..H : w[i] = q[i] + BYTE * w[i + 1]
      /\ \A i \in 1..H + 1 : w[i] \in Nat
  BY <1>2, ChainLinks
<1>5. \A i \in 1..H : p[i] \in Nat /\ q[i] \in Nat /\ p[i] <= q[i]
  BY <1>0 DEF Header
<1> HIDE DEF H
<1> DEFINE S == {i \in Nat : v[i] <= w[i]}
<1>6. H + 1 \in S
  BY <1>0, <1>3, <1>4
<1>7. ASSUME NEW i \in 1..(H + 1) - 1, i + 1 \in S PROVE i \in S
  <2>1. i \in 1..H /\ i + 1 \in 1..H + 1 /\ i \in Nat
    BY <1>0
  <2>2. BYTE * v[i + 1] <= BYTE * w[i + 1] /\ BYTE * v[i + 1] \in Nat /\ BYTE * w[i + 1] \in Nat
    BY <1>0, <1>3, <1>4, <1>7, <2>1, MulMonotone
  <2>3. v[i] = p[i] + BYTE * v[i + 1] /\ w[i] = q[i] + BYTE * w[i + 1]
    BY <1>3, <1>4, <2>1
  <2> QED BY <1>5, <2>1, <2>2, <2>3
<1>8. \A i \in 1..H + 1 : i \in S
  <2> HIDE DEF S
  <2> QED BY <1>0, <1>6, <1>7, Downward
<1>9. 1 \in 1..H + 1
  BY <1>0
<1> QED BY <1>1, <1>2, <1>3, <1>4, <1>8, <1>9

MaxHeader == [i \in 1..HEADER_SIZE |-> BYTE - 1]

\* readU32LE looks at the first HEADER_SIZE bytes, and reads a uint32_t there.
LEMMA ReadIs ==
  ASSUME NEW p, Header(p)
  PROVE  /\ readU32LE(p) \in U32 /\ readU32LE(p) \in Nat
         /\ \A q : (\A i \in 1..HEADER_SIZE : q[i] = p[i]) => readU32LE(q) = readU32LE(p)
<1>1. Header(MaxHeader) /\ \A i \in 1..HEADER_SIZE : p[i] <= MaxHeader[i]
  BY ByteAssumption DEF Header, MaxHeader
<1>2. /\ readU32LE(p) \in Nat /\ readU32LE(MaxHeader) \in Nat
      /\ readU32LE(p) <= readU32LE(MaxHeader)
  BY <1>1, ReadMonotone
<1>3. ASSUME NEW q, \A i \in 1..HEADER_SIZE : q[i] = p[i]
      PROVE  readU32LE(q) = readU32LE(p)
  <2>1. /\ Header(q) /\ \A i \in 1..HEADER_SIZE : p[i] <= q[i]
        /\ \A i \in 1..HEADER_SIZE : q[i] <= p[i]
    BY <1>3, ByteAssumption DEF Header
  <2>2. readU32LE(p) \in Nat /\ readU32LE(q) \in Nat /\ readU32LE(p) <= readU32LE(q)
    BY <2>1, ReadMonotone
  <2>3. readU32LE(q) <= readU32LE(p)
    BY <2>1, ReadMonotone
  <2> QED BY <2>2, <2>3
<1> QED BY <1>2, <1>3 DEF U32, MaxHeader

LEMMA WriteIs ==
  ASSUME NEW v \in Nat, NEW left, Shifts(v, left)
  PROVE  /\ left[1] = v /\ \A i \in 1..HEADER_SIZE : left[i] \in Nat
         /\ \A i \in 1..HEADER_SIZE - 1 : left[i + 1] = left[i] \div BYTE
<1> DEFINE H == HEADER_SIZE
           S == {i \in Nat : left[i] \in Nat}
<1>0. H \in Nat \ {0}
  BY ByteAssumption
<1>1. left = [i \in 1..H |-> IF i = 1 THEN v ELSE left[i - 1] \div BYTE]
  BY DEF Shifts
<1> HIDE DEF H
<1>2. left[1] = v
  <2>1. 1 \in 1..H
    BY <1>0
  <2> QED BY <1>1, <2>1
<1>3. ASSUME NEW i \in 1..H - 1 PROVE left[i + 1] = left[i] \div BYTE
  <2>1. i + 1 \in 1..H /\ i + 1 # 1 /\ (i + 1) - 1 = i
    BY <1>0
  <2> QED BY <1>1, <2>1
<1>4. 1 \in S
  BY <1>2
<1>5. ASSUME NEW i \in 1..H - 1, i \in S PROVE i + 1 \in S
  BY <1>3, <1>5, DivMod
<1>6. \A i \in 1..H : i \in S
  <2> HIDE DEF S
  <2> QED BY <1>0, <1>4, <1>5, Upward
<1> QED BY <1>2, <1>3, <1>6 DEF H

\* What writeU32LE writes is a header, and readU32LE reads the same length from it.
LEMMA ReadOfWrite ==
  ASSUME NEW v \in U32
  PROVE  Header(writeU32LE(v)) /\ readU32LE(writeU32LE(v)) = v
<1> DEFINE H == HEADER_SIZE
           p == writeU32LE(v)
<1>0. H \in Nat \ {0} /\ BYTE \in Nat /\ BYTE > 1
  BY ByteAssumption
<1>1. PICK m : Chain(MaxHeader, m) /\ readU32LE(MaxHeader) = m[1]
  BY ReadChain
<1>2. Header(MaxHeader) /\ \A i \in 1..H : MaxHeader[i] = BYTE - 1
  BY ByteAssumption DEF Header, MaxHeader
<1>3. /\ m[H + 1] = 0 /\ \A i \in 1..H : m[i] = (BYTE - 1) + BYTE * m[i + 1]
      /\ \A i \in 1..H + 1 : m[i] \in Nat
  BY <1>1, <1>2, ChainLinks
<1>4. v \in Nat /\ v <= m[1]
  <2>1. 1 \in 1..H + 1
    BY <1>0
  <2> QED BY <1>1, <1>3, <2>1 DEF U32, MaxHeader
<1>5. PICK left : Shifts(v, left) /\ p = [i \in 1..H |-> left[i] % BYTE]
  BY WriteChain
<1>6. /\ left[1] = v /\ \A i \in 1..H : left[i] \in Nat
      /\ \A i \in 1..H - 1 : left[i + 1] = left[i] \div BYTE
  BY <1>4, <1>5, WriteIs
<1>7. \A i \in 1..H : p[i] = left[i] % BYTE /\ p[i] \in 0..BYTE - 1
  BY <1>5, <1>6, DivMod
<1>8. Header(p)
  BY <1>7 DEF Header
<1>9. PICK w : Chain(p, w) /\ readU32LE(p) = w[1]
  BY ReadChain
<1>10. w[H + 1] = 0 /\ \A i \in 1..H : w[i] = p[i] + BYTE * w[i + 1]
  BY <1>8, <1>9, ChainLinks
<1> HIDE DEF H, p
<1>11. \A i \in 1..H : left[i] <= m[i]
  <2> DEFINE S == {i \in Nat : left[i] <= m[i]}
  <2>1. 1 \in S
    BY <1>4, <1>6
  <2>2. ASSUME NEW i \in 1..H - 1, i \in S PROVE i + 1 \in S
    <3>1. i \in 1..H /\ i + 1 \in 1..H /\ i + 1 \in 1..H + 1 /\ i + 1 \in Nat
      BY <1>0
    <3>2. left[i] <= (BYTE - 1) + BYTE * m[i + 1] /\ left[i] \in Nat /\ m[i + 1] \in Nat
      BY <1>3, <1>6, <2>2, <3>1
    <3>3. left[i] \div BYTE <= m[i + 1]
      BY <3>2, DivBound
    <3> QED BY <1>6, <3>1, <3>3
  <2>3. \A i \in 1..H : i \in S
    <3> HIDE DEF S
    <3> QED BY <1>0, <2>1, <2>2, Upward
  <2> QED BY <2>3
<1>12. \A i \in 1..H : w[i] = left[i]
  <2> DEFINE S == {i \in Nat : w[i] = left[i]}
  <2>1. H \in S
    <3>1. H \in 1..H /\ H + 1 \in 1..H + 1
      BY <1>0
    <3>2. m[H] = (BYTE - 1) + BYTE * 0 /\ BYTE * 0 = 0
      BY <1>0, <1>3, <3>1
    <3>3. left[H] \in 0..BYTE - 1
      BY <1>0, <1>6, <1>11, <3>1, <3>2
    <3>4. left[H] % BYTE = left[H]
      BY <1>0, <3>2, <3>3, DivUnique
    <3>5. w[H] = p[H] + BYTE * 0 /\ p[H] = left[H] % BYTE
      BY <1>7, <1>10, <3>1
    <3> QED BY <1>0, <3>2, <3>3, <3>4, <3>5
  <2>2. ASSUME NEW i \in 1..H - 1, i + 1 \in S PROVE i \in S
    <3>1. i \in 1..H /\ i \in Nat
      BY <1>0
    <3>2. w[i] = (left[i] % BYTE) + BYTE * (left[i] \div BYTE)
      BY <1>6, <1>7, <1>10, <2>2, <3>1
    <3> QED BY <1>6, <3>1, <3>2, DivMod
  <2>3. \A i \in 1..H : i \in S
    <3> HIDE DEF S
    <3> QED BY <1>0, <2>1, <2>2, Downward
  <2> QED BY <2>3
<1>13. 1 \in 1..H
  BY <1>0
<1> QED BY <1>6, <1>8, <1>9, <1>12, <1>13 DEF p

\* Nothing else is read as that length: written again, it gives the same bytes.
LEMMA WriteOfRead ==
  ASSUME NEW p, Header(p)
  PROVE  \A i \in 1..HEADER_SIZE : writeU32LE(readU32LE(p))[i] = p[i]
<1> DEFINE H == HEADER_SIZE
           v == readU32LE(p)
<1>0. H \in Nat \ {0} /\ BYTE \in Nat /\ BYTE > 1
  BY ByteAssumption
<1>1. PICK w : Chain(p, w) /\ readU32LE(p) = w[1]
  BY ReadChain
<1>2. /\ \A i \in 1..H : w[i] = p[i] + BYTE * w[i + 1]
      /\ \A i \in 1..H + 1 : w[i] \in Nat
  BY <1>1, ChainLinks
<1>3. v \in Nat
  BY ReadIs
<1>4. PICK left : Shifts(v, left) /\ writeU32LE(v) = [i \in 1..H |-> left[i] % BYTE]
  BY WriteChain
<1>5. left[1] = v /\ \A i \in 1..H - 1 : left[i + 1] = left[i] \div BYTE
  BY <1>3, <1>4, WriteIs
<1>6. \A i \in 1..H : p[i] \in 0..BYTE - 1
  BY DEF Header
<1> HIDE DEF H
<1>7. \A i \in 1..H : w[i] \div BYTE = w[i + 1] /\ w[i] % BYTE = p[i]
  <2> SUFFICES ASSUME NEW i \in 1..H PROVE w[i] \div BYTE = w[i + 1] /\ w[i] % BYTE = p[i]
    OBVIOUS
  <2>1. i + 1 \in 1..H + 1
    BY <1>0
  <2> QED BY <1>2, <1>6, <2>1, DivUnique
<1> DEFINE S == {i \in Nat : left[i] = w[i]}
<1>8. 1 \in S
  BY <1>1, <1>5
<1>9. ASSUME NEW i \in 1..H - 1, i \in S PROVE i + 1 \in S
  <2>1. i \in 1..H /\ i + 1 \in Nat
    BY <1>0
  <2> QED BY <1>5, <1>7, <1>9, <2>1
<1>10. \A i \in 1..H : i \in S
  <2> HIDE DEF S
  <2> QED BY <1>0, <1>8, <1>9, Upward
<1>11. \A i \in 1..H : writeU32LE(v)[i] = p[i]
  <2> HIDE DEF v
  <2> QED BY <1>4, <1>7, <1>10
<1> QED BY <1>11 DEF H

-----------------------------------------------------------------------------
(* The inductive invariant *)

Action == Actions \cup {"JOIN", "LEAVE"}
Byte == [v : 0..BYTE - 1, of : Nat]
Record == [action : Action \cup {"CONNECT"}, reply : Int, lat : {0, 1}, ok : BOOLEAN]

SimTypeOK ==
  /\ botAt \in [Bots -> {"connect", "loop", "write", "read", "flush", "done"}]
  /\ asked \in [Bots -> Seq(Action)]
  /\ m_localMetrics \in [Bots -> Seq(Record)]
  /\ servedAt \in [Bots -> {"none", "queued", "read", "write", "closed"}]
  /\ handled \in [Bots -> Seq(BOOLEAN)]
  /\ \A f \in {out, got, reading, writing, toServer, toBot} : f \in [Bots -> Seq(Byte)]
  /\ cut \subseteq Bots /\ players \subseteq Ghosts \cup Bots
  /\ m_stopFlag \in BOOLEAN /\ m_metrics \in Seq(Record)

Request(r) == Frame(r, 1)
RequestLen == HEADER_SIZE + 1
Inbound(b) == reading[b] \o toServer[b]
Outbound(b) == got[b] \o toBot[b]

\* What b has written, or has tried to.
Issued(b) == IF botAt[b] = "write" THEN Len(asked[b]) - 1 ELSE Len(asked[b])

\* Where b is says how far it has come, and what its last request is.
PlaceInv(b) ==
  /\ Len(m_localMetrics[b]) =
       IF botAt[b] \in {"write", "read"} THEN Len(asked[b]) - 1 ELSE Len(asked[b])
  /\ out[b] = IF botAt[b] = "write" THEN Request(Len(asked[b])) ELSE <<>>
  /\ botAt[b] = "connect" => servedAt[b] = "none"
  /\ servedAt[b] = "none" => asked[b] = <<>> /\ botAt[b] \in {"connect", "done"}
  /\ servedAt[b] # "none" => asked[b] # <<>>
  /\ servedAt[b] # "write" => writing[b] = <<>>

\* JOIN comes first and only there, LEAVE last and only there.
AskedInv(b) ==
  /\ \A i \in 1..Len(asked[b]) :
       /\ asked[b][i] = "JOIN" => i = 1
       /\ asked[b][i] = "LEAVE" => i = Len(asked[b]) /\ botAt[b] # "loop"
  /\ asked[b] # <<>> /\ botAt[b] \in {"flush", "done"} => asked[b][Len(asked[b])] = "LEAVE"

\* No frame is read beyond its end.
Within(buf) == HasHeader(buf) /\ ~TooLarge(buf) => Missing(buf) >= 0

\* s holds the requests from h + 1 to n one after the other, or their first bytes.
Requests(s, h, n) ==
  /\ \A k \in Nat, j \in 1..RequestLen :
       k * RequestLen + j <= Len(s) => s[k * RequestLen + j] = Request(h + 1 + k)[j]
  /\ Len(s) <= (n - h) * RequestLen

\* The server finds whole requests, one after the other, from the first that it
\* has not handled.  Only a broken connection ends before the last of them.
RequestsInv(b) ==
  /\ Requests(Inbound(b), Len(handled[b]), Issued(b))
  /\ b \notin cut => Len(Inbound(b)) = (Issued(b) - Len(handled[b])) * RequestLen

\* What is on its way to b are replies to requests the server has handled.
RepliesInv(b) ==
  /\ \A i \in 1..Len(Outbound(b)) : Outbound(b)[i].of \in 1..Len(handled[b])
  /\ servedAt[b] = "write" =>
       /\ Len(handled[b]) > 0
       /\ \E size \in {1, LargeReply} : writing[b] = Frame(Len(handled[b]), size)

\* b has met a reply that was too large.
Oversized(b) ==
  \E i \in 1..Len(m_localMetrics[b]) : m_localMetrics[b][i].reply = OversizeReply

\* s is the reply to request n, or its first bytes.
ReplyTo(s, n) ==
  \E size \in {1, LargeReply} :
    Len(s) <= HEADER_SIZE + size /\ \A i \in 1..Len(s) : s[i] = Frame(n, size)[i]

\* Until a reply is too large, b waits for the one reply there is.
PairedInv(b) ==
  Oversized(b) \/
    /\ Outbound(b) # <<>> =>
         /\ botAt[b] = "read" /\ Len(handled[b]) = Len(asked[b])
         /\ ReplyTo(Outbound(b), Len(asked[b]))
    /\ b \notin cut =>
         /\ Len(handled[b]) >= Len(m_localMetrics[b])
         /\ servedAt[b] = "write" =>
              botAt[b] = "read" /\ Len(handled[b]) = Len(asked[b]) /\ Outbound(b) = <<>>

\* After its LEAVE no player is in the game; a bot whose last request succeeded
\* has had them all handled.
GhostInv(b) ==
  /\ Len(handled[b]) > 0 /\ asked[b][Len(handled[b])] = "LEAVE" => b \notin players
  /\ botAt[b] \in {"flush", "done"} /\ m_localMetrics[b] # <<>> =>
       \/ ~Last(m_localMetrics[b]).ok \/ Oversized(b)
       \/ Len(handled[b]) = Len(asked[b])

BotInv(b) ==
  /\ PlaceInv(b) /\ AskedInv(b) /\ GhostInv(b)
  /\ Within(Values(reading[b])) /\ Within(Values(got[b]))
  /\ RequestsInv(b) /\ RepliesInv(b) /\ PairedInv(b)
SimInv == SimTypeOK /\ \A b \in Bots : BotInv(b)

-----------------------------------------------------------------------------
(* Frames and streams *)

LEMMA ConcatIs ==
  ASSUME NEW S, NEW s \in Seq(S), NEW t \in Seq(S)
  PROVE  /\ s \o t \in Seq(S) /\ Len(s \o t) = Len(s) + Len(t)
         /\ \A i \in 1..Len(s) : (s \o t)[i] = s[i]
         /\ \A i \in 1..Len(t) : (s \o t)[Len(s) + i] = t[i]
  OBVIOUS

\* The length and the header of what has been read.
LEMMA ValuesIs ==
  ASSUME NEW q \in Seq(Byte)
  PROVE  /\ Values(q) \in Seq(0..BYTE - 1) /\ Len(Values(q)) = Len(q)
         /\ \A i \in 1..Len(q) : Values(q)[i] = q[i].v
         /\ HasHeader(Values(q)) <=> Len(q) >= HEADER_SIZE
         /\ HasHeader(Values(q)) => Header(Values(q)) /\ readU32LE(Values(q)) \in Nat
<1>0. \A x \in Byte : x.v \in 0..BYTE - 1
  BY DEF Byte
<1>1. Len(q) \in Nat /\ \A i \in 1..Len(q) : q[i] \in Byte /\ q[i].v \in 0..BYTE - 1
  BY <1>0
<1>2. Values(q) \in Seq(0..BYTE - 1) /\ Len(Values(q)) = Len(q)
      /\ \A i \in 1..Len(q) : Values(q)[i] = q[i].v
  BY <1>1 DEF Values
<1>3. HasHeader(Values(q)) <=> Len(q) >= HEADER_SIZE
  BY <1>2 DEF HasHeader
<1>4. ASSUME Len(q) >= HEADER_SIZE PROVE Header(Values(q))
  <2>1. \A i \in 1..HEADER_SIZE : i \in 1..Len(q)
    BY <1>1, <1>4, ByteAssumption
  <2> QED BY <1>1, <1>2, <2>1 DEF Header
<1> QED BY <1>2, <1>3, <1>4, ReadIs

LEMMA OneFits == 1 \in U32 /\ U32 \subseteq Nat
<1>1. Header(MaxHeader)
  BY ByteAssumption DEF Header, MaxHeader
<1>2. readU32LE(MaxHeader) \in Nat
  BY <1>1, ReadIs
<1> QED BY <1>2, FrameAssumption DEF U32, MaxHeader

LEMMA WriteSeq ==
  ASSUME NEW v \in U32
  PROVE  writeU32LE(v) \in Seq(0..BYTE - 1) /\ Len(writeU32LE(v)) = HEADER_SIZE
<1>1. PICK left : writeU32LE(v) = [i \in 1..HEADER_SIZE |-> left[i] % BYTE]
  BY WriteChain
<1>2. \A i \in 1..HEADER_SIZE : writeU32LE(v)[i] \in 0..BYTE - 1
  BY ReadOfWrite DEF Header
<1> DEFINE w == writeU32LE(v)
<1>3. w = [i \in 1..HEADER_SIZE |-> w[i]]
  BY <1>1
<1> HIDE DEF w
<1>4. w \in Seq(0..BYTE - 1) /\ Len(w) = HEADER_SIZE
  BY <1>2, <1>3, ByteAssumption DEF w
<1> QED BY <1>4 DEF w

LEMMA EncodeIs ==
  ASSUME NEW payload \in Seq(0..BYTE - 1), Len(payload) \in U32
  PROVE  /\ encode(payload) \in Seq(0..BYTE - 1)
         /\ Len(encode(payload)) = HEADER_SIZE + Len(payload)
         /\ \A i \in 1..HEADER_SIZE : encode(payload)[i] = writeU32LE(Len(payload))[i]
         /\ \A i \in 1..Len(payload) : encode(payload)[HEADER_SIZE + i] = payload[i]
<1>1. /\ writeU32LE(Len(payload)) \in Seq(0..BYTE - 1)
      /\ Len(writeU32LE(Len(payload))) = HEADER_SIZE
  BY WriteSeq
<1> DEFINE w == writeU32LE(Len(payload))
<1>2. Len(payload) \in Nat /\ Len(w) = HEADER_SIZE /\ HEADER_SIZE \in Nat
  BY <1>1, ByteAssumption
<1> HIDE DEF w
<1>3. w \in Seq(0..BYTE - 1)
  BY <1>1 DEF w
<1>4. /\ w \o payload \in Seq(0..BYTE - 1) /\ Len(w \o payload) = HEADER_SIZE + Len(payload)
      /\ \A i \in 1..HEADER_SIZE + Len(payload) :
           (w \o payload)[i] = IF i <= HEADER_SIZE THEN w[i] ELSE payload[i - HEADER_SIZE]
  BY <1>2, <1>3, ConcatProperties
<1>5. \A i \in 1..HEADER_SIZE : (w \o payload)[i] = w[i]
  BY <1>2, <1>4
<1>6. \A i \in 1..Len(payload) : (w \o payload)[HEADER_SIZE + i] = payload[i]
  BY <1>2, <1>4
<1> QED BY <1>4, <1>5, <1>6 DEF encode, w

\* A frame is a header with its size and then so many bytes.
LEMMA FrameIs ==
  ASSUME NEW r \in Nat, NEW size \in U32
  PROVE  /\ Frame(r, size) \in Seq(Byte) /\ Len(Frame(r, size)) = HEADER_SIZE + size
         /\ \A i \in 1..HEADER_SIZE + size : Frame(r, size)[i].of = r
         /\ \A i \in 1..HEADER_SIZE : Frame(r, size)[i].v = writeU32LE(size)[i]
<1> DEFINE text == [i \in 1..size |-> TEXT]
           bytes == encode(text)
<1>1. size \in Nat
  BY OneFits
<1>2. text \in Seq(0..BYTE - 1) /\ Len(text) = size
  BY <1>1, SimulatorAssumption
<1> HIDE DEF text
<1>3. /\ bytes \in Seq(0..BYTE - 1) /\ Len(bytes) = HEADER_SIZE + size
      /\ \A i \in 1..HEADER_SIZE : bytes[i] = writeU32LE(size)[i]
  BY <1>2, EncodeIs
<1>4. Frame(r, size) = [i \in 1..Len(bytes) |-> [v |-> bytes[i], of |-> r]]
  BY DEF Frame, text
<1> HIDE DEF bytes
<1>5. \A i \in 1..Len(bytes) : bytes[i] \in 0..BYTE - 1
  BY <1>3, ElementOfSeq
<1>6. HEADER_SIZE + size \in Nat /\ HEADER_SIZE \in Nat
  BY <1>1, ByteAssumption
<1>7. Len(bytes) \in Nat /\ \A i \in 1..Len(bytes) : [v |-> bytes[i], of |-> r] \in Byte
  BY <1>3, <1>5, <1>6 DEF Byte
<1>8. Frame(r, size) \in Seq(Byte) /\ Len(Frame(r, size)) = HEADER_SIZE + size
  BY <1>3, <1>4, <1>7
<1>9. \A i \in 1..HEADER_SIZE : i \in 1..HEADER_SIZE + size
  BY <1>1, <1>6
<1>10. \A i \in 1..HEADER_SIZE + size : Frame(r, size)[i] = [v |-> bytes[i], of |-> r]
  BY <1>3, <1>4
<1>11. \A i \in 1..HEADER_SIZE + size : Frame(r, size)[i].v = bytes[i] /\ Frame(r, size)[i].of = r
  <2> SUFFICES ASSUME NEW i \in 1..HEADER_SIZE + size
               PROVE  Frame(r, size)[i].v = bytes[i] /\ Frame(r, size)[i].of = r
    OBVIOUS
  <2>1. Frame(r, size)[i] = [v |-> bytes[i], of |-> r]
    BY <1>10
  <2> QED BY <2>1
<1>12. \A i \in 1..HEADER_SIZE : Frame(r, size)[i].v = writeU32LE(size)[i]
  BY <1>3, <1>9, <1>11
<1> QED BY <1>8, <1>11, <1>12

\* What begins like a frame has the header of that frame.
LEMMA HeaderOfFrame ==
  ASSUME NEW q \in Seq(Byte), Len(q) >= HEADER_SIZE, NEW r \in Nat, NEW size \in U32,
         \A i \in 1..HEADER_SIZE : q[i] = Frame(r, size)[i]
  PROVE  readU32LE(Values(q)) = size
<1>1. \A i \in 1..HEADER_SIZE : i \in 1..Len(q)
  BY ByteAssumption
<1>2. \A i \in 1..HEADER_SIZE : Values(q)[i] = writeU32LE(size)[i]
  <2> SUFFICES ASSUME NEW i \in 1..HEADER_SIZE PROVE Values(q)[i] = writeU32LE(size)[i]
    OBVIOUS
  <2>1. Values(q)[i] = q[i].v
    BY <1>1, ValuesIs
  <2>2. Frame(r, size)[i].v = writeU32LE(size)[i]
    BY FrameIs
  <2> QED BY <2>1, <2>2
<1> QED BY <1>2, ReadOfWrite, ReadIs

\* It is whole when it has all of that frame, and no more.
LEMMA WholeFrame ==
  ASSUME NEW q \in Seq(Byte), NEW r \in Nat, NEW size \in U32,
         \A i \in 1..HEADER_SIZE : i <= Len(q) => q[i] = Frame(r, size)[i],
         Complete(Values(q))
  PROVE  Len(q) = HEADER_SIZE + size
<1>1. Len(q) >= HEADER_SIZE /\ Len(Values(q)) = Len(q) /\ Len(q) \in Nat
  BY ValuesIs DEF Complete
<1>2. \A i \in 1..HEADER_SIZE : q[i] = Frame(r, size)[i]
  BY <1>1, ByteAssumption
<1>3. readU32LE(Values(q)) = size
  BY <1>1, <1>2, HeaderOfFrame
<1> QED BY <1>1, <1>3, OneFits, ByteAssumption DEF Complete, Missing, HasHeader

LEMMA PieceIs ==
  ASSUME NEW buf \in Seq(Byte), NEW stream \in Seq(Byte),
         ~Complete(Values(buf)), ~TooLarge(Values(buf)), Within(Values(buf)),
         NEW n \in Pieces(buf, stream)
  PROVE  n \in 1..Len(stream) /\ n <= Missing(Values(buf))
<1> DEFINE m == Missing(Values(buf))
           l == Len(stream)
<1>1. m \in Int /\ l \in Nat
  <2>1. /\ HasHeader(Values(buf)) => readU32LE(Values(buf)) \in Nat
        /\ Len(Values(buf)) \in Nat
    BY ValuesIs
  <2> QED BY <2>1, ByteAssumption DEF Missing
<1> HIDE DEF m, l
<1>2. \E x \in {m, l} : \A y \in {m, l} : x <= y
  BY <1>1
<1>3. Min({m, l}) \in {m, l} /\ \A y \in {m, l} : Min({m, l}) <= y
  BY <1>2 DEF Min
<1>4. n \in 1..Min({m, l})
  BY DEF Pieces, m, l
<1>5. n \in 1..l /\ n <= m
  BY <1>1, <1>3, <1>4
<1> QED BY <1>5 DEF m, l

LEMMA ConcatBytes ==
  \A s, t, u \in Seq(Byte) : (s \o t) \o u = s \o (t \o u)
<1> DEFINE B == Byte
<1> SUFFICES ASSUME NEW s \in Seq(B), NEW t \in Seq(B), NEW u \in Seq(B)
             PROVE  (s \o t) \o u = s \o (t \o u)
  BY Zenon DEF B
<1> HIDE DEF B
<1> QED BY ConcatAssociative, SMTT(60)

\* recv() moves bytes from the stream to what has been read, and loses none.
LEMMA MoveIs ==
  ASSUME NEW buf \in Seq(Byte), NEW stream \in Seq(Byte), NEW n \in 1..Len(stream)
  PROVE  /\ buf \o First(stream, n) \in Seq(Byte) /\ Rest(stream, n) \in Seq(Byte)
         /\ Len(buf \o First(stream, n)) = Len(buf) + n
         /\ \A i \in 1..Len(buf) : (buf \o First(stream, n))[i] = buf[i]
         /\ (buf \o First(stream, n)) \o Rest(stream, n) = buf \o stream
<1>1. First(stream, n) \in Seq(Byte) /\ Len(First(stream, n)) = n
  BY DEF First
<1>2. Rest(stream, n) \in Seq(Byte)
  BY DEF Rest
<1>3. First(stream, n) \o Rest(stream, n) = stream
  BY ConcatAdjacentSubSeq, SubSeqFull DEF First, Rest
<1>4. (buf \o First(stream, n)) \o Rest(stream, n) = buf \o (First(stream, n) \o Rest(stream, n))
  <2> DEFINE x == First(stream, n) y == Rest(stream, n)
  <2>1. x \in Seq(Byte) /\ y \in Seq(Byte)
    BY <1>1, <1>2
  <2> HIDE DEF x, y
  <2>2. (buf \o x) \o y = buf \o (x \o y)
    BY <2>1, ConcatBytes, Zenon
  <2> QED BY <2>2 DEF x, y
<1>5. /\ buf \o First(stream, n) \in Seq(Byte) /\ Len(buf \o First(stream, n)) = Len(buf) + n
      /\ \A i \in 1..Len(buf) : (buf \o First(stream, n))[i] = buf[i]
  <2> HIDE DEF First
  <2> QED BY <1>1
<1> QED BY <1>2, <1>3, <1>4, <1>5

LEMMA WithinKept ==
  ASSUME NEW buf \in Seq(Byte), NEW stream \in Seq(Byte),
         ~Complete(Values(buf)), ~TooLarge(Values(buf)), Within(Values(buf)),
         NEW n \in Pieces(buf, stream)
  PROVE  Within(Values(buf \o First(stream, n)))
<1> DEFINE q == buf \o First(stream, n)
           H == HEADER_SIZE
<1>0. H \in Nat
  BY ByteAssumption
<1>1. n \in 1..Len(stream) /\ n <= Missing(Values(buf))
  BY PieceIs
<1>2. q \in Seq(Byte) /\ Len(q) = Len(buf) + n /\ \A i \in 1..Len(buf) : q[i] = buf[i]
  BY <1>1, MoveIs
<1> HIDE DEF q
<1>3. Len(buf) \in Nat /\ n \in Nat /\ Len(q) \in Nat
  BY <1>1, <1>2
<1>4. Len(Values(q)) = Len(q) /\ Len(Values(buf)) = Len(buf)
  BY <1>2, ValuesIs
<1>5. CASE Len(buf) >= H
  <2>1. \A i \in 1..H : i \in 1..Len(buf) /\ i \in 1..Len(q)
    BY <1>0, <1>2, <1>3, <1>5
  <2>2. \A i \in 1..H : Values(q)[i] = Values(buf)[i]
    BY <1>2, <2>1, ValuesIs
  <2>3. readU32LE(Values(q)) = readU32LE(Values(buf))
    BY <1>5, <2>2, ValuesIs, ReadIs
  <2>4. HasHeader(Values(buf)) /\ readU32LE(Values(buf)) \in Nat
    BY <1>5, ValuesIs
  <2> DEFINE r == readU32LE(Values(buf))
  <2>5. Missing(Values(buf)) = (H + r) - Len(buf)
    BY <1>4, <2>4 DEF Missing
  <2>6. HasHeader(Values(q))
    BY <1>0, <1>2, <1>3, <1>5, ValuesIs
  <2>7. Missing(Values(q)) = (H + r) - Len(q)
    BY <1>4, <2>3, <2>6 DEF Missing
  <2>8. r \in Nat
    BY <2>4
  <2> HIDE DEF r
  <2>9. Missing(Values(q)) >= 0
    BY <1>0, <1>1, <1>2, <1>3, <2>5, <2>7, <2>8
  <2> QED BY <2>9 DEF Within, q
<1>6. CASE Len(buf) < H
  <2>1. Missing(Values(buf)) = H - Len(buf)
    BY <1>0, <1>3, <1>4, <1>6 DEF Missing, HasHeader
  <2>2. Len(q) <= H
    BY <1>0, <1>1, <1>2, <1>3, <2>1
  <2>3. HasHeader(Values(q)) => Len(q) = H /\ readU32LE(Values(q)) \in Nat
    BY <1>0, <1>2, <1>3, <2>2, ValuesIs
  <2>4. HasHeader(Values(q)) => Missing(Values(q)) = (H + readU32LE(Values(q))) - H
    BY <1>4, <2>3 DEF Missing
  <2>5. HasHeader(Values(q)) => Missing(Values(q)) >= 0
    BY <1>0, <2>3, <2>4
  <2> QED BY <2>5 DEF Within, q
<1> QED BY <1>0, <1>3, <1>5, <1>6

-----------------------------------------------------------------------------
(* decode *)

LEMMA SuffixIs ==
  ASSUME NEW S, NEW s \in Seq(S), NEW m \in 0..Len(s)
  PROVE  /\ SubSeq(s, m + 1, Len(s)) \in Seq(S) /\ Len(SubSeq(s, m + 1, Len(s))) = Len(s) - m
         /\ \A i \in 1..Len(s) - m : SubSeq(s, m + 1, Len(s))[i] = s[m + i]
  OBVIOUS

LEMMA DecodeCases ==
  ASSUME NEW buf \in Seq(0..BYTE - 1)
  PROVE  LET total == HEADER_SIZE + readU32LE(buf)
         IN  /\ TooLarge(buf) => decode(buf).result = "throw"
             /\ ~TooLarge(buf) /\ (~HasHeader(buf) \/ Len(buf) < total) =>
                  decode(buf).result = "more"
             /\ HasHeader(buf) /\ ~TooLarge(buf) /\ ~(Len(buf) < total) =>
                  decode(buf) = [result |-> "message",
                                 out |-> SubSeq(buf, HEADER_SIZE + 1, total),
                                 rest |-> SubSeq(buf, total + 1, Len(buf))]
  BY DEF decode, NeedMore

LEMMA HeaderIs ==
  ASSUME NEW buf \in Seq(0..BYTE - 1), HasHeader(buf)
  PROVE  Header(buf) /\ readU32LE(buf) \in U32 /\ readU32LE(buf) \in Nat
<1>1. \A i \in 1..HEADER_SIZE : i \in 1..Len(buf)
  BY ByteAssumption DEF HasHeader
<1>2. Header(buf)
  BY <1>1, ElementOfSeq DEF Header
<1> QED BY <1>2, ReadIs

\* What follows a frame in the stream does not change what decode takes.
LEMMA DecodeFront ==
  ASSUME NEW buf \in Seq(0..BYTE - 1), NEW more \in Seq(0..BYTE - 1), Complete(buf)
  PROVE  /\ decode(buf \o more).result = "message" /\ decode(buf \o more).rest = more
         /\ decode(buf \o more).out = SubSeq(buf, HEADER_SIZE + 1, Len(buf))
<1> DEFINE H == HEADER_SIZE
           r == readU32LE(buf)
           all == buf \o more
<1>0. H \in Nat /\ Len(buf) \in Nat /\ Len(more) \in Nat
  BY ByteAssumption
<1>1. HasHeader(buf) /\ Len(buf) >= H /\ ~TooLarge(buf)
  BY DEF Complete, HasHeader
<1>2. r \in Nat /\ Header(buf) /\ r <= MAX_MESSAGE_SIZE
  <2>1. MAX_MESSAGE_SIZE \in Nat
    BY FrameAssumption, OneFits
  <2>2. Header(buf) /\ r \in Nat
    BY <1>1, HeaderIs
  <2>3. ~(r > MAX_MESSAGE_SIZE)
    BY <1>1 DEF TooLarge
  <2> HIDE DEF r
  <2> QED BY <2>1, <2>2, <2>3
<1>3. Len(buf) = H + r
  <2>1. (H + r) - Len(buf) = 0
    BY <1>1 DEF Complete, Missing
  <2> HIDE DEF r, H
  <2> QED BY <1>0, <1>2, <2>1
<1>4. /\ all \in Seq(0..BYTE - 1) /\ Len(all) = Len(buf) + Len(more)
      /\ \A i \in 1..Len(buf) : all[i] = buf[i]
      /\ \A i \in 1..Len(more) : all[Len(buf) + i] = more[i]
  OBVIOUS
<1>5. readU32LE(all) = r
  <2>1. \A i \in 1..H : all[i] = buf[i]
    BY <1>0, <1>1, <1>4
  <2> QED BY <1>2, <2>1, ReadIs
<1> HIDE DEF all, r
<1>6. HasHeader(all) /\ ~TooLarge(all) /\ ~(Len(all) < H + r)
  BY <1>0, <1>1, <1>2, <1>3, <1>4, <1>5, FrameAssumption, OneFits DEF HasHeader, TooLarge
<1>7. decode(all) = [result |-> "message", out |-> SubSeq(all, H + 1, H + r),
                     rest |-> SubSeq(all, (H + r) + 1, Len(all))]
  BY <1>4, <1>5, <1>6, DecodeCases
<1>8. SubSeq(all, H + 1, H + r) = SubSeq(buf, H + 1, Len(buf))
  BY <1>0, <1>2, <1>3, <1>4
<1>9. SubSeq(all, (H + r) + 1, Len(all)) = more
  <2>1. Len(buf) \in 0..Len(all) /\ Len(all) - Len(buf) = Len(more)
    BY <1>0, <1>4
  <2>2. /\ SubSeq(all, Len(buf) + 1, Len(all)) \in Seq(0..BYTE - 1)
        /\ Len(SubSeq(all, Len(buf) + 1, Len(all))) = Len(more)
    BY <1>4, <2>1, SuffixIs
  <2>3. \A i \in 1..Len(more) : SubSeq(all, Len(buf) + 1, Len(all))[i] = more[i]
    BY <1>4, <2>1, SuffixIs
  <2> QED BY <1>3, <2>2, <2>3, SeqEqual
<1>10. decode(all).result = "message" /\ decode(all).rest = more
       /\ decode(all).out = SubSeq(buf, H + 1, Len(buf))
  <2> DEFINE a == SubSeq(all, H + 1, H + r)
             z == SubSeq(all, (H + r) + 1, Len(all))
  <2>1. decode(all) = [result |-> "message", out |-> a, rest |-> z]
    BY <1>7
  <2> HIDE DEF a, z
  <2>2. decode(all).result = "message" /\ decode(all).rest = z /\ decode(all).out = a
    BY <2>1
  <2> QED BY <1>8, <1>9, <2>2 DEF a, z
<1> QED BY <1>10 DEF all

\* A frame read whole is the frame that encode makes of its payload.
LEMMA EncodeOfDecode ==
  ASSUME NEW buf \in Seq(0..BYTE - 1), Complete(buf)
  PROVE  encode(SubSeq(buf, HEADER_SIZE + 1, Len(buf))) = buf
<1> DEFINE H == HEADER_SIZE
           r == readU32LE(buf)
           taken == SubSeq(buf, H + 1, Len(buf))
<1>0. H \in Nat /\ Len(buf) \in Nat
  BY ByteAssumption
<1>1. HasHeader(buf) /\ Len(buf) >= H /\ (H + r) - Len(buf) = 0
  BY DEF Complete, HasHeader, Missing
<1>2. r \in U32 /\ r \in Nat /\ Header(buf)
  BY <1>1, HeaderIs
<1>3. \A i \in 1..H : writeU32LE(r)[i] = buf[i]
  BY <1>2, WriteOfRead
<1> HIDE DEF r
<1>4. Len(buf) = H + r
  BY <1>0, <1>1, <1>2
<1>5. /\ taken \in Seq(0..BYTE - 1) /\ Len(taken) = r
      /\ \A i \in 1..r : taken[i] = buf[H + i]
  <2>1. H \in 0..Len(buf) /\ Len(buf) - H = r
    BY <1>0, <1>2, <1>4
  <2> QED BY <2>1, SuffixIs
<1> HIDE DEF taken, H
<1>6. /\ encode(taken) \in Seq(0..BYTE - 1) /\ Len(encode(taken)) = H + r
      /\ \A i \in 1..H : encode(taken)[i] = writeU32LE(r)[i]
      /\ \A i \in 1..r : encode(taken)[H + i] = taken[i]
  BY <1>2, <1>5, EncodeIs DEF H
<1>7. ASSUME NEW i \in 1..H + r PROVE encode(taken)[i] = buf[i]
  <2>1. CASE i \in 1..H
    BY <1>3, <1>6, <2>1
  <2>2. CASE ~(i \in 1..H)
    <3>1. i - H \in 1..r /\ H + (i - H) = i
      BY <1>0, <1>2, <2>2
    <3> QED BY <1>5, <1>6, <3>1
  <2> QED BY <2>1, <2>2
<1>8. encode(taken) = buf
  BY <1>4, <1>6, <1>7, SeqEqual
<1> QED BY <1>8 DEF taken, H

\* What decode says of a frame that has been read so far, and what it takes.
LEMMA DecodeIs ==
  ASSUME NEW buf \in Seq(0..BYTE - 1), NEW more \in Seq(0..BYTE - 1), Within(buf)
  PROVE  /\ decode(buf).result = "message" <=> Complete(buf)
         /\ decode(buf).result = "throw" <=> TooLarge(buf)
         /\ Complete(buf) =>
              /\ encode(decode(buf).out) = buf /\ decode(buf).rest = <<>>
              /\ decode(buf \o more).out = decode(buf).out
              /\ decode(buf \o more).rest = more
<1> DEFINE H == HEADER_SIZE
           r == readU32LE(buf)
<1>0. H \in Nat /\ Len(buf) \in Nat
  BY ByteAssumption
<1>1. CASE TooLarge(buf)
  BY <1>1, DecodeCases DEF Complete
<1>2. CASE ~TooLarge(buf) /\ (~HasHeader(buf) \/ Len(buf) < H + r)
  <2>1. decode(buf).result = "more"
    BY <1>2, DecodeCases
  <2>2. ~Complete(buf)
    <3> SUFFICES ASSUME HasHeader(buf), Missing(buf) = 0, Len(buf) < H + r PROVE FALSE
      BY <1>2 DEF Complete
    <3>1. r \in Nat
      BY HeaderIs
    <3>2. (H + r) - Len(buf) = 0
      BY DEF Missing
    <3> HIDE DEF r
    <3> QED BY <1>0, <3>1, <3>2
  <2> QED BY <1>2, <2>1, <2>2
<1>3. CASE HasHeader(buf) /\ ~TooLarge(buf) /\ ~(Len(buf) < H + r)
  <2>1. r \in Nat
    BY <1>3, HeaderIs
  <2>2. Missing(buf) = (H + r) - Len(buf) /\ Missing(buf) >= 0
    BY <1>3 DEF Missing, Within
  <2>3. Missing(buf) = 0
    <3> HIDE DEF r
    <3> QED BY <1>0, <1>3, <2>1, <2>2
  <2>4. Complete(buf)
    BY <1>3, <2>3 DEF Complete
  <2>5. <<>> \in Seq(0..BYTE - 1) /\ buf \o <<>> = buf
    BY ConcatEmptySeq
  <2>6. /\ decode(buf).result = "message" /\ decode(buf).rest = <<>>
        /\ decode(buf).out = SubSeq(buf, HEADER_SIZE + 1, Len(buf))
    <3>1. /\ decode(buf \o <<>>).result = "message" /\ decode(buf \o <<>>).rest = <<>>
          /\ decode(buf \o <<>>).out = SubSeq(buf, HEADER_SIZE + 1, Len(buf))
      <4> DEFINE none == <<>>
      <4>1. none \in Seq(0..BYTE - 1)
        BY <2>5
      <4> HIDE DEF none
      <4>2. /\ decode(buf \o none).result = "message" /\ decode(buf \o none).rest = none
            /\ decode(buf \o none).out = SubSeq(buf, HEADER_SIZE + 1, Len(buf))
        BY <2>4, <4>1, DecodeFront
      <4> QED BY <4>2 DEF none
    <3> QED BY <2>5, <3>1
  <2>7. decode(buf \o more).rest = more /\ decode(buf \o more).out = decode(buf).out
    BY <2>4, <2>6, DecodeFront
  <2>8. encode(decode(buf).out) = buf
    BY <2>4, <2>6, EncodeOfDecode
  <2> QED BY <1>3, <2>4, <2>6, <2>7, <2>8
<1> QED BY <1>1, <1>2, <1>3

\* Framing is lossless: decode takes from the front of a buffer the message that
\* encode framed there, and leaves what follows (MessageFramer::encode, decode).
THEOREM DecodeEncode ==
  ASSUME NEW payload \in Seq(0..BYTE - 1), Len(payload) <= MAX_MESSAGE_SIZE,
         NEW more \in Seq(0..BYTE - 1)
  PROVE  /\ decode(encode(payload) \o more).result = "message"
         /\ decode(encode(payload) \o more).out = payload
         /\ decode(encode(payload) \o more).rest = more
<1> DEFINE H == HEADER_SIZE
           buf == encode(payload)
           n == Len(payload)
<1>0. H \in Nat /\ n \in Nat
  BY ByteAssumption
<1>1. n \in U32
  <2> DEFINE m == readU32LE([i \in 1..HEADER_SIZE |-> BYTE - 1])
  <2>1. U32 = 0..m
    BY DEF U32
  <2>0. m \in Nat
    <3> USE DEF MaxHeader
    <3>1. Header(MaxHeader)
      BY ByteAssumption DEF Header
    <3> QED BY <3>1, ReadIs
  <2> HIDE DEF m, n
  <2>2. MAX_MESSAGE_SIZE \in 0..m /\ n <= MAX_MESSAGE_SIZE
    BY <2>1, FrameAssumption DEF n
  <2> QED BY <1>0, <2>0, <2>1, <2>2
<1>2. /\ buf \in Seq(0..BYTE - 1) /\ Len(buf) = H + n
      /\ \A i \in 1..H : buf[i] = writeU32LE(n)[i]
      /\ \A i \in 1..n : buf[H + i] = payload[i]
  BY <1>1, EncodeIs
<1>3. readU32LE(buf) = n
  BY <1>1, <1>2, ReadOfWrite, ReadIs
<1> HIDE DEF buf
<1>4. Complete(buf)
  BY <1>0, <1>2, <1>3, FrameAssumption, OneFits DEF Complete, HasHeader, TooLarge, Missing
<1>5. SubSeq(buf, H + 1, Len(buf)) = payload
  BY <1>0, <1>2, SeqEqual
<1> QED BY <1>2, <1>4, <1>5, DecodeFront DEF buf

-----------------------------------------------------------------------------
(* Requests one after the other *)

LEMMA BlockOrder ==
  ASSUME NEW L \in Nat \ {0}, NEW k \in Int, NEW m \in Int, NEW j \in 1..L
  PROVE  k * L + j > m * L <=> k >= m
<1>1. ASSUME NEW x \in Int, NEW y \in Int, x <= y PROVE x * L <= y * L
  <2>1. y - x \in Nat /\ y * L = x * L + (y - x) * L
    BY <1>1
  <2>2. (y - x) * L \in Nat
    BY <2>1
  <2> QED BY <2>1, <2>2
<1>2. CASE k >= m
  BY <1>1, <1>2
<1>3. CASE k < m
  <2>1. (k + 1) * L <= m * L
    BY <1>1, <1>3
  <2>2. (k + 1) * L = k * L + L
    OBVIOUS
  <2> QED BY <1>3, <2>1, <2>2
<1> QED BY <1>2, <1>3

LEMMA RequestIs ==
  ASSUME NEW r \in Nat
  PROVE  /\ Request(r) \in Seq(Byte) /\ Len(Request(r)) = RequestLen
         /\ \A i \in 1..RequestLen : Request(r)[i].of = r
  BY FrameIs, OneFits DEF Request, RequestLen

LEMMA RequestLenType == RequestLen \in Nat \ {0} /\ RequestLen > HEADER_SIZE
  BY ByteAssumption DEF RequestLen

LEMMA RequestsPrefix ==
  ASSUME NEW s \in Seq(Byte), NEW t \in Seq(Byte), Len(t) <= Len(s),
         \A i \in 1..Len(t) : t[i] = s[i],
         NEW h \in Nat, NEW n \in Int, NEW m \in Int, n <= m, Requests(s, h, n)
  PROVE  Requests(t, h, m)
<1>0. RequestLen \in Nat \ {0} /\ Len(s) \in Nat /\ Len(t) \in Nat
  BY RequestLenType
<1>1. (n - h) * RequestLen <= (m - h) * RequestLen
  <2>1. m - n \in Nat /\ (m - h) * RequestLen = (n - h) * RequestLen + (m - n) * RequestLen
    BY <1>0
  <2>2. (m - n) * RequestLen \in Nat
    BY <1>0, <2>1
  <2> QED BY <1>0, <2>1, <2>2
<1>2. Len(t) <= (m - h) * RequestLen
  BY <1>0, <1>1 DEF Requests
<1>3. ASSUME NEW k \in Nat, NEW j \in 1..RequestLen, k * RequestLen + j <= Len(t)
      PROVE  t[k * RequestLen + j] = Request(h + 1 + k)[j]
  <2>1. k * RequestLen \in Nat
    BY <1>0
  <2>2. k * RequestLen + j \in 1..Len(t) /\ k * RequestLen + j <= Len(s)
    BY <1>0, <1>3, <2>1
  <2> QED BY <2>2 DEF Requests
<1> QED BY <1>2, <1>3 DEF Requests

\* One more request at the end of a stream that lacks nothing.
LEMMA RequestsSend ==
  ASSUME NEW s \in Seq(Byte), NEW h \in Nat, NEW n \in Nat,
         Requests(s, h, n), Len(s) = (n - h) * RequestLen
  PROVE  /\ Requests(s \o Request(n + 1), h, n + 1)
         /\ Len(s \o Request(n + 1)) = (n + 1 - h) * RequestLen
<1> DEFINE L == RequestLen
           t == s \o Request(n + 1)
<1>0. L \in Nat \ {0} /\ Len(s) \in Nat /\ n - h \in Int
  BY RequestLenType
<1>1. Request(n + 1) \in Seq(Byte) /\ Len(Request(n + 1)) = L
  BY RequestIs
<1>2. /\ Len(t) = Len(s) + L
      /\ \A i \in 1..Len(s) : t[i] = s[i]
      /\ \A i \in 1..L : t[Len(s) + i] = Request(n + 1)[i]
  BY <1>0, <1>1
<1> HIDE DEF t, L
<1>3. (n + 1 - h) * L = (n - h) * L + L
  BY <1>0
<1>4. Len(t) = (n + 1 - h) * L
  BY <1>2, <1>3 DEF L
<1>5. ASSUME NEW k \in Nat, NEW j \in 1..L, k * L + j <= Len(t)
      PROVE  t[k * L + j] = Request(h + 1 + k)[j]
  <2>0. k * L \in Nat
    BY <1>0
  <2>1. CASE k * L + j <= Len(s)
    <3>1. k * L + j \in 1..Len(s)
      BY <1>0, <2>0, <2>1
    <3> QED BY <1>2, <2>1, <3>1 DEF Requests, L
  <2>2. CASE k * L + j > Len(s)
    <3>1. k >= n - h
      BY <1>0, <2>2, BlockOrder DEF L
    <3>2. ~(k * L + j > (n + 1 - h) * L)
      BY <1>0, <1>4, <1>5, <2>0
    <3>3. ~(k >= n + 1 - h)
      BY <1>0, <3>2, BlockOrder
    <3>4. k = n - h
      BY <3>1, <3>3
    <3>5. k * L + j = Len(s) + j /\ h + 1 + k = n + 1
      BY <3>4 DEF L
    <3> QED BY <1>2, <3>5
  <2> QED BY <1>0, <2>0, <2>1, <2>2
<1>6. Len(t) <= (n + 1 - h) * L
  BY <1>0, <1>2, <1>4
<1>7. Requests(t, h, n + 1)
  BY <1>5, <1>6 DEF Requests, L
<1> QED BY <1>4, <1>7 DEF t, L

\* A whole request has been read: it is the next one.
LEMMA RequestsTake ==
  ASSUME NEW a \in Seq(Byte), NEW rest \in Seq(Byte), NEW h \in Nat, NEW n \in Int,
         Requests(a \o rest, h, n), Complete(Values(a))
  PROVE  /\ Len(a) = RequestLen /\ a[1].of = h + 1 /\ h < n
         /\ Requests(rest, h + 1, n)
         /\ Len(a \o rest) = (n - h) * RequestLen => Len(rest) = (n - (h + 1)) * RequestLen
<1> DEFINE L == RequestLen
           s == a \o rest
<1>0. L \in Nat \ {0} /\ L > HEADER_SIZE /\ HEADER_SIZE \in Nat /\ Len(a) \in Nat /\ Len(rest) \in Nat
  BY RequestLenType, ByteAssumption
<1>1. /\ s \in Seq(Byte) /\ Len(s) = Len(a) + Len(rest)
      /\ \A i \in 1..Len(a) : s[i] = a[i]
      /\ \A i \in 1..Len(rest) : s[Len(a) + i] = rest[i]
  OBVIOUS
<1>2. ASSUME NEW j \in 1..L, j <= Len(a) PROVE a[j] = Request(h + 1)[j]
  <2>1. 0 * L + j = j /\ h + 1 + 0 = h + 1 /\ j <= Len(s) /\ j \in 1..Len(a)
    BY <1>0, <1>1, <1>2
  <2>2. s[0 * L + j] = Request(h + 1 + 0)[j]
    BY <2>1 DEF Requests
  <2> QED BY <1>1, <2>1, <2>2
<1>3. Len(a) = L
  <2>1. \A i \in 1..HEADER_SIZE : i <= Len(a) => a[i] = Frame(h + 1, 1)[i]
    BY <1>0, <1>2 DEF Request
  <2> QED BY <2>1, WholeFrame, OneFits DEF RequestLen
<1>4. a[1].of = h + 1
  BY <1>0, <1>2, <1>3, RequestIs
<1> HIDE DEF L, s
<1>5. h < n
  <2>1. L <= (n - h) * L
    BY <1>0, <1>1, <1>3 DEF Requests, s, L
  <2>4. ~(0 * L + L > (n - h) * L)
    BY <1>0, <2>1
  <2>5. ~(0 >= n - h)
    BY <1>0, <2>4, BlockOrder
  <2> QED BY <2>5
<1>6. (n - h) * L = (n - (h + 1)) * L + L
  BY <1>0
<1>7. Len(rest) <= (n - (h + 1)) * L
  <2>1. Len(s) <= (n - h) * L
    BY DEF Requests, s, L
  <2> QED BY <1>0, <1>1, <1>3, <1>6, <2>1
<1>8. ASSUME NEW k \in Nat, NEW j \in 1..L, k * L + j <= Len(rest)
      PROVE  rest[k * L + j] = Request(h + 1 + 1 + k)[j]
  <2>1. k * L \in Nat /\ (k + 1) * L + j = L + (k * L + j)
    BY <1>0
  <2>2. k * L + j \in 1..Len(rest) /\ (k + 1) * L + j <= Len(s)
    <3> DEFINE x == k * L + j
    <3>1. x \in Nat /\ x >= 1 /\ x <= Len(rest)
      BY <1>0, <1>8, <2>1
    <3> HIDE DEF x
    <3>2. x \in 1..Len(rest) /\ L + x <= Len(s)
      BY <1>0, <1>1, <1>3, <3>1
    <3> QED BY <2>1, <3>2 DEF x
  <2>3. s[(k + 1) * L + j] = rest[k * L + j]
    BY <1>1, <1>3, <2>1, <2>2
  <2>4. s[(k + 1) * L + j] = Request(h + 1 + (k + 1))[j]
    <3>1. k + 1 \in Nat
      OBVIOUS
    <3> QED BY <2>2, <3>1 DEF Requests, s, L
  <2>5. h + 1 + (k + 1) = h + 1 + 1 + k
    OBVIOUS
  <2> QED BY <2>3, <2>4, <2>5
<1>9. Len(s) = (n - h) * L => Len(rest) = (n - (h + 1)) * L
  BY <1>0, <1>1, <1>3, <1>6
<1> QED BY <1>3, <1>4, <1>5, <1>7, <1>8, <1>9 DEF Requests, s, L

-----------------------------------------------------------------------------
(* The invariant of one bot is disturbed by steps about that bot only *)

\* One case per action: what a step about b is.
StepOf(b) ==
  \/ connectSocket(b) \/ Act(b) \/ Leave(b) \/ Flush(b)
  \/ BotWrites(b) \/ BotWriteFails(b)
  \/ BotReads(b) \/ BotReadFails(b) \/ BotRefuses(b) \/ BotParses(b)
  \/ ConnectFails(b)
  \/ Serve(b) \/ ServerReads(b) \/ dispatch(b) \/ ServerWrites(b) \/ ServerCloses(b)
  \/ Break(b)

LEMMA StepCases ==
  ASSUME [SimNext]_simVars
  PROVE  \/ \E b \in Bots : StepOf(b)
         \/ signalHandler \/ RunReturns \/ UNCHANGED simVars
  BY DEF SimNext, BotStep, ServerStep, StepOf

\* Nothing of c changes, but that its player may be eliminated.
Same(c) ==
  /\ botAt'[c] = botAt[c] /\ asked'[c] = asked[c] /\ out'[c] = out[c] /\ got'[c] = got[c]
  /\ m_localMetrics'[c] = m_localMetrics[c] /\ servedAt'[c] = servedAt[c]
  /\ reading'[c] = reading[c] /\ writing'[c] = writing[c] /\ handled'[c] = handled[c]
  /\ toServer'[c] = toServer[c] /\ toBot'[c] = toBot[c]
  /\ (c \in cut' <=> c \in cut) /\ (c \in players' => c \in players)

LEMMA SameKept ==
  ASSUME NEW c, Same(c), BotInv(c)
  PROVE  BotInv(c)'
<1> USE DEF Same
<1>1. PlaceInv(c)'
  BY DEF BotInv, PlaceInv
<1>2. AskedInv(c)'
  BY DEF BotInv, AskedInv
<1>3. Oversized(c)' = Oversized(c)
  BY DEF Oversized
<1>4. Inbound(c)' = Inbound(c) /\ Outbound(c)' = Outbound(c) /\ Issued(c)' = Issued(c)
  BY DEF Inbound, Outbound, Issued
<1>5. GhostInv(c)'
  BY <1>3 DEF BotInv, GhostInv
<1>6. Within(Values(reading[c]))' /\ Within(Values(got[c]))'
  BY DEF BotInv
<1>7. RequestsInv(c)'
  BY <1>4 DEF BotInv, RequestsInv
<1>8. RepliesInv(c)'
  BY <1>4 DEF BotInv, RepliesInv
<1>9. PairedInv(c)'
  BY <1>3, <1>4 DEF BotInv, PairedInv
<1> QED BY <1>1, <1>2, <1>5, <1>6, <1>7, <1>8, <1>9 DEF BotInv

\* The sequences of bytes, spelled out.
LEMMA StreamTypes ==
  ASSUME SimTypeOK
  PROVE  /\ out \in [Bots -> Seq(Byte)] /\ got \in [Bots -> Seq(Byte)]
         /\ reading \in [Bots -> Seq(Byte)] /\ writing \in [Bots -> Seq(Byte)]
         /\ toServer \in [Bots -> Seq(Byte)] /\ toBot \in [Bots -> Seq(Byte)]
  BY DEF SimTypeOK

\* A request lets nobody else into the game, and LEAVE takes its player out.
LEMMA PlayersAfterIs ==
  ASSUME NEW b, NEW action, NEW ok, NEW after \in PlayersAfter(b, action, ok)
  PROVE  /\ after \subseteq players \cup {b}
         /\ action = "LEAVE" => b \notin after
  BY DEF PlayersAfter

LEMMA OthersSame ==
  ASSUME SimTypeOK, NEW b \in Bots, StepOf(b), NEW c \in Bots \ {b}
  PROVE  Same(c)
<1> USE StreamTypes DEF SimTypeOK, Same
<1> USE DEF botVars, serverVars, streamVars, mainVars
<1>1. CASE connectSocket(b) BY <1>1 DEF connectSocket, Begin
<1>2. CASE Act(b) BY <1>2 DEF Act, Begin
<1>3. CASE Leave(b) BY <1>3 DEF Leave, Begin
<1>4. CASE Flush(b) BY <1>4 DEF Flush
<1>5. CASE BotWrites(b) BY <1>5 DEF BotWrites, Sent
<1>6. CASE BotWriteFails(b) BY <1>6 DEF BotWriteFails, Finish
<1>7. CASE BotReads(b) BY <1>7 DEF BotReads
<1>8. CASE BotReadFails(b) BY <1>8 DEF BotReadFails, Finish
<1>9. CASE BotRefuses(b) BY <1>9 DEF BotRefuses, Finish
<1>10. CASE BotParses(b)
  <2>1. \E r, ok : Finish(b, r, 1, ok)
    BY <1>10 DEF BotParses
  <2> QED BY <2>1 DEF Finish
<1>11. CASE ConnectFails(b) BY <1>11 DEF ConnectFails
<1>12. CASE Serve(b) BY <1>12 DEF Serve
<1>13. CASE ServerReads(b) BY <1>13 DEF ServerReads
<1>14. CASE dispatch(b)
  <2>1. players' \subseteq players \cup {b}
    BY <1>14, PlayersAfterIs DEF dispatch
  <2> QED BY <1>14, <2>1 DEF dispatch
<1>15. CASE ServerWrites(b) BY <1>15 DEF ServerWrites, Sent
<1>16. CASE ServerCloses(b) BY <1>16 DEF ServerCloses
<1>17. CASE Break(b) BY <1>17 DEF Break
<1> QED BY <1>1, <1>2, <1>3, <1>4, <1>5, <1>6, <1>7, <1>8, <1>9, <1>10, <1>11, <1>12,
          <1>13, <1>14, <1>15, <1>16, <1>17 DEF StepOf

LEMMA SimInit_Inv == SimInit => SimInv
<1> SUFFICES ASSUME SimInit PROVE SimInv
  OBVIOUS
<1> USE DEF SimInit, Empty
<1>1. SimTypeOK
  <2>1. \A S : [b \in Bots |-> <<>>] \in [Bots -> Seq(S)]
    OBVIOUS
  <2>2. <<>> \in Seq(Record)
    OBVIOUS
  <2>3. /\ asked \in [Bots -> Seq(Action)] /\ m_localMetrics \in [Bots -> Seq(Record)]
        /\ handled \in [Bots -> Seq(BOOLEAN)]
    BY <2>1
  <2>4. \A f \in {out, got, reading, writing, toServer, toBot} : f \in [Bots -> Seq(Byte)]
    BY <2>1
  <2> QED BY <2>2, <2>3, <2>4 DEF SimTypeOK
<1>2. ASSUME NEW b \in Bots PROVE BotInv(b)
  <2>1. PlaceInv(b) /\ AskedInv(b) /\ GhostInv(b)
    BY DEF PlaceInv, AskedInv, GhostInv
  <2>2. Inbound(b) = <<>> /\ Outbound(b) = <<>> /\ Issued(b) = 0 /\ Len(handled[b]) = 0
    BY DEF Inbound, Outbound, Issued
  <2>3. Within(Values(reading[b])) /\ Within(Values(got[b]))
    <3>1. Values(<<>>) = <<>>
      BY DEF Values
    <3> QED BY <3>1, ByteAssumption DEF Within, HasHeader
  <2>4. RequestsInv(b)
    <3>1. 0 * RequestLen = 0 /\ \A k \in Nat : k * RequestLen \in Nat
      BY RequestLenType
    <3>2. Requests(<<>>, 0, 0)
      BY <3>1, RequestLenType DEF Requests
    <3> QED BY <2>2, <3>1, <3>2 DEF RequestsInv
  <2>5. RepliesInv(b) /\ PairedInv(b)
    BY <2>2 DEF RepliesInv, PairedInv
  <2> QED BY <2>1, <2>3, <2>4, <2>5 DEF BotInv
<1> QED BY <1>1, <1>2 DEF SimInv

-----------------------------------------------------------------------------
(* Types *)

LEMMA PrefixIs ==
  ASSUME NEW s \in Seq(Byte), NEW p \in Prefixes(s)
  PROVE  /\ p \in Seq(Byte) /\ Len(p) <= Len(s) /\ \A i \in 1..Len(p) : p[i] = s[i]
<1>1. PICK l \in 0..Len(s) : p = SubSeq(s, 1, l)
  BY DEF Prefixes
<1> QED BY <1>1

LEMMA ReplyIs ==
  ASSUME NEW b, NEW action, NEW reply \in Replies(b, action)
  PROVE  reply.ok \in BOOLEAN /\ reply.size \in {1, LargeReply} /\ reply.size \in U32
<1>1. reply.ok \in BOOLEAN /\ reply.size \in {1, LargeReply}
  <2> DEFINE inGame == b \in players
  <2>0. inGame \in BOOLEAN
    OBVIOUS
  <2>1. \/ reply \in [ok : {~inGame}, size : {1}]
        \/ reply \in [ok : {inGame}, size : {1}]
        \/ reply \in [ok : {inGame}, size : {1, LargeReply}]
        \/ reply \in [ok : {FALSE, inGame}, size : {1}]
    BY DEF Replies
  <2> HIDE DEF inGame
  <2> QED BY <2>0, <2>1
<1> QED BY <1>1, OneFits, SimulatorAssumption

\* The bot waits for something it has asked.
LEMMA WaitsFor ==
  ASSUME SimTypeOK, NEW b \in Bots, PlaceInv(b), botAt[b] \in {"write", "read"}
  PROVE  /\ Len(asked[b]) \in Nat \ {0} /\ Len(m_localMetrics[b]) = Len(asked[b]) - 1
         /\ Last(asked[b]) = asked[b][Len(asked[b])] /\ Last(asked[b]) \in Action
<1>1. Len(m_localMetrics[b]) = Len(asked[b]) - 1
  BY DEF PlaceInv
<1>2. asked[b] \in Seq(Action) /\ Len(asked[b]) \in Nat /\ Len(m_localMetrics[b]) \in Nat
  BY DEF SimTypeOK
<1>3. Len(asked[b]) \in 1..Len(asked[b])
  BY <1>1, <1>2
<1>4. asked[b][Len(asked[b])] \in Action
  BY <1>2, <1>3, ElementOfSeq
<1> QED BY <1>1, <1>2, <1>3, <1>4 DEF Last

\* A complete reply comes from a request that has been handled.
LEMMA ParsedIs ==
  ASSUME SimTypeOK, NEW b \in Bots, RepliesInv(b), Complete(Values(got[b]))
  PROVE  /\ Len(got[b]) \in Nat \ {0} /\ Last(got[b]).of \in 1..Len(handled[b])
         /\ handled[b][Last(got[b]).of] \in BOOLEAN
<1>1. got[b] \in Seq(Byte) /\ toBot[b] \in Seq(Byte) /\ handled[b] \in Seq(BOOLEAN)
  BY StreamTypes DEF SimTypeOK
<1>2. Len(got[b]) \in Nat \ {0}
  BY <1>1, ValuesIs, ByteAssumption DEF Complete
<1>3. Len(got[b]) \in 1..Len(Outbound(b)) /\ Outbound(b)[Len(got[b])] = got[b][Len(got[b])]
  <2> DEFINE g == got[b]
             t == toBot[b]
  <2>1. g \in Seq(Byte) /\ t \in Seq(Byte) /\ Len(g) \in Nat \ {0} /\ Outbound(b) = g \o t
    BY <1>1, <1>2 DEF Outbound
  <2> HIDE DEF g, t
  <2>2. Len(t) \in Nat /\ Len(g \o t) = Len(g) + Len(t) /\ \A i \in 1..Len(g) : (g \o t)[i] = g[i]
    BY <2>1, ConcatIs
  <2>3. Len(g) \in 1..Len(g) /\ Len(g) \in 1..Len(g \o t)
    BY <2>1, <2>2
  <2>4. Len(g) \in 1..Len(Outbound(b)) /\ Outbound(b)[Len(g)] = g[Len(g)]
    BY <2>1, <2>2, <2>3
  <2> QED BY <2>4 DEF g
<1>4. Last(got[b]).of \in 1..Len(handled[b])
  BY <1>3 DEF RepliesInv, Last
<1> QED BY <1>1, <1>2, <1>4, ElementOfSeq

LEMMA BeginTypes ==
  ASSUME SimTypeOK, NEW b \in Bots, NEW action \in Action, Begin(b, action),
         UNCHANGED <<m_localMetrics, reading, writing, handled, players, streamVars, mainVars>>,
         \/ UNCHANGED servedAt
         \/ servedAt' = [servedAt EXCEPT ![b] = "queued"]
  PROVE  SimTypeOK'
<1> USE DEF streamVars, mainVars
<1>1. asked[b] \in Seq(Action) /\ Len(asked[b]) + 1 \in Nat
  BY DEF SimTypeOK
<1>2. Frame(Len(asked[b]) + 1, 1) \in Seq(Byte) /\ <<>> \in Seq(Byte)
  BY <1>1, FrameIs, OneFits
<1>3. /\ asked' \in [Bots -> Seq(Action)]
      /\ botAt' \in [Bots -> {"connect", "loop", "write", "read", "flush", "done"}]
  <2>1. Append(asked[b], action) \in Seq(Action)
    BY <1>1, AppendProperties
  <2> QED BY <2>1 DEF SimTypeOK, Begin
<1>4. /\ out' \in [Bots -> Seq(Byte)] /\ got' \in [Bots -> Seq(Byte)]
      /\ reading' \in [Bots -> Seq(Byte)] /\ writing' \in [Bots -> Seq(Byte)]
      /\ toServer' \in [Bots -> Seq(Byte)] /\ toBot' \in [Bots -> Seq(Byte)]
  BY <1>2, StreamTypes DEF Begin
<1>5. servedAt' \in [Bots -> {"none", "queued", "read", "write", "closed"}]
  BY DEF SimTypeOK
<1> QED BY <1>3, <1>4, <1>5 DEF SimTypeOK

LEMMA FinishTypes ==
  ASSUME SimTypeOK, NEW b \in Bots, PlaceInv(b), botAt[b] \in {"write", "read"},
         NEW reply \in Int, NEW latency \in {0, 1}, NEW ok \in BOOLEAN,
         Finish(b, reply, latency, ok)
  PROVE  SimTypeOK'
<1> USE DEF serverVars, streamVars, mainVars
<1> DEFINE r == [action |-> Last(asked[b]), reply |-> reply, lat |-> latency, ok |-> ok]
<1>1. Last(asked[b]) \in Action
  BY WaitsFor
<1>2. r \in Record
  BY <1>1 DEF Record
<1>3. m_localMetrics' = [m_localMetrics EXCEPT ![b] = Append(@, r)]
  BY DEF Finish
<1> HIDE DEF r
<1>4. m_localMetrics' \in [Bots -> Seq(Record)]
  BY <1>2, <1>3 DEF SimTypeOK
<1>5. botAt' \in [Bots -> {"connect", "loop", "write", "read", "flush", "done"}]
  BY DEF SimTypeOK, Finish
<1>6. /\ out' \in [Bots -> Seq(Byte)] /\ got' \in [Bots -> Seq(Byte)]
      /\ reading' \in [Bots -> Seq(Byte)] /\ writing' \in [Bots -> Seq(Byte)]
      /\ toServer' \in [Bots -> Seq(Byte)] /\ toBot' \in [Bots -> Seq(Byte)]
  BY StreamTypes DEF Finish
<1> QED BY <1>4, <1>5, <1>6 DEF SimTypeOK, Finish

LEMMA TypeStep ==
  ASSUME SimInv, NEW b \in Bots, StepOf(b)
  PROVE  SimTypeOK'
<1> USE DEF botVars, serverVars, streamVars, mainVars
<1>0. SimTypeOK /\ BotInv(b) /\ PlaceInv(b) /\ RepliesInv(b)
  BY DEF SimInv, BotInv
<1>a. /\ out \in [Bots -> Seq(Byte)] /\ got \in [Bots -> Seq(Byte)]
      /\ reading \in [Bots -> Seq(Byte)] /\ writing \in [Bots -> Seq(Byte)]
      /\ toServer \in [Bots -> Seq(Byte)] /\ toBot \in [Bots -> Seq(Byte)]
  BY <1>0, StreamTypes
<1>b. /\ out[b] \in Seq(Byte) /\ got[b] \in Seq(Byte) /\ reading[b] \in Seq(Byte)
      /\ writing[b] \in Seq(Byte) /\ toServer[b] \in Seq(Byte) /\ toBot[b] \in Seq(Byte)
      /\ <<>> \in Seq(Byte)
  BY <1>a
<1> DEFINE Streams ==
             /\ out' \in [Bots -> Seq(Byte)] /\ got' \in [Bots -> Seq(Byte)]
             /\ reading' \in [Bots -> Seq(Byte)] /\ writing' \in [Bots -> Seq(Byte)]
             /\ toServer' \in [Bots -> Seq(Byte)] /\ toBot' \in [Bots -> Seq(Byte)]
           Others ==
             /\ botAt' \in [Bots -> {"connect", "loop", "write", "read", "flush", "done"}]
             /\ asked' \in [Bots -> Seq(Action)]
             /\ m_localMetrics' \in [Bots -> Seq(Record)]
             /\ servedAt' \in [Bots -> {"none", "queued", "read", "write", "closed"}]
             /\ handled' \in [Bots -> Seq(BOOLEAN)]
             /\ cut' \subseteq Bots /\ players' \subseteq Ghosts \cup Bots
             /\ m_stopFlag' \in BOOLEAN /\ m_metrics' \in Seq(Record)
<1>c. Streams /\ Others => SimTypeOK'
  BY DEF SimTypeOK
<1>1. CASE connectSocket(b)
  <2>1. "JOIN" \in Action
    BY DEF Action
  <2> QED BY <1>0, <1>1, <2>1, BeginTypes DEF connectSocket
<1>2. CASE Act(b)
  <2>1. PICK action \in Actions : Begin(b, action)
    BY <1>2 DEF Act
  <2>2. action \in Action
    BY DEF Action
  <2> QED BY <1>0, <1>2, <2>1, <2>2, BeginTypes DEF Act
<1>3. CASE Leave(b)
  <2>1. "LEAVE" \in Action
    BY DEF Action
  <2> QED BY <1>0, <1>3, <2>1, BeginTypes DEF Leave
<1>4. CASE Flush(b)
  <2>1. PICK p \in IF toBot[b] = <<>> THEN {toServer[b]} ELSE Prefixes(toServer[b]) :
          toServer' = [toServer EXCEPT ![b] = p]
    BY <1>4 DEF Flush
  <2>2. p \in Seq(Byte)
    BY <1>b, <2>1, PrefixIs
  <2>3. Streams
    BY <1>4, <1>a, <1>b, <2>1, <2>2 DEF Flush
  <2>4. m_metrics' \in Seq(Record)
    <3>1. m_metrics \in Seq(Record) /\ m_localMetrics[b] \in Seq(Record)
      BY <1>0 DEF SimTypeOK
    <3> QED BY <1>4, <3>1, ConcatProperties DEF Flush
  <2>5. Others
    BY <1>0, <1>4, <2>4 DEF Flush, SimTypeOK
  <2> QED BY <1>c, <2>3, <2>5
<1>5. CASE BotWrites(b)
  <2>1. toServer[b] \o out[b] \in Seq(Byte)
    BY <1>b, ConcatProperties
  <2>2. Streams
    BY <1>5, <1>a, <1>b, <2>1 DEF BotWrites, Sent
  <2>3. Others
    BY <1>0, <1>5 DEF BotWrites, SimTypeOK
  <2> QED BY <1>c, <2>2, <2>3
<1>6. CASE BotWriteFails(b)
  <2>1. Finish(b, FailedRequest, 0, FALSE) /\ botAt[b] \in {"write", "read"}
    BY <1>6 DEF BotWriteFails
  <2>2. FailedRequest \in Int /\ 0 \in {0, 1} /\ FALSE \in BOOLEAN
    BY DEF FailedRequest
  <2> QED BY <1>0, <2>1, <2>2, FinishTypes
<1>7. CASE BotReads(b)
  <2>1. PICK n \in Pieces(got[b], toBot[b]) :
          /\ got' = [got EXCEPT ![b] = @ \o First(toBot[b], n)]
          /\ toBot' = [toBot EXCEPT ![b] = Rest(@, n)]
    BY <1>7 DEF BotReads
  <2>2. n \in 1..Len(toBot[b])
    BY <1>0, <1>7, <1>b, <2>1, PieceIs DEF BotReads, BotInv
  <2>3. got[b] \o First(toBot[b], n) \in Seq(Byte) /\ Rest(toBot[b], n) \in Seq(Byte)
    BY <1>b, <2>2, MoveIs
  <2>4. Streams
    BY <1>7, <1>a, <2>1, <2>3 DEF BotReads
  <2>5. Others
    BY <1>0, <1>7 DEF BotReads, SimTypeOK
  <2> QED BY <1>c, <2>4, <2>5
<1>8. CASE BotReadFails(b)
  <2>1. Finish(b, FailedRequest, 0, FALSE) /\ botAt[b] \in {"write", "read"}
    BY <1>8 DEF BotReadFails
  <2>2. FailedRequest \in Int /\ 0 \in {0, 1} /\ FALSE \in BOOLEAN
    BY DEF FailedRequest
  <2> QED BY <1>0, <2>1, <2>2, FinishTypes
<1>9. CASE BotRefuses(b)
  <2>1. OversizeReply \in Int
    BY DEF OversizeReply
  <2> QED BY <1>0, <1>9, <2>1, FinishTypes DEF BotRefuses
<1>10. CASE BotParses(b)
  <2>1. /\ Last(got[b]).of \in 1..Len(handled[b]) /\ handled[b][Last(got[b]).of] \in BOOLEAN
    BY <1>0, <1>10, ParsedIs DEF BotParses
  <2>2. Last(got[b]).of \in Int /\ 0 \in Int /\ 1 \in {0, 1} /\ FALSE \in BOOLEAN
    BY <1>0, <2>1 DEF SimTypeOK
  <2>3. \E r \in Int, ok \in BOOLEAN : Finish(b, r, 1, ok)
    BY <1>10, <2>1, <2>2 DEF BotParses, FailedRequest
  <2>4. botAt[b] = "read"
    BY <1>10 DEF BotParses
  <2> QED BY <1>0, <2>2, <2>3, <2>4, FinishTypes
<1>11. CASE ConnectFails(b)
  <2>1. Streams
    BY <1>11, <1>a DEF ConnectFails
  <2>2. [action |-> "CONNECT", reply |-> FailedRequest, lat |-> 0, ok |-> FALSE] \in Record
    BY DEF Record, FailedRequest
  <2>3. m_metrics' \in Seq(Record)
    <3>1. m_metrics \in Seq(Record)
      BY <1>0 DEF SimTypeOK
    <3> QED BY <1>11, <2>2, <3>1, AppendProperties DEF ConnectFails
  <2>4. Others
    BY <1>0, <1>11, <2>3 DEF ConnectFails, SimTypeOK
  <2> QED BY <1>c, <2>1, <2>4
<1>12. CASE Serve(b)
  <2>1. Streams
    BY <1>12, <1>a DEF Serve
  <2>2. Others
    BY <1>0, <1>12 DEF Serve, SimTypeOK
  <2> QED BY <1>c, <2>1, <2>2
<1>13. CASE ServerReads(b)
  <2>1. PICK n \in Pieces(reading[b], toServer[b]) :
          /\ reading' = [reading EXCEPT ![b] = @ \o First(toServer[b], n)]
          /\ toServer' = [toServer EXCEPT ![b] = Rest(@, n)]
    BY <1>13 DEF ServerReads
  <2>2. n \in 1..Len(toServer[b])
    BY <1>0, <1>13, <1>b, <2>1, PieceIs DEF ServerReads, BotInv
  <2>3. reading[b] \o First(toServer[b], n) \in Seq(Byte) /\ Rest(toServer[b], n) \in Seq(Byte)
    BY <1>b, <2>2, MoveIs
  <2>4. Streams
    BY <1>13, <1>a, <2>1, <2>3 DEF ServerReads
  <2>5. Others
    BY <1>0, <1>13 DEF ServerReads, SimTypeOK
  <2> QED BY <1>c, <2>4, <2>5
<1>14. CASE dispatch(b)
  <2> DEFINE r == reading[b][1].of
             action == asked[b][r]
  <2>1. PICK reply \in Replies(b, action) :
          /\ handled' = [handled EXCEPT ![b] = Append(@, reply.ok)]
          /\ writing' = [writing EXCEPT ![b] = Frame(r, reply.size)]
          /\ players' \in PlayersAfter(b, action, reply.ok)
    BY <1>14 DEF dispatch
  <2>2. r \in Nat
    <3>1. 1 \in 1..Len(reading[b])
      BY <1>14, <1>b, ValuesIs, ByteAssumption DEF dispatch, Complete
    <3>2. reading[b][1] \in Byte
      BY <1>b, <3>1, ElementOfSeq
    <3> QED BY <3>2 DEF Byte
  <2> HIDE DEF r, action
  <2>3. reply.ok \in BOOLEAN /\ Frame(r, reply.size) \in Seq(Byte)
    BY <2>2, ReplyIs, FrameIs
  <2>4. Streams
    BY <1>14, <1>a, <1>b, <2>1, <2>3 DEF dispatch
  <2>5. players' \subseteq Ghosts \cup Bots
    <3>1. players' \subseteq players \cup {b}
      BY <2>1, PlayersAfterIs
    <3> QED BY <1>0, <3>1 DEF SimTypeOK
  <2>6. handled' \in [Bots -> Seq(BOOLEAN)]
    BY <1>0, <2>1, <2>3 DEF SimTypeOK
  <2>7. Others
    BY <1>0, <1>14, <2>5, <2>6 DEF dispatch, SimTypeOK
  <2> QED BY <1>c, <2>4, <2>7
<1>15. CASE ServerWrites(b)
  <2>1. toBot[b] \o writing[b] \in Seq(Byte)
    BY <1>b, ConcatProperties
  <2>2. Streams
    BY <1>15, <1>a, <1>b, <2>1 DEF ServerWrites, Sent
  <2>3. Others
    BY <1>0, <1>15 DEF ServerWrites, SimTypeOK
  <2> QED BY <1>c, <2>2, <2>3
<1>16. CASE ServerCloses(b)
  <2>1. Streams
    BY <1>16, <1>a, <1>b DEF ServerCloses
  <2>2. Others
    BY <1>0, <1>16 DEF ServerCloses, SimTypeOK
  <2> QED BY <1>c, <2>1, <2>2
<1>17. CASE Break(b)
  <2>1. PICK p \in Prefixes(toServer[b]), q \in Prefixes(toBot[b]) :
          toServer' = [toServer EXCEPT ![b] = p] /\ toBot' = [toBot EXCEPT ![b] = q]
    BY <1>17 DEF Break
  <2>2. p \in Seq(Byte) /\ q \in Seq(Byte)
    BY <1>b, PrefixIs
  <2>3. Streams
    BY <1>17, <1>a, <2>1, <2>2 DEF Break
  <2>4. Others
    BY <1>0, <1>17 DEF Break, SimTypeOK
  <2> QED BY <1>c, <2>3, <2>4
<1> QED BY <1>1, <1>2, <1>3, <1>4, <1>5, <1>6, <1>7, <1>8, <1>9, <1>10, <1>11, <1>12,
          <1>13, <1>14, <1>15, <1>16, <1>17 DEF StepOf

-----------------------------------------------------------------------------
(* One step of one bot: the parts that an action leaves as they are *)

LEMMA BotTypes ==
  ASSUME SimTypeOK, NEW b \in Bots
  PROVE  /\ asked[b] \in Seq(Action) /\ Len(asked[b]) \in Nat
         /\ m_localMetrics[b] \in Seq(Record) /\ Len(m_localMetrics[b]) \in Nat
         /\ handled[b] \in Seq(BOOLEAN) /\ Len(handled[b]) \in Nat
         /\ out[b] \in Seq(Byte) /\ got[b] \in Seq(Byte) /\ reading[b] \in Seq(Byte)
         /\ writing[b] \in Seq(Byte) /\ toServer[b] \in Seq(Byte) /\ toBot[b] \in Seq(Byte)
         /\ Inbound(b) \in Seq(Byte) /\ Len(Inbound(b)) \in Nat
         /\ Outbound(b) \in Seq(Byte) /\ Len(Outbound(b)) \in Nat
         /\ Issued(b) \in Int /\ Issued(b) <= Len(asked[b])
<1>1. /\ out[b] \in Seq(Byte) /\ got[b] \in Seq(Byte) /\ reading[b] \in Seq(Byte)
      /\ writing[b] \in Seq(Byte) /\ toServer[b] \in Seq(Byte) /\ toBot[b] \in Seq(Byte)
  BY StreamTypes
<1>2. Inbound(b) \in Seq(Byte) /\ Outbound(b) \in Seq(Byte)
  BY <1>1, ConcatIs DEF Inbound, Outbound
<1>3. /\ asked[b] \in Seq(Action) /\ m_localMetrics[b] \in Seq(Record)
      /\ handled[b] \in Seq(BOOLEAN)
  BY DEF SimTypeOK
<1>4. \A S : \A s \in Seq(S) : Len(s) \in Nat
  OBVIOUS
<1>5. Issued(b) \in Int /\ Issued(b) <= Len(asked[b])
  BY <1>3 DEF Issued
<1> QED BY <1>1, <1>2, <1>3, <1>4, <1>5

\* The server does not handle what has not been sent.
LEMMA HandledAtMost ==
  ASSUME SimTypeOK, NEW b \in Bots, RequestsInv(b)
  PROVE  Len(handled[b]) <= Issued(b) /\ Len(handled[b]) <= Len(asked[b])
<1> DEFINE h == Len(handled[b])
           n == Issued(b)
           l == Len(Inbound(b))
<1>1. h \in Nat /\ n \in Int /\ n <= Len(asked[b]) /\ Len(asked[b]) \in Nat /\ l \in Nat
  BY BotTypes
<1>2. l <= (n - h) * RequestLen
  BY DEF RequestsInv, Requests
<1> HIDE DEF h, n, l
<1>3. ~(0 * RequestLen + RequestLen > (n - h + 1) * RequestLen)
  BY <1>1, <1>2, RequestLenType
<1>4. ~(0 >= n - h + 1)
  BY <1>1, <1>3, RequestLenType, BlockOrder
<1> QED BY <1>1, <1>4 DEF h, n

LEMMA JoinPrefix ==
  ASSUME NEW s \in Seq(Byte), NEW t \in Seq(Byte), NEW p \in Seq(Byte),
         Len(p) <= Len(t), \A i \in 1..Len(p) : p[i] = t[i]
  PROVE  /\ s \o p \in Seq(Byte) /\ s \o t \in Seq(Byte) /\ Len(s \o p) <= Len(s \o t)
         /\ \A i \in 1..Len(s \o p) : (s \o p)[i] = (s \o t)[i]
<1>1. /\ s \o p \in Seq(Byte) /\ s \o t \in Seq(Byte)
      /\ Len(s \o p) = Len(s) + Len(p) /\ Len(s \o t) = Len(s) + Len(t)
  BY ConcatIs
<1>2. ASSUME NEW i \in 1..Len(s \o p) PROVE (s \o p)[i] = (s \o t)[i]
  <2>1. CASE i <= Len(s)
    <3>1. i \in 1..Len(s)
      BY <2>1
    <3> QED BY <3>1, ConcatIs
  <2>2. CASE i > Len(s)
    <3>1. i - Len(s) \in 1..Len(p) /\ i - Len(s) \in 1..Len(t) /\ i = Len(s) + (i - Len(s))
      BY <1>1, <2>2
    <3> QED BY <3>1, ConcatIs
  <2> QED BY <2>1, <2>2
<1> QED BY <1>1, <1>2

LEMMA WithinEmpty == Within(Values(<<>>))
<1>1. Values(<<>>) = <<>>
  BY DEF Values
<1> QED BY <1>1, ByteAssumption DEF Within, HasHeader

LEMMA RequestsKept ==
  ASSUME NEW b, RequestsInv(b), Inbound(b)' = Inbound(b), handled'[b] = handled[b],
         Issued(b)' = Issued(b), b \in cut => b \in cut'
  PROVE  RequestsInv(b)'
  BY DEF RequestsInv

\* Once the connection is broken, bytes may be missing at the end.
LEMMA RequestsCut ==
  ASSUME SimTypeOK, NEW b \in Bots, RequestsInv(b), b \in cut', handled'[b] = handled[b],
         Issued(b)' \in Int, Issued(b) <= Issued(b)', Inbound(b)' \in Seq(Byte),
         Len(Inbound(b)') <= Len(Inbound(b)),
         \A i \in 1..Len(Inbound(b)') : Inbound(b)'[i] = Inbound(b)[i]
  PROVE  RequestsInv(b)'
<1>1. Inbound(b) \in Seq(Byte) /\ Len(handled[b]) \in Nat /\ Issued(b) \in Int
  BY BotTypes
<1>2. Requests(Inbound(b), Len(handled[b]), Issued(b))
  BY DEF RequestsInv
<1> DEFINE s == Inbound(b)
           t == Inbound(b)'
           h == Len(handled[b])
           n == Issued(b)
           m == Issued(b)'
<1>3. /\ s \in Seq(Byte) /\ t \in Seq(Byte) /\ Len(t) <= Len(s)
      /\ \A i \in 1..Len(t) : t[i] = s[i]
      /\ h \in Nat /\ n \in Int /\ m \in Int /\ n <= m /\ Requests(s, h, n)
  BY <1>1, <1>2
<1> HIDE DEF s, t, h, n, m
<1>4. Requests(t, h, m)
  BY <1>3, RequestsPrefix
<1> QED BY <1>4 DEF RequestsInv, t, h, m

\* Nothing new is on its way to the bot.
LEMMA RepliesKept ==
  ASSUME NEW b, RepliesInv(b), handled'[b] = handled[b],
         \A i \in 1..Len(Outbound(b)') :
           \E j \in 1..Len(Outbound(b)) : Outbound(b)'[i] = Outbound(b)[j],
         servedAt'[b] = "write" => servedAt[b] = "write" /\ writing'[b] = writing[b]
  PROVE  RepliesInv(b)'
  BY DEF RepliesInv

\* The parts that Inbound, Outbound and the rest of the state are made of.
LEMMA ToBotOf ==
  ASSUME NEW g \in Seq(Byte), NEW t \in Seq(Byte)
  PROVE  /\ \A i \in 1..Len(t) : \E j \in 1..Len(g \o t) : t[i] = (g \o t)[j]
         /\ \A i \in 1..Len(g) : \E j \in 1..Len(g \o t) : g[i] = (g \o t)[j]
         /\ g \o t = <<>> => g = <<>> /\ t = <<>>
         /\ <<>> \o t = t /\ g \o <<>> = g
<1>1. Len(g \o t) = Len(g) + Len(t) /\ Len(g) \in Nat /\ Len(t) \in Nat
  BY ConcatIs
<1>2. ASSUME NEW i \in 1..Len(t) PROVE \E j \in 1..Len(g \o t) : t[i] = (g \o t)[j]
  <2>1. Len(g) + i \in 1..Len(g \o t)
    BY <1>1
  <2>2. (g \o t)[Len(g) + i] = t[i]
    BY ConcatIs
  <2> QED BY <2>1, <2>2
<1>3. ASSUME NEW i \in 1..Len(g) PROVE \E j \in 1..Len(g \o t) : g[i] = (g \o t)[j]
  <2>1. i \in 1..Len(g \o t)
    BY <1>1
  <2>2. (g \o t)[i] = g[i]
    BY ConcatIs
  <2> QED BY <2>1, <2>2
<1>4. g \o t = <<>> => g = <<>> /\ t = <<>>
  <2>1. g \o t = <<>> => Len(g) = 0 /\ Len(t) = 0
    BY <1>1
  <2> QED BY <2>1
<1>5. <<>> \o t = t /\ g \o <<>> = g
  OBVIOUS
<1> QED BY <1>2, <1>3, <1>4, <1>5

LEMMA OutboundParts ==
  ASSUME SimTypeOK, NEW b \in Bots
  PROVE  /\ \A i \in 1..Len(toBot[b]) : \E j \in 1..Len(Outbound(b)) : toBot[b][i] = Outbound(b)[j]
         /\ \A i \in 1..Len(got[b]) : \E j \in 1..Len(Outbound(b)) : got[b][i] = Outbound(b)[j]
         /\ Outbound(b) = <<>> => got[b] = <<>> /\ toBot[b] = <<>>
<1> DEFINE g == got[b]
           t == toBot[b]
<1>1. g \in Seq(Byte) /\ t \in Seq(Byte)
  BY BotTypes
<1> HIDE DEF g, t
<1>2. /\ \A i \in 1..Len(t) : \E j \in 1..Len(g \o t) : t[i] = (g \o t)[j]
      /\ \A i \in 1..Len(g) : \E j \in 1..Len(g \o t) : g[i] = (g \o t)[j]
      /\ g \o t = <<>> => g = <<>> /\ t = <<>>
  BY <1>1, ToBotOf
<1> QED BY <1>2 DEF g, t, Outbound

-----------------------------------------------------------------------------
(* A request begins, a request ends *)

LEMMA BeginInv ==
  ASSUME SimTypeOK, NEW b \in Bots, BotInv(b), NEW action \in Action, Begin(b, action),
         UNCHANGED <<m_localMetrics, reading, writing, handled, players, streamVars>>,
         \/ botAt[b] = "loop" /\ action # "JOIN" /\ servedAt' = servedAt
         \/ botAt[b] = "connect" /\ action # "LEAVE" /\ servedAt'[b] = "queued"
  PROVE  BotInv(b)'
<1> DEFINE N == Len(asked[b])
<1> USE DEF streamVars
<1>a. PlaceInv(b) /\ AskedInv(b) /\ GhostInv(b) /\ RequestsInv(b) /\ RepliesInv(b) /\ PairedInv(b)
  BY DEF BotInv
<1>b. /\ asked \in [Bots -> Seq(Action)] /\ N \in Nat /\ asked[b] \in Seq(Action)
      /\ got[b] \in Seq(Byte) /\ toBot[b] \in Seq(Byte)
  BY BotTypes DEF SimTypeOK
<1>c. asked'[b] = Append(asked[b], action)
  BY <1>b DEF Begin
<1>d. /\ Len(asked'[b]) = N + 1 /\ asked'[b][N + 1] = action
      /\ \A i \in 1..N : asked'[b][i] = asked[b][i]
  BY <1>b, <1>c, AppendProperties
<1>e. botAt'[b] = "write" /\ out'[b] = Request(N + 1) /\ got'[b] = <<>>
  BY StreamTypes DEF Begin, Request, SimTypeOK
<1>f. botAt[b] = "connect" => N = 0 /\ servedAt[b] = "none"
  BY <1>a, <1>b DEF PlaceInv
<1>g. Len(handled[b]) \in Nat /\ Len(handled[b]) <= N
  BY <1>a, BotTypes, HandledAtMost
<1> HIDE DEF N
<1>1. PlaceInv(b)'
  <2>1. Len(m_localMetrics'[b]) = Len(asked'[b]) - 1
    BY <1>a, <1>b, <1>d DEF PlaceInv, N
  <2>2. servedAt'[b] # "none" /\ asked'[b] # <<>>
    BY <1>a, <1>b, <1>d, EmptySeq DEF PlaceInv
  <2>3. servedAt'[b] # "write" => writing'[b] = <<>>
    BY <1>a, <1>f DEF PlaceInv
  <2> QED BY <1>b, <1>d, <1>e, <2>1, <2>2, <2>3 DEF PlaceInv
<1>2. AskedInv(b)'
  <2>1. ASSUME NEW i \in 1..N + 1
        PROVE  /\ asked'[b][i] = "JOIN" => i = 1
               /\ asked'[b][i] = "LEAVE" => i = N + 1
    <3>1. CASE i \in 1..N
      <4>1. asked'[b][i] = asked[b][i] /\ N # 0 /\ botAt[b] = "loop"
        BY <1>b, <1>d, <1>f, <3>1
      <4> QED BY <1>a, <3>1, <4>1 DEF AskedInv, N
    <3>2. CASE i = N + 1
      BY <1>d, <1>f, <3>2
    <3> QED BY <1>b, <3>1, <3>2
  <2> QED BY <1>d, <1>e, <2>1 DEF AskedInv
<1>3. GhostInv(b)'
  <2>1. Len(handled[b]) > 0 => asked'[b][Len(handled[b])] = asked[b][Len(handled[b])]
    BY <1>d, <1>g
  <2> QED BY <1>a, <1>e, <2>1 DEF GhostInv
<1>4. Within(Values(reading[b]))' /\ Within(Values(got[b]))'
  BY <1>e, WithinEmpty DEF BotInv
<1>5. RequestsInv(b)'
  <2>1. Issued(b)' = Issued(b)
    BY <1>b, <1>d, <1>e DEF Issued, N
  <2>2. Inbound(b)' = Inbound(b)
    BY DEF Inbound
  <2> QED BY <1>a, <2>1, <2>2, RequestsKept
<1>6. Outbound(b)' = toBot[b]
  BY <1>b, <1>e, ToBotOf DEF Outbound
<1>7. RepliesInv(b)'
  <2>1. \A i \in 1..Len(Outbound(b)') :
          \E j \in 1..Len(Outbound(b)) : Outbound(b)'[i] = Outbound(b)[j]
    BY <1>6, OutboundParts
  <2> QED BY <1>a, <2>1, RepliesKept
<1>8. PairedInv(b)'
  <2>1. Oversized(b)' <=> Oversized(b)
    BY DEF Oversized
  <2>2. SUFFICES ASSUME ~Oversized(b) PROVE PairedInv(b)'
    BY <2>1 DEF PairedInv
  <2>3. Outbound(b)' = <<>>
    BY <1>a, <1>b, <1>6, <2>2, ToBotOf DEF PairedInv, Outbound
  <2>4. b \notin cut => /\ Len(handled[b]) >= Len(m_localMetrics[b])
                        /\ servedAt[b] # "write"
    BY <1>a, <2>2 DEF PairedInv
  <2> QED BY <2>3, <2>4 DEF PairedInv
<1> QED BY <1>1, <1>2, <1>3, <1>4, <1>5, <1>7, <1>8 DEF BotInv

\* What a request ends with: reply, and with what is left of it in the stream.
LEMMA FinishInv ==
  ASSUME SimTypeOK, NEW b \in Bots, BotInv(b),
         NEW reply \in Int, NEW latency \in {0, 1}, NEW ok \in BOOLEAN,
         Finish(b, reply, latency, ok),
         botAt[b] = "read" \/ (botAt[b] = "write" /\ b \in cut),
         \/ reply = OversizeReply
         \/ Oversized(b)
         \/ /\ toBot[b] = <<>>
            /\ b \notin cut => Len(handled[b]) >= Len(asked[b]) /\ servedAt[b] # "write",
         ok => Oversized(b) \/ Len(handled[b]) = Len(asked[b])
  PROVE  BotInv(b)'
<1> DEFINE N == Len(asked[b])
           M == Len(m_localMetrics[b])
           r == [action |-> Last(asked[b]), reply |-> reply, lat |-> latency, ok |-> ok]
<1> USE DEF streamVars, serverVars
<1>a. PlaceInv(b) /\ AskedInv(b) /\ GhostInv(b) /\ RequestsInv(b) /\ RepliesInv(b) /\ PairedInv(b)
  BY DEF BotInv
<1>b. /\ N \in Nat \ {0} /\ M \in Nat /\ M = N - 1 /\ Last(asked[b]) = asked[b][N]
      /\ got[b] \in Seq(Byte) /\ toBot[b] \in Seq(Byte) /\ m_localMetrics[b] \in Seq(Record)
      /\ Last(asked[b]) \in Action
  BY <1>a, BotTypes, WaitsFor
<1>c. r \in Record
  BY <1>b DEF Record
<1>d. m_localMetrics'[b] = Append(m_localMetrics[b], r)
  BY DEF Finish, SimTypeOK
<1>e. /\ botAt'[b] = IF Last(asked[b]) = "LEAVE" THEN "flush" ELSE "loop"
      /\ out'[b] = <<>> /\ got'[b] = <<>>
  BY StreamTypes DEF Finish, SimTypeOK
<1>f. UNCHANGED <<asked, servedAt, reading, writing, handled, players, toServer, toBot, cut>>
  BY DEF Finish
<1>r. r.reply = reply /\ r.ok = ok
  OBVIOUS
<1> HIDE DEF N, M, r
<1>g. /\ Len(m_localMetrics'[b]) = M + 1 /\ m_localMetrics'[b][M + 1] = r
      /\ \A i \in 1..M : m_localMetrics'[b][i] = m_localMetrics[b][i]
  BY <1>b, <1>c, <1>d, AppendProperties DEF M
<1>h. Oversized(b)' <=> Oversized(b) \/ reply = OversizeReply
  <2>1. M \in Nat /\ 1..(M + 1) = 1..M \cup {M + 1}
    BY <1>b
  <2> QED BY <1>g, <1>r, <2>1 DEF Oversized, M
<1>1. PlaceInv(b)'
  <2>1. asked[b] # <<>>
    BY <1>b DEF N
  <2>2. Len(m_localMetrics'[b]) = N
    BY <1>b, <1>g
  <2>3. servedAt[b] # "none" /\ (servedAt[b] # "write" => writing[b] = <<>>)
    BY <1>a, <2>1 DEF PlaceInv
  <2> QED BY <1>e, <1>f, <2>1, <2>2, <2>3 DEF PlaceInv, N
<1>2. AskedInv(b)'
  BY <1>a, <1>b, <1>e, <1>f DEF AskedInv, N
<1>3. GhostInv(b)'
  <2>1. Last(m_localMetrics'[b]) = r
    BY <1>g DEF Last
  <2>2. ~r.ok \/ Oversized(b)' \/ Len(handled'[b]) = Len(asked'[b])
    BY <1>f, <1>h, <1>r
  <2> QED BY <1>a, <1>f, <2>1, <2>2 DEF GhostInv
<1>4. Within(Values(reading[b]))' /\ Within(Values(got[b]))'
  BY <1>e, <1>f, WithinEmpty DEF BotInv
<1>5. RequestsInv(b)'
  <2>1. Inbound(b)' = Inbound(b)
    BY <1>f DEF Inbound
  <2>2. Issued(b)' = N
    BY <1>e, <1>f DEF Issued, N
  <2>3. CASE botAt[b] = "read"
    <3>1. Issued(b) = N
      BY <2>3 DEF Issued, N
    <3> QED BY <1>a, <1>f, <2>1, <2>2, <3>1, RequestsKept
  <2>4. CASE botAt[b] = "write" /\ b \in cut
    <3>1. Issued(b) <= N /\ N \in Int
      BY <1>b, BotTypes DEF N
    <3>2. b \in cut' /\ handled'[b] = handled[b]
      BY <1>f, <2>4
    <3>3. Inbound(b) \in Seq(Byte) /\ Len(Inbound(b)) <= Len(Inbound(b))
      BY BotTypes
    <3> QED BY <1>a, <2>1, <2>2, <3>1, <3>2, <3>3, RequestsCut
  <2> QED BY <2>3, <2>4
<1>6. Outbound(b)' = toBot[b]
  BY <1>b, <1>e, <1>f, ToBotOf DEF Outbound
<1>7. RepliesInv(b)'
  <2>1. \A i \in 1..Len(Outbound(b)') :
          \E j \in 1..Len(Outbound(b)) : Outbound(b)'[i] = Outbound(b)[j]
    BY <1>6, OutboundParts
  <2> QED BY <1>a, <1>f, <2>1, RepliesKept
<1>8. PairedInv(b)'
  <2>1. SUFFICES ASSUME ~Oversized(b)' PROVE PairedInv(b)'
    BY DEF PairedInv
  <2>2. /\ toBot[b] = <<>>
        /\ b \notin cut => Len(handled[b]) >= N /\ servedAt[b] # "write"
    BY <1>h, <2>1 DEF N
  <2>3. Len(m_localMetrics'[b]) = N
    BY <1>b, <1>g
  <2> QED BY <1>6, <1>f, <2>2, <2>3 DEF PairedInv
<1> QED BY <1>1, <1>2, <1>3, <1>4, <1>5, <1>7, <1>8 DEF BotInv

-----------------------------------------------------------------------------
(* Steps of the bot *)

\* While no reply was too large, a whole reply is the reply to the last request,
\* and nothing follows it.
LEMMA WholeReply ==
  ASSUME SimTypeOK, NEW b \in Bots, PlaceInv(b), PairedInv(b), botAt[b] = "read",
         Complete(Values(got[b])), ~Oversized(b)
  PROVE  /\ Len(handled[b]) = Len(asked[b]) /\ toBot[b] = <<>>
         /\ \A i \in 1..Len(got[b]) : got[b][i].of = Len(asked[b])
         /\ b \notin cut => servedAt[b] # "write"
<1> DEFINE g == got[b]
           t == toBot[b]
           N == Len(asked[b])
<1>1. g \in Seq(Byte) /\ t \in Seq(Byte) /\ N \in Nat /\ Outbound(b) = g \o t /\ Complete(Values(g))
  BY BotTypes DEF Outbound
<1> HIDE DEF g, t, N
<1>2. Len(g) \in Nat \ {0} /\ Len(t) \in Nat
  BY <1>1, ValuesIs, ByteAssumption DEF Complete
<1>3. Len(g \o t) = Len(g) + Len(t) /\ \A i \in 1..Len(g) : (g \o t)[i] = g[i]
  BY <1>1, ConcatIs
<1>4. Outbound(b) # <<>>
  <2>1. Len(g \o t) # 0
    BY <1>2, <1>3
  <2> QED BY <1>1, <2>1
<1>5. Len(handled[b]) = N /\ ReplyTo(g \o t, N) /\ (b \notin cut => servedAt[b] # "write")
  BY <1>1, <1>4 DEF PairedInv, N
<1>6. PICK size \in {1, LargeReply} :
        Len(g \o t) <= HEADER_SIZE + size /\ \A i \in 1..Len(g \o t) : (g \o t)[i] = Frame(N, size)[i]
  BY <1>5 DEF ReplyTo
<1>7. size \in U32 /\ size \in Nat
  BY OneFits, SimulatorAssumption
<1>8. \A i \in 1..Len(g) : g[i] = Frame(N, size)[i]
  <2>1. \A i \in 1..Len(g) : i \in 1..Len(g \o t)
    BY <1>2, <1>3
  <2> QED BY <1>3, <1>6, <2>1
<1>9. Len(g) = HEADER_SIZE + size
  <2>1. \A i \in 1..HEADER_SIZE : i <= Len(g) => i \in 1..Len(g)
    BY <1>2, ByteAssumption
  <2>2. \A i \in 1..HEADER_SIZE : i <= Len(g) => g[i] = Frame(N, size)[i]
    BY <1>8, <2>1
  <2>3. g \in Seq(Byte) /\ N \in Nat /\ Complete(Values(g))
    BY <1>1
  <2> QED BY <1>7, <2>2, <2>3, WholeFrame
<1>10. t = <<>>
  <2>1. Len(t) = 0
    BY <1>2, <1>3, <1>6, <1>7, <1>9, ByteAssumption
  <2> QED BY <1>1, <2>1
<1>11. \A i \in 1..Len(g) : g[i].of = N
  <2>1. \A i \in 1..HEADER_SIZE + size : Frame(N, size)[i].of = N
    BY <1>1, <1>7, FrameIs
  <2> QED BY <1>8, <1>9, <2>1
<1> QED BY <1>5, <1>10, <1>11 DEF g, t, N

\* The four ways a request ends, with what FinishInv needs of each.
LEMMA FinishStep ==
  ASSUME SimTypeOK, NEW b \in Bots, BotInv(b),
         BotWriteFails(b) \/ BotReadFails(b) \/ BotRefuses(b) \/ BotParses(b)
  PROVE  \E reply \in Int, latency \in {0, 1}, ok \in BOOLEAN :
           /\ Finish(b, reply, latency, ok)
           /\ botAt[b] = "read" \/ (botAt[b] = "write" /\ b \in cut)
           /\ \/ reply = FailedRequest
              \/ reply = OversizeReply
              \/ reply \in 1..Len(handled[b])
           /\ reply # FailedRequest /\ ~Oversized(b) => Len(handled[b]) = Len(asked[b])
           /\ reply \in 1..Len(handled[b]) /\ ~Oversized(b) => reply = Len(asked[b])
           /\ \/ reply = OversizeReply
              \/ Oversized(b)
              \/ /\ toBot[b] = <<>>
                 /\ b \notin cut => Len(handled[b]) >= Len(asked[b]) /\ servedAt[b] # "write"
           /\ ok => Oversized(b) \/ Len(handled[b]) = Len(asked[b])
<1>a. PlaceInv(b) /\ RepliesInv(b) /\ PairedInv(b) /\ Len(handled[b]) \in Nat
  BY BotTypes DEF BotInv
<1>b. FailedRequest \in Int /\ FailedRequest # OversizeReply /\ FailedRequest \notin 1..Len(handled[b])
  BY <1>a DEF FailedRequest, OversizeReply
<1>c. OversizeReply \in Int /\ OversizeReply \notin 1..Len(handled[b])
  BY <1>a DEF OversizeReply
<1>d. 0 \in {0, 1} /\ 1 \in {0, 1} /\ FALSE \in BOOLEAN
  OBVIOUS
<1>1. CASE BotWriteFails(b)
  <2>1. Oversized(b) \/ toBot[b] = <<>>
    BY <1>a, <1>1, OutboundParts DEF BotWriteFails, PairedInv
  <2>2. Finish(b, FailedRequest, 0, FALSE) /\ botAt[b] = "write" /\ b \in cut
    BY <1>1 DEF BotWriteFails
  <2> QED BY <1>b, <1>d, <2>1, <2>2
<1>2. CASE BotReadFails(b)
  <2>1. /\ Finish(b, FailedRequest, 0, FALSE) /\ botAt[b] = "read" /\ b \in cut
        /\ toBot[b] = <<>>
    BY <1>2 DEF BotReadFails
  <2> QED BY <1>b, <1>d, <2>1
<1>3. CASE BotRefuses(b)
  <2>1. Finish(b, OversizeReply, 0, FALSE) /\ botAt[b] = "read" /\ TooLarge(Values(got[b]))
    BY <1>3 DEF BotRefuses
  <2>2. got[b] # <<>>
    <3>1. got[b] \in Seq(Byte)
      BY BotTypes
    <3>2. Len(got[b]) # 0
      BY <2>1, <3>1, ValuesIs, ByteAssumption DEF TooLarge
    <3> QED BY <3>2
  <2>3. ~Oversized(b) => Len(handled[b]) = Len(asked[b])
    BY <1>a, <2>2, OutboundParts DEF PairedInv
  <2> QED BY <1>c, <1>d, <2>1, <2>3
<1>4. CASE BotParses(b)
  <2> DEFINE r == Last(got[b]).of
  <2>1. /\ botAt[b] = "read" /\ Complete(Values(got[b]))
        /\ IF \A i \in 1..Len(got[b]) : got[b][i].of = r
             THEN Finish(b, r, 1, handled[b][r])
             ELSE Finish(b, FailedRequest, 1, FALSE)
    BY <1>4 DEF BotParses
  <2>2. Len(got[b]) \in Nat \ {0} /\ r \in 1..Len(handled[b]) /\ handled[b][r] \in BOOLEAN
    BY <1>a, <2>1, ParsedIs
  <2>3. ~Oversized(b) =>
          /\ Len(handled[b]) = Len(asked[b]) /\ toBot[b] = <<>>
          /\ \A i \in 1..Len(got[b]) : got[b][i].of = Len(asked[b])
          /\ b \notin cut => servedAt[b] # "write"
    BY <1>a, <2>1, WholeReply
  <2>4. ~Oversized(b) => r = Len(asked[b])
    BY <2>2, <2>3 DEF Last
  <2>5. Len(handled[b]) \in Int /\ r \in Int
    BY <1>a, <2>2
  <2> HIDE DEF r
  <2>6. ~Oversized(b) =>
          /\ toBot[b] = <<>>
          /\ b \notin cut => Len(handled[b]) >= Len(asked[b]) /\ servedAt[b] # "write"
    BY <2>3, <2>5
  <2>7. CASE \A i \in 1..Len(got[b]) : got[b][i].of = r
    <3>1. Finish(b, r, 1, handled[b][r]) /\ r # FailedRequest
      BY <1>b, <2>1, <2>2, <2>7
    <3> QED BY <1>d, <2>1, <2>2, <2>3, <2>4, <2>5, <2>6, <3>1
  <2>8. CASE ~\A i \in 1..Len(got[b]) : got[b][i].of = r
    <3>1. Finish(b, FailedRequest, 1, FALSE)
      BY <2>1, <2>8
    <3> QED BY <1>b, <1>d, <2>1, <2>6, <3>1
  <2> QED BY <2>7, <2>8
<1> QED BY <1>1, <1>2, <1>3, <1>4

LEMMA EndsInv ==
  ASSUME SimTypeOK, NEW b \in Bots, BotInv(b),
         BotWriteFails(b) \/ BotReadFails(b) \/ BotRefuses(b) \/ BotParses(b)
  PROVE  BotInv(b)'
<1>1. PICK reply \in Int, latency \in {0, 1}, ok \in BOOLEAN :
        /\ Finish(b, reply, latency, ok)
        /\ botAt[b] = "read" \/ (botAt[b] = "write" /\ b \in cut)
        /\ \/ reply = OversizeReply
           \/ Oversized(b)
           \/ /\ toBot[b] = <<>>
              /\ b \notin cut => Len(handled[b]) >= Len(asked[b]) /\ servedAt[b] # "write"
        /\ ok => Oversized(b) \/ Len(handled[b]) = Len(asked[b])
  BY FinishStep
<1> QED BY <1>1, FinishInv

LEMMA AskInv ==
  ASSUME SimTypeOK, NEW b \in Bots, BotInv(b), connectSocket(b) \/ Act(b) \/ Leave(b)
  PROVE  BotInv(b)'
<1>1. CASE connectSocket(b)
  <2>1. "JOIN" \in Action /\ servedAt'[b] = "queued"
    BY <1>1 DEF connectSocket, Action, SimTypeOK
  <2> QED BY <1>1, <2>1, BeginInv DEF connectSocket
<1>2. CASE Act(b)
  <2>1. PICK action \in Actions : Begin(b, action)
    BY <1>2 DEF Act
  <2>2. action \in Action /\ action # "JOIN"
    BY <2>1, SimulatorAssumption DEF Action
  <2> QED BY <1>2, <2>1, <2>2, BeginInv DEF Act, serverVars
<1>3. CASE Leave(b)
  <2>1. "LEAVE" \in Action
    BY DEF Action
  <2> QED BY <1>3, <2>1, BeginInv DEF Leave, serverVars
<1> QED BY <1>1, <1>2, <1>3

LEMMA WriteInv ==
  ASSUME SimTypeOK, NEW b \in Bots, BotInv(b), BotWrites(b)
  PROVE  BotInv(b)'
<1> DEFINE N == Len(asked[b])
<1> USE DEF serverVars
<1>a. PlaceInv(b) /\ AskedInv(b) /\ GhostInv(b) /\ RequestsInv(b) /\ RepliesInv(b) /\ PairedInv(b)
  BY DEF BotInv
<1>b. botAt[b] = "write" /\ out[b] = Request(N)
  BY <1>a DEF BotWrites, PlaceInv
<1>c. /\ botAt'[b] = "read" /\ out'[b] = <<>>
      /\ toServer'[b] = IF b \in cut THEN toServer[b] ELSE toServer[b] \o out[b]
  BY StreamTypes DEF BotWrites, Sent, SimTypeOK
<1>d. UNCHANGED <<asked, got, m_localMetrics, servedAt, reading, writing, handled, players, toBot, cut>>
  BY DEF BotWrites
<1>e. /\ N \in Nat \ {0} /\ Issued(b) = N - 1 /\ Issued(b)' = N
      /\ Len(m_localMetrics[b]) = N - 1
  BY <1>a, <1>b, <1>c, <1>d, WaitsFor DEF Issued, N
<1>f. Oversized(b)' <=> Oversized(b)
  BY <1>d DEF Oversized
<1>g. Outbound(b)' = Outbound(b)
  BY <1>d DEF Outbound
<1> HIDE DEF N
<1>1. PlaceInv(b)'
  BY <1>a, <1>b, <1>c, <1>d DEF PlaceInv
<1>2. AskedInv(b)'
  BY <1>a, <1>c, <1>d DEF AskedInv
<1>3. GhostInv(b)'
  BY <1>a, <1>c, <1>d DEF GhostInv
<1>4. Within(Values(reading[b]))' /\ Within(Values(got[b]))'
  BY <1>d DEF BotInv
<1>5. RequestsInv(b)'
  <2>1. CASE b \in cut
    <3>1. Inbound(b)' = Inbound(b)
      BY <1>c, <1>d, <2>1 DEF Inbound
    <3>2. Inbound(b) \in Seq(Byte) /\ Len(Inbound(b)) <= Len(Inbound(b))
      BY BotTypes
    <3>3. Issued(b)' \in Int /\ Issued(b) <= Issued(b)' /\ b \in cut' /\ handled'[b] = handled[b]
      BY <1>d, <1>e, <2>1
    <3> QED BY <1>a, <3>1, <3>2, <3>3, RequestsCut
  <2>2. CASE b \notin cut
    <3> DEFINE s == Inbound(b)
               h == Len(handled[b])
               n == N - 1
    <3>0. s \in Seq(Byte) /\ h \in Nat /\ n \in Nat /\ N = n + 1 /\ n = Issued(b)
      BY <1>e, BotTypes
    <3>1. Requests(s, h, n) /\ Len(s) = (n - h) * RequestLen
      <4>1. /\ Requests(Inbound(b), Len(handled[b]), Issued(b))
            /\ Len(Inbound(b)) = (Issued(b) - Len(handled[b])) * RequestLen
        BY <1>a, <2>2 DEF RequestsInv
      <4> QED BY <1>e, <4>1
    <3>2. Inbound(b)' = s \o Request(N)
      <4> DEFINE x == reading[b]
                 y == toServer[b]
                 z == Request(N)
      <4>1. x \in Seq(Byte) /\ y \in Seq(Byte) /\ z \in Seq(Byte)
        BY <1>e, BotTypes, RequestIs
      <4>2. x \o (y \o z) = (x \o y) \o z
        <5> HIDE DEF x, y, z
        <5> QED BY <4>1, ConcatBytes, Zenon
      <4> QED BY <1>b, <1>c, <1>d, <2>2, <4>2 DEF Inbound
    <3> HIDE DEF s, n, h
    <3> DEFINE q == s \o Request(n + 1)
               m == n + 1
               Fits(x, y, z) == Requests(x, y, z) /\ Len(x) = (z - y) * RequestLen
    <3>3. Fits(q, h, m)
      BY <3>0, <3>1, RequestsSend
    <3>4. Inbound(b)' = q /\ Len(handled'[b]) = h /\ Issued(b)' = m
      BY <1>d, <1>e, <3>0, <3>2 DEF h
    <3> HIDE DEF q, m, Fits
    <3>5. Fits(Inbound(b)', Len(handled'[b]), Issued(b)')
      BY <3>3, <3>4
    <3> QED BY <3>5 DEF RequestsInv, Fits
  <2> QED BY <2>1, <2>2
<1>7. RepliesInv(b)'
  BY <1>a, <1>d, <1>g DEF RepliesInv
<1>8. PairedInv(b)'
  BY <1>a, <1>b, <1>d, <1>f, <1>g DEF PairedInv
<1> QED BY <1>1, <1>2, <1>3, <1>4, <1>5, <1>7, <1>8 DEF BotInv

LEMMA ReadInv ==
  ASSUME SimTypeOK, NEW b \in Bots, BotInv(b), BotReads(b)
  PROVE  BotInv(b)'
<1> USE DEF serverVars
<1>a. PlaceInv(b) /\ AskedInv(b) /\ GhostInv(b) /\ RequestsInv(b) /\ RepliesInv(b) /\ PairedInv(b)
  BY DEF BotInv
<1>b. UNCHANGED <<botAt, asked, out, m_localMetrics, servedAt, reading, writing, handled,
                  players, toServer, cut>>
  BY DEF BotReads
<1>c. PICK n \in Pieces(got[b], toBot[b]) :
        /\ got' = [got EXCEPT ![b] = @ \o First(toBot[b], n)]
        /\ toBot' = [toBot EXCEPT ![b] = Rest(@, n)]
  BY DEF BotReads
<1>d. got'[b] = got[b] \o First(toBot[b], n) /\ toBot'[b] = Rest(toBot[b], n)
  BY <1>c, StreamTypes
<1>e. got[b] \in Seq(Byte) /\ toBot[b] \in Seq(Byte)
  BY BotTypes
<1>f. ~TooLarge(Values(got[b])) /\ ~Complete(Values(got[b])) /\ Within(Values(got[b]))
  BY DEF BotReads, BotInv
<1>g. Outbound(b)' = Outbound(b)
  <2>1. n \in 1..Len(toBot[b])
    BY <1>c, <1>e, <1>f, PieceIs
  <2>2. (got[b] \o First(toBot[b], n)) \o Rest(toBot[b], n) = got[b] \o toBot[b]
    BY <1>e, <2>1, MoveIs
  <2> QED BY <1>d, <2>2 DEF Outbound
<1>h. Oversized(b)' <=> Oversized(b)
  BY <1>b DEF Oversized
<1>1. PlaceInv(b)' /\ AskedInv(b)' /\ GhostInv(b)'
  BY <1>a, <1>b, <1>h DEF PlaceInv, AskedInv, GhostInv
<1>2. Within(Values(reading[b]))' /\ Within(Values(got[b]))'
  BY <1>b, <1>d, <1>e, <1>f, WithinKept DEF BotInv
<1>3. RequestsInv(b)'
  BY <1>a, <1>b DEF RequestsInv, Inbound, Issued
<1>4. RepliesInv(b)' /\ PairedInv(b)'
  BY <1>a, <1>b, <1>g, <1>h DEF RepliesInv, PairedInv
<1> QED BY <1>1, <1>2, <1>3, <1>4 DEF BotInv

LEMMA FlushInv ==
  ASSUME SimTypeOK, NEW b \in Bots, BotInv(b), Flush(b)
  PROVE  BotInv(b)'
<1> USE DEF serverVars
<1>a. PlaceInv(b) /\ AskedInv(b) /\ GhostInv(b) /\ RequestsInv(b) /\ RepliesInv(b) /\ PairedInv(b)
  BY DEF BotInv
<1>b. /\ UNCHANGED <<asked, out, got, m_localMetrics, servedAt, reading, writing, handled, players>>
      /\ botAt[b] = "flush" /\ cut' = cut \cup {b}
  BY DEF Flush
<1>c. botAt'[b] = "done" /\ toBot'[b] = <<>>
  BY StreamTypes DEF Flush, SimTypeOK
<1>d. PICK p \in IF toBot[b] = <<>> THEN {toServer[b]} ELSE Prefixes(toServer[b]) :
        toServer' = [toServer EXCEPT ![b] = p]
  BY DEF Flush
<1>e. /\ got[b] \in Seq(Byte) /\ reading[b] \in Seq(Byte) /\ toServer[b] \in Seq(Byte)
      /\ toBot[b] \in Seq(Byte)
  BY BotTypes
<1>f. /\ toServer'[b] = p /\ p \in Seq(Byte) /\ Len(p) <= Len(toServer[b])
      /\ \A i \in 1..Len(p) : p[i] = toServer[b][i]
  <2>1. toServer'[b] = p
    BY <1>d, StreamTypes
  <2>2. CASE toBot[b] = <<>>
    <3>1. p = toServer[b] /\ Len(p) \in Nat
      BY <1>d, <1>e, <2>2
    <3> QED BY <1>e, <2>1, <3>1
  <2>3. CASE p \in Prefixes(toServer[b])
    BY <1>e, <2>1, <2>3, PrefixIs
  <2> QED BY <1>d, <2>2, <2>3
<1>g. Outbound(b)' = got[b]
  BY <1>b, <1>c, <1>e, ToBotOf DEF Outbound
<1>h. Oversized(b)' <=> Oversized(b)
  BY <1>b DEF Oversized
<1>1. PlaceInv(b)' /\ AskedInv(b)'
  BY <1>a, <1>b, <1>c DEF PlaceInv, AskedInv
<1>2. GhostInv(b)'
  BY <1>a, <1>b, <1>c, <1>h DEF GhostInv
<1>3. Within(Values(reading[b]))' /\ Within(Values(got[b]))'
  BY <1>b DEF BotInv
<1>4. RequestsInv(b)'
  <2>1. Inbound(b)' = reading[b] \o p
    BY <1>b, <1>f DEF Inbound
  <2>2. /\ reading[b] \o p \in Seq(Byte) /\ Len(reading[b] \o p) <= Len(Inbound(b))
        /\ \A i \in 1..Len(reading[b] \o p) : (reading[b] \o p)[i] = Inbound(b)[i]
    <3> DEFINE s == reading[b]
               t == toServer[b]
    <3>1. /\ s \in Seq(Byte) /\ t \in Seq(Byte) /\ p \in Seq(Byte)
          /\ Len(p) <= Len(t) /\ \A i \in 1..Len(p) : p[i] = t[i]
      BY <1>e, <1>f
    <3> HIDE DEF s, t
    <3>2. /\ s \o p \in Seq(Byte) /\ Len(s \o p) <= Len(s \o t)
          /\ \A i \in 1..Len(s \o p) : (s \o p)[i] = (s \o t)[i]
      BY <3>1, JoinPrefix
    <3> QED BY <3>2 DEF Inbound, s, t
  <2>3. Issued(b)' = Issued(b) /\ Issued(b) \in Int /\ Issued(b) <= Issued(b)
    BY <1>b, <1>c, BotTypes DEF Issued
  <2>4. b \in cut' /\ handled'[b] = handled[b]
    BY <1>b
  <2> QED BY <1>a, <2>1, <2>2, <2>3, <2>4, RequestsCut
<1>5. RepliesInv(b)'
  <2>1. \A i \in 1..Len(Outbound(b)') :
          \E j \in 1..Len(Outbound(b)) : Outbound(b)'[i] = Outbound(b)[j]
    BY <1>g, OutboundParts
  <2> QED BY <1>a, <1>b, <2>1, RepliesKept
<1>6. PairedInv(b)'
  <2>1. ~Oversized(b) => Outbound(b)' = <<>>
    BY <1>a, <1>b, <1>g, OutboundParts DEF PairedInv
  <2> QED BY <1>b, <1>h, <2>1 DEF PairedInv
<1> QED BY <1>1, <1>2, <1>3, <1>4, <1>5, <1>6 DEF BotInv

LEMMA ConnectFailsInv ==
  ASSUME SimTypeOK, NEW b \in Bots, BotInv(b), ConnectFails(b)
  PROVE  BotInv(b)'
<1> USE DEF serverVars, streamVars
<1>a. PlaceInv(b) /\ AskedInv(b) /\ GhostInv(b) /\ RequestsInv(b) /\ RepliesInv(b) /\ PairedInv(b)
  BY DEF BotInv
<1>b. /\ UNCHANGED <<asked, out, got, m_localMetrics, servedAt, reading, writing, handled, players,
                     toServer, toBot, cut>>
      /\ botAt[b] = "connect" /\ botAt'[b] = "done"
  BY DEF ConnectFails, SimTypeOK
<1>c. asked[b] = <<>> /\ servedAt[b] = "none" /\ Len(m_localMetrics[b]) = 0 /\ m_localMetrics[b] = <<>>
  <2>1. m_localMetrics[b] \in Seq(Record)
    BY BotTypes
  <2> QED BY <1>a, <1>b, <2>1 DEF PlaceInv
<1>d. Oversized(b)' <=> Oversized(b)
  BY <1>b DEF Oversized
<1>e. Outbound(b)' = Outbound(b) /\ Inbound(b)' = Inbound(b) /\ Issued(b)' = Issued(b)
  BY <1>b DEF Outbound, Inbound, Issued
<1>1. PlaceInv(b)' /\ AskedInv(b)' /\ GhostInv(b)'
  BY <1>a, <1>b, <1>c DEF PlaceInv, AskedInv, GhostInv
<1>2. Within(Values(reading[b]))' /\ Within(Values(got[b]))'
  BY <1>b DEF BotInv
<1>3. RequestsInv(b)' /\ RepliesInv(b)' /\ PairedInv(b)'
  BY <1>a, <1>b, <1>c, <1>d, <1>e DEF RequestsInv, RepliesInv, PairedInv
<1> QED BY <1>1, <1>2, <1>3 DEF BotInv

-----------------------------------------------------------------------------
(* Steps of the server and of the network *)

LEMMA ServeInv ==
  ASSUME SimTypeOK, NEW b \in Bots, BotInv(b), Serve(b)
  PROVE  BotInv(b)'
<1> USE DEF botVars, streamVars
<1>a. PlaceInv(b) /\ AskedInv(b) /\ GhostInv(b) /\ RequestsInv(b) /\ RepliesInv(b) /\ PairedInv(b)
  BY DEF BotInv
<1>b. /\ UNCHANGED <<botAt, asked, out, got, m_localMetrics, reading, writing, handled, players,
                     toServer, toBot, cut>>
      /\ servedAt[b] = "queued" /\ servedAt'[b] = "read"
  BY DEF Serve, SimTypeOK
<1>c. Oversized(b)' <=> Oversized(b)
  BY <1>b DEF Oversized
<1>d. Outbound(b)' = Outbound(b) /\ Inbound(b)' = Inbound(b) /\ Issued(b)' = Issued(b)
  BY <1>b DEF Outbound, Inbound, Issued
<1>1. PlaceInv(b)' /\ AskedInv(b)' /\ GhostInv(b)'
  BY <1>a, <1>b, <1>c DEF PlaceInv, AskedInv, GhostInv
<1>2. Within(Values(reading[b]))' /\ Within(Values(got[b]))'
  BY <1>b DEF BotInv
<1>3. RequestsInv(b)' /\ RepliesInv(b)' /\ PairedInv(b)'
  BY <1>a, <1>b, <1>c, <1>d DEF RequestsInv, RepliesInv, PairedInv
<1> QED BY <1>1, <1>2, <1>3 DEF BotInv

LEMMA ServerReadInv ==
  ASSUME SimTypeOK, NEW b \in Bots, BotInv(b), ServerReads(b)
  PROVE  BotInv(b)'
<1> USE DEF botVars
<1>a. PlaceInv(b) /\ AskedInv(b) /\ GhostInv(b) /\ RequestsInv(b) /\ RepliesInv(b) /\ PairedInv(b)
  BY DEF BotInv
<1>b. UNCHANGED <<botAt, asked, out, got, m_localMetrics, servedAt, writing, handled, players,
                  toBot, cut>>
  BY DEF ServerReads
<1>c. PICK n \in Pieces(reading[b], toServer[b]) :
        /\ reading' = [reading EXCEPT ![b] = @ \o First(toServer[b], n)]
        /\ toServer' = [toServer EXCEPT ![b] = Rest(@, n)]
  BY DEF ServerReads
<1>d. reading'[b] = reading[b] \o First(toServer[b], n) /\ toServer'[b] = Rest(toServer[b], n)
  BY <1>c, StreamTypes
<1>e. reading[b] \in Seq(Byte) /\ toServer[b] \in Seq(Byte)
  BY BotTypes
<1>f. ~TooLarge(Values(reading[b])) /\ ~Complete(Values(reading[b])) /\ Within(Values(reading[b]))
  BY DEF ServerReads, BotInv
<1>g. Inbound(b)' = Inbound(b)
  <2>1. n \in 1..Len(toServer[b])
    BY <1>c, <1>e, <1>f, PieceIs
  <2>2. (reading[b] \o First(toServer[b], n)) \o Rest(toServer[b], n) = reading[b] \o toServer[b]
    BY <1>e, <2>1, MoveIs
  <2> QED BY <1>d, <2>2 DEF Inbound
<1>h. Oversized(b)' <=> Oversized(b)
  BY <1>b DEF Oversized
<1>i. Outbound(b)' = Outbound(b) /\ Issued(b)' = Issued(b)
  BY <1>b DEF Outbound, Issued
<1>1. PlaceInv(b)' /\ AskedInv(b)' /\ GhostInv(b)'
  BY <1>a, <1>b, <1>h DEF PlaceInv, AskedInv, GhostInv
<1>2. Within(Values(reading[b]))' /\ Within(Values(got[b]))'
  BY <1>b, <1>d, <1>e, <1>f, WithinKept DEF BotInv
<1>3. RequestsInv(b)'
  BY <1>a, <1>b, <1>g, <1>i, RequestsKept
<1>4. RepliesInv(b)' /\ PairedInv(b)'
  BY <1>a, <1>b, <1>i, <1>h DEF RepliesInv, PairedInv
<1> QED BY <1>1, <1>2, <1>3, <1>4 DEF BotInv

\* What is dispatched is the first request not yet handled.
LEMMA DispatchIs ==
  ASSUME SimTypeOK, NEW b \in Bots, RequestsInv(b), dispatch(b)
  PROVE  /\ reading[b][1].of = Len(handled[b]) + 1
         /\ Len(handled[b]) < Issued(b) /\ Len(handled[b]) < Len(asked[b])
         /\ Requests(toServer[b], Len(handled[b]) + 1, Issued(b))
         /\ b \notin cut =>
              Len(toServer[b]) = (Issued(b) - (Len(handled[b]) + 1)) * RequestLen
<1> DEFINE a == reading[b]
           rest == toServer[b]
           h == Len(handled[b])
           n == Issued(b)
<1>1. /\ a \in Seq(Byte) /\ rest \in Seq(Byte) /\ h \in Nat /\ n \in Int
      /\ n <= Len(asked[b]) /\ Len(asked[b]) \in Nat
  BY BotTypes
<1>2. /\ Requests(a \o rest, h, n) /\ Complete(Values(a))
      /\ b \notin cut => Len(a \o rest) = (n - h) * RequestLen
  BY DEF RequestsInv, Inbound, dispatch
<1> HIDE DEF a, rest, h, n
<1>3. /\ a[1].of = h + 1 /\ h < n /\ Requests(rest, h + 1, n)
      /\ Len(a \o rest) = (n - h) * RequestLen => Len(rest) = (n - (h + 1)) * RequestLen
  <2>1. /\ a \in Seq(Byte) /\ rest \in Seq(Byte) /\ h \in Nat /\ n \in Int
        /\ Requests(a \o rest, h, n) /\ Complete(Values(a))
    BY <1>1, <1>2
  <2>2. a[1].of = h + 1
    BY <2>1, RequestsTake
  <2>3. h < n
    BY <2>1, RequestsTake
  <2>4. Requests(rest, h + 1, n)
    BY <2>1, RequestsTake
  <2>5. Len(a \o rest) = (n - h) * RequestLen => Len(rest) = (n - (h + 1)) * RequestLen
    BY <2>1, RequestsTake
  <2> QED BY <2>2, <2>3, <2>4, <2>5
<1>4. h < Len(asked[b])
  BY <1>1, <1>3
<1> QED BY <1>2, <1>3, <1>4 DEF a, rest, h, n

LEMMA DispatchInv ==
  ASSUME SimTypeOK, NEW b \in Bots, BotInv(b), dispatch(b)
  PROVE  BotInv(b)'
<1> DEFINE h == Len(handled[b])
           r == reading[b][1].of
           action == asked[b][r]
<1> USE DEF botVars, streamVars
<1>a. PlaceInv(b) /\ AskedInv(b) /\ GhostInv(b) /\ RequestsInv(b) /\ RepliesInv(b) /\ PairedInv(b)
  BY DEF BotInv
<1>b. /\ UNCHANGED <<botAt, asked, out, got, m_localMetrics, toServer, toBot, cut>>
      /\ servedAt[b] = "read" /\ servedAt'[b] = "write" /\ reading'[b] = <<>>
  BY StreamTypes DEF dispatch, SimTypeOK
<1>c. PICK reply \in Replies(b, action) :
        /\ handled' = [handled EXCEPT ![b] = Append(@, reply.ok)]
        /\ writing' = [writing EXCEPT ![b] = Frame(r, reply.size)]
        /\ players' \in PlayersAfter(b, action, reply.ok)
  BY DEF dispatch
<1>d. /\ r = h + 1 /\ h < Issued(b) /\ h < Len(asked[b])
      /\ Requests(toServer[b], h + 1, Issued(b))
      /\ b \notin cut => Len(toServer[b]) = (Issued(b) - (h + 1)) * RequestLen
  BY <1>a, DispatchIs
<1>e. /\ h \in Nat /\ handled[b] \in Seq(BOOLEAN) /\ Len(asked[b]) \in Nat
      /\ Len(m_localMetrics[b]) \in Nat /\ toServer[b] \in Seq(Byte) /\ Issued(b) \in Int
  BY BotTypes
<1>f. reply.ok \in BOOLEAN /\ reply.size \in {1, LargeReply}
  BY <1>c, ReplyIs
<1>g. handled'[b] = Append(handled[b], reply.ok) /\ writing'[b] = Frame(r, reply.size)
  BY <1>c, StreamTypes DEF SimTypeOK
<1> HIDE DEF action, r
<1>h. Len(handled'[b]) = h + 1
  BY <1>e, <1>f, <1>g, AppendProperties
<1>i. Oversized(b)' <=> Oversized(b)
  BY <1>b DEF Oversized
<1>j. Outbound(b)' = Outbound(b) /\ Issued(b)' = Issued(b) /\ Inbound(b)' = toServer[b]
  BY <1>b, <1>e, ToBotOf DEF Outbound, Issued, Inbound
<1> HIDE DEF h
<1>1. PlaceInv(b)' /\ AskedInv(b)'
  BY <1>a, <1>b DEF PlaceInv, AskedInv
<1>2. GhostInv(b)'
  <2>1. asked'[b][Len(handled'[b])] = action
    BY <1>b, <1>d, <1>h DEF action
  <2>2. action = "LEAVE" => b \notin players'
    BY <1>c, PlayersAfterIs
  <2>3. h # Len(asked[b])
    BY <1>d, <1>e
  <2> QED BY <1>a, <1>b, <1>i, <2>1, <2>2, <2>3 DEF GhostInv, h
<1>3. Within(Values(reading[b]))' /\ Within(Values(got[b]))'
  BY <1>b, WithinEmpty DEF BotInv
<1>4. RequestsInv(b)'
  BY <1>b, <1>d, <1>h, <1>j DEF RequestsInv
<1>5. RepliesInv(b)'
  <2>1. \A i \in 1..Len(Outbound(b)) : Outbound(b)[i].of \in 1..h
    BY <1>a DEF RepliesInv, h
  <2>2. 1..h \subseteq 1..(h + 1) /\ h + 1 > 0
    BY <1>e
  <2> QED BY <1>d, <1>f, <1>g, <1>h, <1>j, <2>1, <2>2 DEF RepliesInv
<1>6. PairedInv(b)'
  <2>1. SUFFICES ASSUME ~Oversized(b) PROVE PairedInv(b)'
    BY <1>i DEF PairedInv
  <2>2. Outbound(b)' = <<>>
    BY <1>a, <1>d, <1>e, <1>j, <2>1 DEF PairedInv, h
  <2>3. ASSUME b \notin cut
        PROVE  h + 1 >= Len(m_localMetrics[b]) /\ botAt[b] = "read" /\ h + 1 = Len(asked[b])
    <3>1. h >= Len(m_localMetrics[b])
      BY <1>a, <2>1, <2>3 DEF PairedInv, h
    <3>2. botAt[b] = "read"
      BY <1>a, <1>d, <1>e, <3>1 DEF PlaceInv, Issued
    <3>3. Len(m_localMetrics[b]) = Len(asked[b]) - 1
      BY <1>a, <3>2 DEF PlaceInv
    <3> QED BY <1>d, <1>e, <3>1, <3>2, <3>3
  <2> QED BY <1>b, <1>h, <2>2, <2>3 DEF PairedInv
<1> QED BY <1>1, <1>2, <1>3, <1>4, <1>5, <1>6 DEF BotInv

LEMMA ServerWriteInv ==
  ASSUME SimTypeOK, NEW b \in Bots, BotInv(b), ServerWrites(b)
  PROVE  BotInv(b)'
<1> DEFINE h == Len(handled[b])
           N == Len(asked[b])
           old == Outbound(b)
           w == writing[b]
<1> USE DEF botVars
<1>a. PlaceInv(b) /\ AskedInv(b) /\ GhostInv(b) /\ RequestsInv(b) /\ RepliesInv(b) /\ PairedInv(b)
  BY DEF BotInv
<1>b. /\ UNCHANGED <<botAt, asked, out, got, m_localMetrics, reading, handled, players,
                     toServer, cut>>
      /\ servedAt[b] = "write" /\ servedAt'[b] = "read" /\ writing'[b] = <<>>
      /\ toBot'[b] = IF b \in cut THEN toBot[b] ELSE toBot[b] \o w
  BY StreamTypes DEF ServerWrites, Sent, SimTypeOK
<1>c. /\ h \in Nat /\ old \in Seq(Byte) /\ w \in Seq(Byte) /\ got[b] \in Seq(Byte)
      /\ toBot[b] \in Seq(Byte) /\ h > 0 /\ N \in Nat
  BY <1>a, <1>b, BotTypes DEF RepliesInv
<1>d. PICK size \in {1, LargeReply} : w = Frame(h, size)
  BY <1>a, <1>b DEF RepliesInv
<1>e. /\ Len(w) = HEADER_SIZE + size /\ \A i \in 1..Len(w) : w[i].of = h
  <2>1. size \in U32
    BY OneFits, SimulatorAssumption
  <2> HIDE DEF h, w
  <2>2. Len(Frame(h, size)) = HEADER_SIZE + size
    BY <1>c, <2>1, FrameIs
  <2>3. \A i \in 1..HEADER_SIZE + size : Frame(h, size)[i].of = h
    BY <1>c, <2>1, FrameIs
  <2> QED BY <1>d, <2>2, <2>3
<1>f. Oversized(b)' <=> Oversized(b)
  BY <1>b DEF Oversized
<1>g. Inbound(b)' = Inbound(b) /\ Issued(b)' = Issued(b)
  BY <1>b DEF Inbound, Issued
<1>h. Outbound(b)' = IF b \in cut THEN old ELSE old \o w
  <2> DEFINE x == got[b]
             y == toBot[b]
  <2>0. x \in Seq(Byte) /\ y \in Seq(Byte) /\ w \in Seq(Byte)
    BY <1>c
  <2>1. (x \o y) \o w = x \o (y \o w)
    <3> HIDE DEF x, y, w
    <3> QED BY <2>0, ConcatBytes, Zenon
  <2> QED BY <1>b, <2>1 DEF Outbound
<1> HIDE DEF h, N, old, w
<1>1. PlaceInv(b)' /\ AskedInv(b)' /\ GhostInv(b)'
  BY <1>a, <1>b, <1>f DEF PlaceInv, AskedInv, GhostInv
<1>2. Within(Values(reading[b]))' /\ Within(Values(got[b]))'
  BY <1>b DEF BotInv
<1>3. RequestsInv(b)'
  BY <1>a, <1>b, <1>g, RequestsKept
<1>4. RepliesInv(b)'
  <2>1. \A i \in 1..Len(old) : old[i].of \in 1..h
    BY <1>a DEF RepliesInv, old, h
  <2>2. \A i \in 1..Len(old \o w) : (old \o w)[i].of \in 1..h
    <3> SUFFICES ASSUME NEW i \in 1..Len(old \o w) PROVE (old \o w)[i].of \in 1..h
      OBVIOUS
    <3>1. Len(old \o w) = Len(old) + Len(w) /\ Len(old) \in Nat /\ Len(w) \in Nat
      BY <1>c, ConcatIs
    <3>2. CASE i <= Len(old)
      <4>1. i \in 1..Len(old)
        BY <3>1, <3>2
      <4>2. (old \o w)[i] = old[i]
        BY <1>c, <4>1, ConcatIs
      <4> QED BY <2>1, <4>1, <4>2
    <3>3. CASE i > Len(old)
      <4>1. i - Len(old) \in 1..Len(w) /\ i = Len(old) + (i - Len(old))
        BY <3>1, <3>3
      <4>2. (old \o w)[i] = w[i - Len(old)]
        BY <1>c, <4>1, ConcatIs
      <4>3. h \in 1..h
        BY <1>c
      <4> QED BY <1>e, <4>1, <4>2, <4>3
    <3> QED BY <3>1, <3>2, <3>3
  <2>3. \A i \in 1..Len(Outbound(b)') : Outbound(b)'[i].of \in 1..h
    BY <1>h, <2>1, <2>2
  <2> QED BY <1>b, <2>3 DEF RepliesInv, h
<1>5. PairedInv(b)'
  <2>1. SUFFICES ASSUME ~Oversized(b) PROVE PairedInv(b)'
    BY <1>f DEF PairedInv
  <2>2. CASE b \in cut
    BY <1>a, <1>b, <1>h, <2>1, <2>2 DEF PairedInv, old
  <2>3. CASE b \notin cut
    <3>1. botAt[b] = "read" /\ h = N /\ old = <<>> /\ h >= Len(m_localMetrics[b])
      BY <1>a, <1>b, <2>1, <2>3 DEF PairedInv, h, N, old
    <3>2. Outbound(b)' = w
      BY <1>c, <1>h, <2>3, <3>1, ToBotOf
    <3>3. ReplyTo(w, N)
      <4>1. HEADER_SIZE + size \in Int
        BY OneFits, SimulatorAssumption, ByteAssumption
      <4> QED BY <1>d, <1>e, <3>1, <4>1 DEF ReplyTo
    <3> QED BY <1>b, <3>1, <3>2, <3>3 DEF PairedInv, h, N
  <2> QED BY <2>2, <2>3
<1> QED BY <1>1, <1>2, <1>3, <1>4, <1>5 DEF BotInv

LEMMA ServerCloseInv ==
  ASSUME SimTypeOK, NEW b \in Bots, BotInv(b), ServerCloses(b)
  PROVE  BotInv(b)'
<1> USE DEF botVars
<1>a. PlaceInv(b) /\ AskedInv(b) /\ GhostInv(b) /\ RequestsInv(b) /\ RepliesInv(b) /\ PairedInv(b)
  BY DEF BotInv
<1>b. /\ UNCHANGED <<botAt, asked, out, got, m_localMetrics, handled, players, toBot>>
      /\ servedAt[b] \in {"read", "write"} /\ servedAt'[b] = "closed" /\ cut' = cut \cup {b}
      /\ reading'[b] = <<>> /\ writing'[b] = <<>> /\ toServer'[b] = <<>>
  BY StreamTypes DEF ServerCloses, SimTypeOK
<1>f. Oversized(b)' <=> Oversized(b)
  BY <1>b DEF Oversized
<1>g. Outbound(b)' = Outbound(b) /\ Issued(b)' = Issued(b)
  BY <1>b DEF Outbound, Issued
<1>1. PlaceInv(b)' /\ AskedInv(b)' /\ GhostInv(b)'
  BY <1>a, <1>b, <1>f DEF PlaceInv, AskedInv, GhostInv
<1>2. Within(Values(reading[b]))' /\ Within(Values(got[b]))'
  BY <1>b, WithinEmpty DEF BotInv
<1>3. RequestsInv(b)'
  <2>1. Inbound(b)' = <<>>
    BY <1>b DEF Inbound
  <2>2. <<>> \in Seq(Byte) /\ Len(<<>>) = 0
    OBVIOUS
  <2>3. Len(<<>>) <= Len(Inbound(b)) /\ Issued(b) \in Int /\ Issued(b) <= Issued(b)
    BY <2>2, BotTypes
  <2>4. \A i \in 1..Len(Inbound(b)') : Inbound(b)'[i] = Inbound(b)[i]
    BY <2>1, <2>2
  <2>5. b \in cut' /\ handled'[b] = handled[b]
    BY <1>b
  <2> QED BY <1>a, <1>g, <2>1, <2>2, <2>3, <2>4, <2>5, RequestsCut
<1>4. RepliesInv(b)' /\ PairedInv(b)'
  BY <1>a, <1>b, <1>g, <1>f DEF RepliesInv, PairedInv
<1> QED BY <1>1, <1>2, <1>3, <1>4 DEF BotInv

LEMMA BreakInv ==
  ASSUME SimTypeOK, NEW b \in Bots, BotInv(b), Break(b)
  PROVE  BotInv(b)'
<1> USE DEF botVars, serverVars
<1>a. PlaceInv(b) /\ AskedInv(b) /\ GhostInv(b) /\ RequestsInv(b) /\ RepliesInv(b) /\ PairedInv(b)
  BY DEF BotInv
<1>b. /\ UNCHANGED <<botAt, asked, out, got, m_localMetrics, servedAt, reading, writing, handled,
                     players>>
      /\ cut' = cut \cup {b}
  BY DEF Break
<1>c. /\ got[b] \in Seq(Byte) /\ reading[b] \in Seq(Byte) /\ toServer[b] \in Seq(Byte)
      /\ toBot[b] \in Seq(Byte)
  BY BotTypes
<1>d. PICK p \in Prefixes(toServer[b]), q \in Prefixes(toBot[b]) :
        toServer' = [toServer EXCEPT ![b] = p] /\ toBot' = [toBot EXCEPT ![b] = q]
  BY DEF Break
<1>e. /\ toServer'[b] = p /\ p \in Seq(Byte) /\ Len(p) <= Len(toServer[b])
      /\ \A i \in 1..Len(p) : p[i] = toServer[b][i]
  BY <1>c, <1>d, StreamTypes, PrefixIs
<1>f. /\ toBot'[b] = q /\ q \in Seq(Byte) /\ Len(q) <= Len(toBot[b])
      /\ \A i \in 1..Len(q) : q[i] = toBot[b][i]
  BY <1>c, <1>d, StreamTypes, PrefixIs
<1>g. Oversized(b)' <=> Oversized(b)
  BY <1>b DEF Oversized
<1>h. /\ Outbound(b)' \in Seq(Byte) /\ Len(Outbound(b)') <= Len(Outbound(b))
      /\ \A i \in 1..Len(Outbound(b)') : Outbound(b)'[i] = Outbound(b)[i]
  <2> DEFINE s == got[b]
             t == toBot[b]
  <2>1. /\ s \in Seq(Byte) /\ t \in Seq(Byte) /\ q \in Seq(Byte)
        /\ Len(q) <= Len(t) /\ \A i \in 1..Len(q) : q[i] = t[i]
    BY <1>c, <1>f
  <2>2. Outbound(b)' = s \o q /\ Outbound(b) = s \o t
    BY <1>b, <1>f DEF Outbound
  <2> HIDE DEF s, t
  <2>3. /\ s \o q \in Seq(Byte) /\ Len(s \o q) <= Len(s \o t)
        /\ \A i \in 1..Len(s \o q) : (s \o q)[i] = (s \o t)[i]
    BY <2>1, JoinPrefix
  <2> QED BY <2>2, <2>3
<1>1. PlaceInv(b)' /\ AskedInv(b)' /\ GhostInv(b)'
  BY <1>a, <1>b, <1>g DEF PlaceInv, AskedInv, GhostInv
<1>2. Within(Values(reading[b]))' /\ Within(Values(got[b]))'
  BY <1>b DEF BotInv
<1>3. RequestsInv(b)'
  <2> DEFINE s == reading[b]
             t == toServer[b]
  <2>1. /\ s \in Seq(Byte) /\ t \in Seq(Byte) /\ p \in Seq(Byte)
        /\ Len(p) <= Len(t) /\ \A i \in 1..Len(p) : p[i] = t[i]
    BY <1>c, <1>e
  <2>2. Inbound(b)' = s \o p /\ Inbound(b) = s \o t
    BY <1>b, <1>e DEF Inbound
  <2> HIDE DEF s, t
  <2>3. /\ s \o p \in Seq(Byte) /\ Len(s \o p) <= Len(s \o t)
        /\ \A i \in 1..Len(s \o p) : (s \o p)[i] = (s \o t)[i]
    BY <2>1, JoinPrefix
  <2>4. Issued(b)' = Issued(b) /\ Issued(b) \in Int /\ Issued(b) <= Issued(b)
    BY <1>b, BotTypes DEF Issued
  <2>5. b \in cut' /\ handled'[b] = handled[b]
    BY <1>b
  <2> QED BY <1>a, <2>2, <2>3, <2>4, <2>5, RequestsCut
<1>4. \A i \in 1..Len(Outbound(b)') : i \in 1..Len(Outbound(b))
  <2>1. Len(Outbound(b)) \in Nat
    BY BotTypes
  <2> QED BY <1>h, <2>1
<1>5. RepliesInv(b)'
  <2>1. \A i \in 1..Len(Outbound(b)') :
          \E j \in 1..Len(Outbound(b)) : Outbound(b)'[i] = Outbound(b)[j]
    BY <1>h, <1>4
  <2> QED BY <1>a, <1>b, <2>1, RepliesKept
<1>6. PairedInv(b)'
  <2>1. SUFFICES ASSUME ~Oversized(b) PROVE PairedInv(b)'
    BY <1>g DEF PairedInv
  <2>2. Outbound(b)' # <<>> => Outbound(b) # <<>>
    <3>1. Outbound(b) = <<>> => Len(Outbound(b)) = 0
      OBVIOUS
    <3> QED BY <1>h, <3>1
  <2>3. \A n : ReplyTo(Outbound(b), n) => ReplyTo(Outbound(b)', n)
    <3> SUFFICES ASSUME NEW n, ReplyTo(Outbound(b), n) PROVE ReplyTo(Outbound(b)', n)
      OBVIOUS
    <3>1. PICK size \in {1, LargeReply} :
            /\ Len(Outbound(b)) <= HEADER_SIZE + size
            /\ \A i \in 1..Len(Outbound(b)) : Outbound(b)[i] = Frame(n, size)[i]
      BY DEF ReplyTo
    <3>2. Len(Outbound(b)') <= HEADER_SIZE + size
      <4>1. Len(Outbound(b)) \in Nat /\ Len(Outbound(b)') \in Nat /\ HEADER_SIZE + size \in Int
        BY <1>h, BotTypes, OneFits, SimulatorAssumption, ByteAssumption
      <4> QED BY <1>h, <3>1, <4>1
    <3>3. \A i \in 1..Len(Outbound(b)') : Outbound(b)'[i] = Frame(n, size)[i]
      BY <1>h, <1>4, <3>1
    <3> QED BY <3>2, <3>3 DEF ReplyTo
  <2> QED BY <1>a, <1>b, <2>1, <2>2, <2>3 DEF PairedInv
<1> QED BY <1>1, <1>2, <1>3, <1>5, <1>6 DEF BotInv

-----------------------------------------------------------------------------
(* The invariant *)

LEMMA BotStepInv ==
  ASSUME SimInv, NEW b \in Bots, StepOf(b)
  PROVE  BotInv(b)'
<1>1. SimTypeOK /\ BotInv(b)
  BY DEF SimInv
<1> QED BY <1>1, AskInv, FlushInv, WriteInv, ReadInv, EndsInv, ConnectFailsInv, ServeInv,
           ServerReadInv, DispatchInv, ServerWriteInv, ServerCloseInv, BreakInv DEF StepOf

LEMMA SimNext_Inv == SimInv /\ [SimNext]_simVars => SimInv'
<1> SUFFICES ASSUME SimInv, [SimNext]_simVars PROVE SimInv'
  OBVIOUS
<1>1. ASSUME NEW b \in Bots, StepOf(b) PROVE SimInv'
  <2>1. SimTypeOK'
    BY <1>1, TypeStep
  <2>2. BotInv(b)'
    BY <1>1, BotStepInv
  <2>3. ASSUME NEW c \in Bots \ {b} PROVE BotInv(c)'
    <3>1. Same(c)
      BY <1>1, OthersSame DEF SimInv
    <3> QED BY <3>1, SameKept DEF SimInv
  <2> QED BY <2>1, <2>2, <2>3 DEF SimInv
<1>2. CASE signalHandler \/ RunReturns \/ UNCHANGED simVars
  <2>1. /\ UNCHANGED <<botVars, serverVars, streamVars, m_metrics>>
        /\ m_stopFlag' \in {m_stopFlag, TRUE}
    BY <1>2 DEF signalHandler, RunReturns, simVars, mainVars
  <2>2. SimTypeOK'
    BY <2>1 DEF SimInv, SimTypeOK, botVars, serverVars, streamVars
  <2>3. \A c : Same(c)
    BY <2>1 DEF Same, botVars, serverVars, streamVars
  <2>4. \A c \in Bots : BotInv(c)'
    BY <2>3, SameKept DEF SimInv
  <2> QED BY <2>2, <2>4 DEF SimInv
<1> QED BY <1>1, <1>2, StepCases

LEMMA SimSpec_Inv == SimSpec => []SimInv
  BY SimInit_Inv, SimNext_Inv, PTL DEF SimSpec

-----------------------------------------------------------------------------
(* What the invariant says of the simulator *)

\* Every variable has the type it is declared with in the C++ code, and what is
\* in flight are bytes.
THEOREM SimTypeCorrect == SimSpec => []SimTypeOK
<1>1. SimInv => SimTypeOK
  BY DEF SimInv
<1> QED BY <1>1, SimSpec_Inv, PTL

LEMMA LostIs ==
  ASSUME SimTypeOK, NEW b \in Bots
  PROVE  E!Lost(b) <=> Oversized(b)
<1> DEFINE s == [i \in 1..Len(m_localMetrics[b]) |-> m_localMetrics[b][i].reply]
<1>1. Len(m_localMetrics[b]) \in Nat
  BY BotTypes
<1>2. Len(s) = Len(m_localMetrics[b])
  BY <1>1
<1>3. [c \in Bots |->
         [i \in 1..Len(m_localMetrics[c]) |-> m_localMetrics[c][i].reply]][b] = s
  OBVIOUS
<1>4. E!Lost(b) <=> \E i \in 1..Len(s) : s[i] = OversizeReply
  BY <1>3 DEF E!Lost
<1> QED BY <1>2, <1>4 DEF Oversized

\* A player is left in the game by a bot that is done only if the bot reported a
\* failure, or met a reply that was too large (PlayerBot::run, Server::handleClient).
THEOREM GhostCorrect == SimSpec => []GhostExplained
<1>1. SimInv => GhostExplained
  <2> SUFFICES ASSUME SimInv, NEW b \in players \cap Bots, botAt[b] = "done",
                      m_localMetrics[b] # <<>>, Last(m_localMetrics[b]).ok, ~E!Lost(b)
               PROVE  FALSE
    BY DEF GhostExplained
  <2>1. SimTypeOK /\ PlaceInv(b) /\ AskedInv(b) /\ GhostInv(b) /\ ~Oversized(b)
    BY LostIs DEF SimInv, BotInv
  <2>2. Len(handled[b]) = Len(asked[b])
    BY <2>1 DEF GhostInv
  <2>3. /\ m_localMetrics[b] \in Seq(Record) /\ asked[b] \in Seq(Action)
        /\ Len(m_localMetrics[b]) = Len(asked[b]) /\ Len(asked[b]) \in Nat
    BY <2>1, BotTypes DEF PlaceInv
  <2>4. Len(asked[b]) > 0 /\ asked[b] # <<>>
    BY <2>3, EmptySeq
  <2>5. asked[b][Len(asked[b])] = "LEAVE"
    BY <2>1, <2>4 DEF AskedInv
  <2> QED BY <2>1, <2>2, <2>4, <2>5 DEF GhostInv
<1> QED BY <1>1, SimSpec_Inv, PTL

\* On every stream, at every point where a reader may be, decode takes the frame
\* that readExact reads and refuses the ones that it refuses (MessageFramer).
THEOREM DecodeCorrect == SimSpec => []DecodeAgrees
<1>1. SimInv => DecodeAgrees
  <2> SUFFICES ASSUME SimInv, NEW b \in Bots,
                      NEW s \in {<<reading[b], toServer[b]>>, <<got[b], toBot[b]>>}
               PROVE  LET buf == Values(s[1])
                          d == decode(buf)
                          later == decode(buf \o Values(s[2]))
                      IN  /\ d.result = "message" <=> Complete(buf)
                          /\ d.result = "throw" <=> TooLarge(buf)
                          /\ Complete(buf) => /\ encode(d.out) = buf /\ d.rest = <<>>
                                              /\ later.out = d.out /\ later.rest = Values(s[2])
    BY DEF DecodeAgrees
  <2>1. /\ reading[b] \in Seq(Byte) /\ toServer[b] \in Seq(Byte)
        /\ got[b] \in Seq(Byte) /\ toBot[b] \in Seq(Byte)
        /\ Within(Values(reading[b])) /\ Within(Values(got[b]))
    BY BotTypes DEF SimInv, BotInv
  <2>2. s[1] \in Seq(Byte) /\ s[2] \in Seq(Byte) /\ Within(Values(s[1]))
    BY <2>1
  <2>3. Values(s[1]) \in Seq(0..BYTE - 1) /\ Values(s[2]) \in Seq(0..BYTE - 1)
    BY <2>2, ValuesIs
  <2> QED BY <2>2, <2>3, DecodeIs
<1> QED BY <1>1, SimSpec_Inv, PTL

-----------------------------------------------------------------------------
(* The connections implement Exchange *)

\* What the mapping makes of a record that is added.
LEMMA ResultAppended ==
  ASSUME SimTypeOK, NEW b \in Bots, NEW r, r.reply \in Int,
         m_localMetrics' = [m_localMetrics EXCEPT ![b] = Append(@, r)]
  PROVE  [c \in Bots |-> [i \in 1..Len(m_localMetrics[c]) |-> m_localMetrics[c][i].reply]]'
           = [[c \in Bots |-> [i \in 1..Len(m_localMetrics[c]) |-> m_localMetrics[c][i].reply]]
                EXCEPT ![b] = Append(@, r.reply)]
<1> DEFINE m == m_localMetrics[b]
           n == Len(m)
           old == [i \in 1..n |-> m[i].reply]
           new == [i \in 1..n + 1 |-> Append(m, r)[i].reply]
<1>1. m \in Seq(Record) /\ n \in Nat
  BY BotTypes
<1> HIDE DEF m
<1>2. /\ Len(Append(m, r)) = n + 1 /\ Append(m, r)[n + 1] = r
      /\ \A i \in 1..n : Append(m, r)[i] = m[i]
  BY <1>1
<1>3. \A i \in 1..n : m[i].reply \in Int
  <2>1. \A x \in Record : x.reply \in Int
    BY DEF Record
  <2> QED BY <1>1, <2>1, ElementOfSeq
<1>4. old \in Seq(Int) /\ Len(old) = n
  BY <1>1, <1>3
<1>5. new \in Seq(Int) /\ Len(new) = n + 1
  <2>1. \A i \in 1..n + 1 : Append(m, r)[i].reply \in Int
    <3> SUFFICES ASSUME NEW i \in 1..n + 1 PROVE Append(m, r)[i].reply \in Int
      OBVIOUS
    <3>1. i \in 1..n \/ i = n + 1
      BY <1>1
    <3> QED BY <1>2, <1>3, <3>1
  <2> QED BY <1>1, <2>1
<1>6. new = Append(old, r.reply)
  <2>1. /\ Append(old, r.reply) \in Seq(Int) /\ Len(Append(old, r.reply)) = n + 1
        /\ Append(old, r.reply)[n + 1] = r.reply
        /\ \A i \in 1..n : Append(old, r.reply)[i] = old[i]
    BY <1>4
  <2>2. \A i \in 1..n + 1 : new[i] = Append(old, r.reply)[i]
    <3> SUFFICES ASSUME NEW i \in 1..n + 1 PROVE new[i] = Append(old, r.reply)[i]
      OBVIOUS
    <3>1. i \in 1..n \/ i = n + 1
      BY <1>1
    <3> QED BY <1>2, <2>1, <3>1
  <2> HIDE DEF old, new
  <2> QED BY <1>5, <2>1, <2>2, SeqEqual
<1>7. m_localMetrics'[b] = Append(m, r) /\ \A c \in Bots \ {b} : m_localMetrics'[c] = m_localMetrics[c]
  BY DEF SimTypeOK, m
<1>8. [i \in 1..Len(m_localMetrics'[b]) |-> m_localMetrics'[b][i].reply] = new
  BY <1>2, <1>7
<1> DEFINE F == [c \in Bots |->
                   [i \in 1..Len(m_localMetrics[c]) |-> m_localMetrics[c][i].reply]]
           G == [c \in Bots |->
                   [i \in 1..Len(m_localMetrics'[c]) |-> m_localMetrics'[c][i].reply]]
<1>9. F[b] = old /\ G[b] = Append(old, r.reply)
  BY <1>6, <1>8 DEF m
<1>10. \A c \in Bots \ {b} : G[c] = F[c]
  BY <1>7
<1>11. F = [c \in Bots |-> F[c]] /\ G = [c \in Bots |-> G[c]]
  OBVIOUS
<1>12. G = [F EXCEPT ![b] = Append(@, r.reply)]
  <2> HIDE DEF F, G, old, new
  <2> QED BY <1>9, <1>10, <1>11
<1> QED BY <1>12

\* A step about one bot is a step of Exchange, or none.
LEMMA ExchangeStep ==
  ASSUME SimInv, NEW b \in Bots, StepOf(b)
  PROVE  [E!Next]_E!exVars
<1> DEFINE A == [c \in Bots |-> Len(asked[c])]
           D == [c \in Bots |-> Len(handled[c])]
           R == [c \in Bots |->
                   [i \in 1..Len(m_localMetrics[c]) |-> m_localMetrics[c][i].reply]]
           N == Len(asked[b])
<1>a. SimTypeOK /\ BotInv(b) /\ PlaceInv(b) /\ RequestsInv(b)
  BY DEF SimInv, BotInv
<1>b. /\ N \in Nat /\ Len(handled[b]) \in Nat /\ asked[b] \in Seq(Action)
      /\ handled[b] \in Seq(BOOLEAN) /\ Len(m_localMetrics[b]) \in Nat
  BY <1>a, BotTypes
<1>c. A[b] = N /\ D[b] = Len(handled[b]) /\ Len(R[b]) = Len(m_localMetrics[b])
  BY <1>b
<1>d. E!Waiting(b) <=> Len(R[b]) < A[b]
  BY DEF E!Waiting
<1>e. E!Lost(b) <=> Oversized(b)
  BY <1>a, LostIs
<1>1. CASE connectSocket(b) \/ Act(b) \/ Leave(b)
  <2>1. PICK action \in Action : Begin(b, action)
    BY <1>1 DEF connectSocket, Act, Leave, Action
  <2>2. UNCHANGED <<handled, m_localMetrics>> /\ botAt[b] \in {"connect", "loop"}
    BY <1>1 DEF connectSocket, Act, Leave, serverVars
  <2>3. asked' = [asked EXCEPT ![b] = Append(@, action)]
    BY <2>1 DEF Begin
  <2>4. A' = [A EXCEPT ![b] = @ + 1]
    <3>1. Len(Append(asked[b], action)) = N + 1
      BY <1>b, <2>1, AppendProperties
    <3>2. asked'[b] = Append(asked[b], action) /\ \A c \in Bots \ {b} : asked'[c] = asked[c]
      BY <1>a, <2>3 DEF SimTypeOK
    <3> QED BY <3>1, <3>2
  <2>5. D' = D /\ R' = R
    BY <2>2
  <2>6. ~E!Waiting(b)
    BY <1>a, <1>b, <1>c, <1>d, <2>2 DEF PlaceInv
  <2> QED BY <2>4, <2>5, <2>6 DEF E!Next, E!Ask
<1>2. CASE dispatch(b)
  <2>1. UNCHANGED <<asked, m_localMetrics>>
    BY <1>2 DEF dispatch, botVars
  <2>2. PICK ok \in BOOLEAN : handled' = [handled EXCEPT ![b] = Append(@, ok)]
    <3> DEFINE action == asked[b][reading[b][1].of]
    <3>1. PICK reply \in Replies(b, action) :
            handled' = [handled EXCEPT ![b] = Append(@, reply.ok)]
      BY <1>2 DEF dispatch
    <3> QED BY <3>1, ReplyIs
  <2>3. D' = [D EXCEPT ![b] = @ + 1]
    <3>1. Len(Append(handled[b], ok)) = Len(handled[b]) + 1
      BY <1>b, AppendProperties
    <3>2. handled'[b] = Append(handled[b], ok) /\ \A c \in Bots \ {b} : handled'[c] = handled[c]
      BY <1>a, <2>2 DEF SimTypeOK
    <3> QED BY <3>1, <3>2
  <2>4. A' = A /\ R' = R
    BY <2>1
  <2>5. D[b] < A[b]
    BY <1>2, <1>a, <1>c, DispatchIs
  <2> QED BY <2>3, <2>4, <2>5 DEF E!Next, E!CarryOut
<1>3. CASE BotWriteFails(b) \/ BotReadFails(b) \/ BotRefuses(b) \/ BotParses(b)
  <2>1. PICK reply \in Int, latency \in {0, 1}, ok \in BOOLEAN :
          /\ Finish(b, reply, latency, ok)
          /\ botAt[b] = "read" \/ (botAt[b] = "write" /\ b \in cut)
          /\ \/ reply = FailedRequest
             \/ reply = OversizeReply
             \/ reply \in 1..Len(handled[b])
          /\ reply # FailedRequest /\ ~Oversized(b) => Len(handled[b]) = Len(asked[b])
          /\ reply \in 1..Len(handled[b]) /\ ~Oversized(b) => reply = Len(asked[b])
    BY <1>3, <1>a, FinishStep
  <2>2. UNCHANGED <<asked, handled>>
    BY <2>1 DEF Finish, serverVars
  <2>3. A' = A /\ D' = D
    BY <2>2
  <2>4. R' = [R EXCEPT ![b] = Append(@, reply)]
    <3> DEFINE r == [action |-> Last(asked[b]), reply |-> reply, lat |-> latency, ok |-> ok]
    <3>1. r.reply = reply /\ m_localMetrics' = [m_localMetrics EXCEPT ![b] = Append(@, r)]
      BY <2>1 DEF Finish
    <3> HIDE DEF r
    <3> QED BY <1>a, <3>1, ResultAppended
  <2>5. E!Waiting(b)
    BY <1>a, <1>b, <1>c, <1>d, <2>1 DEF PlaceInv
  <2>6. E!Ends(b, reply)
    BY <2>3, <2>4, <2>5 DEF E!Ends
  <2>7. CASE reply = FailedRequest
    BY <2>6, <2>7 DEF E!Next, E!Fail
  <2>8. CASE reply = OversizeReply /\ ~Oversized(b)
    <3>1. D[b] = A[b]
      BY <1>c, <2>1, <2>8 DEF FailedRequest, OversizeReply
    <3> QED BY <2>6, <2>8, <3>1 DEF E!Next, E!Overflow
  <2>9. CASE reply \in 1..Len(handled[b]) /\ ~Oversized(b)
    <3>1. reply # FailedRequest
      BY <2>9 DEF FailedRequest
    <3>2. D[b] = A[b] /\ reply = A[b]
      BY <1>c, <2>1, <2>9, <3>1
    <3>3. R' = [R EXCEPT ![b] = Append(@, A[b])]
      BY <2>4, <3>2
    <3>4. E!Answer(b)
      BY <1>e, <2>3, <2>5, <2>9, <3>2, <3>3 DEF E!Answer, E!Ends
    <3> QED BY <3>4 DEF E!Next
  <2>10. CASE reply \in 1..Len(handled[b]) \cup {OversizeReply} /\ Oversized(b)
    BY <1>c, <1>e, <2>6, <2>10 DEF E!Next, E!Stray
  <2> QED BY <2>1, <2>7, <2>8, <2>9, <2>10
<1>4. CASE Flush(b) \/ BotWrites(b) \/ BotReads(b) \/ ConnectFails(b) \/ Serve(b)
             \/ ServerReads(b) \/ ServerWrites(b) \/ ServerCloses(b) \/ Break(b)
  <2>1. UNCHANGED <<asked, handled, m_localMetrics>>
    BY <1>4 DEF Flush, BotWrites, BotReads, ConnectFails, Serve, ServerReads, ServerWrites,
                ServerCloses, Break, botVars, serverVars
  <2> QED BY <2>1 DEF E!exVars
<1> QED BY <1>1, <1>2, <1>3, <1>4 DEF StepOf

\* The byte streams, the frames cut anywhere and the broken connections between
\* sendAndReceive and handleClient amount to Exchange: requests carried out in
\* order and at most once, each reply taken for the request it answers.
THEOREM ExchangeCorrect == SimSpec => ImplementsExchange
<1>1. SimInit => E!Init
  <2> SUFFICES ASSUME SimInit PROVE E!Init
    OBVIOUS
  <2> DEFINE R == [c \in Bots |->
                     [i \in 1..Len(m_localMetrics[c]) |-> m_localMetrics[c][i].reply]]
  <2>1. \A c \in Bots : asked[c] = <<>> /\ handled[c] = <<>> /\ m_localMetrics[c] = <<>>
    BY DEF SimInit, Empty
  <2>2. \A c \in Bots : Len(asked[c]) = 0 /\ Len(handled[c]) = 0 /\ Len(m_localMetrics[c]) = 0
    BY <2>1
  <2>3. \A c \in Bots : R[c] = <<>>
    BY <2>2
  <2> QED BY <2>2, <2>3 DEF E!Init
<1>2. SimInv /\ [SimNext]_simVars => [E!Next]_E!exVars
  <2> SUFFICES ASSUME SimInv, [SimNext]_simVars PROVE [E!Next]_E!exVars
    OBVIOUS
  <2>1. CASE signalHandler \/ RunReturns \/ UNCHANGED simVars
    <3>1. UNCHANGED <<asked, handled, m_localMetrics>>
      BY <2>1 DEF signalHandler, RunReturns, simVars, botVars, serverVars
    <3> QED BY <3>1 DEF E!exVars
  <2> QED BY <2>1, ExchangeStep, StepCases
<1> QED BY <1>1, <1>2, SimSpec_Inv, PTL DEF SimSpec, ImplementsExchange, E!Spec

-----------------------------------------------------------------------------
(* No reply is recorded twice *)

\* t is a stretch of s.
Piece(t, s) == \E k \in Nat : \A i \in 1..Len(t) : i + k \in 1..Len(s) /\ t[i] = s[i + k]

\* Replies arrive in the order of their requests, and text follows the header.
InOrder(s) == \A i, j \in 1..Len(s) : i <= j => s[i].of <= s[j].of
TextAfter(s) ==
  \A i \in 1..Len(s) : i > HEADER_SIZE /\ s[i - HEADER_SIZE].of = s[i].of => s[i].v = TEXT

FramedInv(b) ==
  LET s == Outbound(b)
  IN  /\ InOrder(s) /\ TextAfter(s)
      /\ servedAt[b] = "write" => \A i \in 1..Len(s) : s[i].of < Len(handled[b])

\* What is left of a reply that has been recorded is text.
RecordInv(b, n) ==
  LET r == m_localMetrics[b][n].reply
      s == Outbound(b)
  IN  /\ m_localMetrics[b][n].ok => r > 0
      /\ r > 0 => /\ r \in 1..Len(handled[b]) /\ m_localMetrics[b][n].lat = 1
                  /\ m_localMetrics[b][n].ok = handled[b][r]
                  /\ servedAt[b] = "write" => r < Len(handled[b])
                  /\ \A i \in 1..Len(s) : s[i].of = r => s[i].v = TEXT

\* No reply is recorded twice.
OnceInv(b) ==
  LET m == m_localMetrics[b]
  IN  /\ FramedInv(b) /\ \A n \in 1..Len(m) : RecordInv(b, n)
      /\ \A n, k \in 1..Len(m) : m[n].reply > 0 /\ m[n].reply = m[k].reply => n = k

LEMMA PieceOf ==
  ASSUME NEW g \in Seq(Byte), NEW t \in Seq(Byte)
  PROVE  /\ Piece(g \o t, g \o t) /\ Piece(t, g \o t) /\ Piece(<<>>, g \o t)
         /\ \A p \in Seq(Byte) :
              Len(p) <= Len(t) /\ (\A i \in 1..Len(p) : p[i] = t[i]) => Piece(g \o p, g \o t)
<1>1. Len(g) \in Nat /\ Len(t) \in Nat /\ Len(g \o t) \in Nat
  BY ConcatIs
<1>2. /\ Len(g \o t) = Len(g) + Len(t)
      /\ \A i \in 1..Len(t) : (g \o t)[Len(g) + i] = t[i]
  BY ConcatIs
<1>3. Piece(g \o t, g \o t)
  <2> DEFINE s == g \o t
  <2>1. Len(s) \in Nat
    BY <1>1
  <2> HIDE DEF s
  <2>2. \A i \in 1..Len(s) : i + 0 \in 1..Len(s) /\ s[i] = s[i + 0]
    BY <2>1
  <2>3. Piece(s, s)
    BY <2>2 DEF Piece
  <2> QED BY <2>3 DEF s
<1>4. Piece(t, g \o t)
  <2>1. \A i \in 1..Len(t) : i + Len(g) \in 1..Len(g \o t) /\ t[i] = (g \o t)[i + Len(g)]
    <3> TAKE i \in 1..Len(t)
    <3>1. i + Len(g) = Len(g) + i /\ i + Len(g) \in 1..Len(g \o t)
      BY <1>1, <1>2
    <3> QED BY <1>2, <3>1
  <2> QED BY <1>1, <2>1 DEF Piece
<1>5. Piece(<<>>, g \o t)
  <2>1. 1..Len(<<>>) = {} /\ 0 \in Nat
    OBVIOUS
  <2> QED BY <2>1, Zenon DEF Piece
<1>6. ASSUME NEW p \in Seq(Byte), Len(p) <= Len(t), \A i \in 1..Len(p) : p[i] = t[i]
      PROVE  Piece(g \o p, g \o t)
  <2> DEFINE x == g \o p
             y == g \o t
  <2>1. /\ Len(x) \in Nat /\ Len(y) \in Nat /\ Len(x) <= Len(y)
        /\ \A i \in 1..Len(x) : x[i] = y[i]
    BY <1>6, JoinPrefix
  <2> HIDE DEF x, y
  <2>2. \A i \in 1..Len(x) : i + 0 \in 1..Len(y) /\ x[i] = y[i + 0]
    BY <2>1
  <2>3. Piece(x, y)
    BY <2>2 DEF Piece
  <2> QED BY <2>3 DEF x, y
<1> QED BY <1>3, <1>4, <1>5, <1>6

LEMMA FramedKept ==
  ASSUME NEW s \in Seq(Byte), NEW t \in Seq(Byte), Piece(t, s),
         InOrder(s), TextAfter(s)
  PROVE  InOrder(t) /\ TextAfter(t)
<1>1. Len(s) \in Nat /\ Len(t) \in Nat
  OBVIOUS
<1>2. PICK k \in Nat : \A i \in 1..Len(t) : i + k \in 1..Len(s) /\ t[i] = s[i + k]
  BY DEF Piece
<1>3. ASSUME NEW i \in 1..Len(t), NEW j \in 1..Len(t), i <= j
      PROVE  t[i].of <= t[j].of
  <2>1. i + k \in 1..Len(s) /\ j + k \in 1..Len(s) /\ i + k <= j + k
    BY <1>2, <1>3
  <2>2. s[i + k].of <= s[j + k].of
    BY <2>1 DEF InOrder
  <2> QED BY <1>2, <2>2
<1>4. ASSUME NEW i \in 1..Len(t), i > HEADER_SIZE, t[i - HEADER_SIZE].of = t[i].of
      PROVE  t[i].v = TEXT
  <2>1. i - HEADER_SIZE \in 1..Len(t)
    BY <1>1, <1>4, ByteAssumption
  <2>a. i \in Int /\ k \in Nat /\ HEADER_SIZE \in Nat /\ i > HEADER_SIZE
    BY <1>4, ByteAssumption
  <2>b. i + k > HEADER_SIZE /\ (i - HEADER_SIZE) + k = (i + k) - HEADER_SIZE
    BY <2>a
  <2>2. /\ i + k \in 1..Len(s) /\ t[i] = s[i + k] /\ i + k > HEADER_SIZE
        /\ (i - HEADER_SIZE) + k = (i + k) - HEADER_SIZE
    BY <1>2, <2>b
  <2>3. t[i - HEADER_SIZE] = s[(i + k) - HEADER_SIZE]
    BY <1>2, <2>1, <2>2
  <2> QED BY <1>4, <2>2, <2>3 DEF TextAfter
<1> QED BY <1>3, <1>4 DEF InOrder, TextAfter

\* What holds of the replies on their way holds of a stretch of them.
LEMMA OnceKept ==
  ASSUME SimTypeOK, SimTypeOK', NEW b \in Bots, OnceInv(b),
         Piece(Outbound(b)', Outbound(b)),
         handled'[b] = handled[b], m_localMetrics'[b] = m_localMetrics[b],
         servedAt'[b] = "write" => servedAt[b] = "write"
  PROVE  OnceInv(b)'
<1> DEFINE s == Outbound(b)
           t == Outbound(b)'
<1>1. s \in Seq(Byte) /\ t \in Seq(Byte)
  <2>1. s \in Seq(Byte)
    BY BotTypes
  <2>2. t \in Seq(Byte)
    <3>1. got'[b] \in Seq(Byte) /\ toBot'[b] \in Seq(Byte)
      BY DEF SimTypeOK
    <3> QED BY <3>1 DEF Outbound
  <2> QED BY <2>1, <2>2
<1>2. \A i \in 1..Len(t) : \E j \in 1..Len(s) : t[i] = s[j]
  BY DEF Piece
<1>3. FramedInv(b)'
  <2>1. InOrder(s) /\ TextAfter(s)
    BY DEF OnceInv, FramedInv
  <2>2. Piece(t, s)
    OBVIOUS
  <2>3. InOrder(t) /\ TextAfter(t)
    <3> HIDE DEF s, t
    <3> QED BY <1>1, <2>1, <2>2, FramedKept
  <2>4. servedAt'[b] = "write" => \A i \in 1..Len(t) : t[i].of < Len(handled'[b])
    <3>1. servedAt[b] = "write" => \A i \in 1..Len(s) : s[i].of < Len(handled[b])
      BY DEF OnceInv, FramedInv
    <3> HIDE DEF s, t
    <3> QED BY <1>2, <3>1
  <2> QED BY <2>3, <2>4 DEF FramedInv
<1>4. ASSUME NEW n \in 1..Len(m_localMetrics[b]) PROVE RecordInv(b, n)'
  <2> DEFINE r == m_localMetrics[b][n].reply
  <2>1. /\ m_localMetrics[b][n].ok => r > 0
        /\ r > 0 => /\ r \in 1..Len(handled[b]) /\ m_localMetrics[b][n].lat = 1
                    /\ m_localMetrics[b][n].ok = handled[b][r]
                    /\ servedAt[b] = "write" => r < Len(handled[b])
                    /\ \A i \in 1..Len(s) : s[i].of = r => s[i].v = TEXT
    BY DEF OnceInv, RecordInv
  <2>2. r > 0 => \A i \in 1..Len(t) : t[i].of = r => t[i].v = TEXT
    <3> HIDE DEF s, t
    <3> QED BY <1>2, <2>1
  <2>3. m_localMetrics'[b][n] = m_localMetrics[b][n] /\ m_localMetrics'[b][n].reply = r
    OBVIOUS
  <2> QED BY <2>1, <2>2, <2>3 DEF RecordInv
<1>5. \A n, k \in 1..Len(m_localMetrics'[b]) :
        m_localMetrics'[b][n].reply > 0 /\ m_localMetrics'[b][n].reply = m_localMetrics'[b][k].reply
          => n = k
  BY DEF OnceInv
<1> QED BY <1>3, <1>4, <1>5 DEF OnceInv

\* A request ends: what the record must say for no reply to be counted twice.
LEMMA OnceFinish ==
  ASSUME SimTypeOK, NEW b \in Bots, OnceInv(b),
         NEW reply \in Int, NEW latency \in {0, 1}, NEW ok \in BOOLEAN,
         Finish(b, reply, latency, ok),
         ok => reply > 0,
         reply > 0 =>
           /\ reply \in 1..Len(handled[b]) /\ latency = 1 /\ ok = handled[b][reply]
           /\ servedAt[b] = "write" => reply < Len(handled[b])
           /\ \A i \in 1..Len(toBot[b]) : toBot[b][i].of = reply => toBot[b][i].v = TEXT
           /\ \A n \in 1..Len(m_localMetrics[b]) : m_localMetrics[b][n].reply # reply
  PROVE  OnceInv(b)'
<1> DEFINE m == m_localMetrics[b]
           r == [action |-> Last(asked[b]), reply |-> reply, lat |-> latency, ok |-> ok]
           s == Outbound(b)
           t == toBot[b]
<1> USE DEF serverVars, streamVars, mainVars
<1>1. /\ UNCHANGED <<servedAt, handled, toBot>>
      /\ m_localMetrics'[b] = Append(m, r) /\ got'[b] = <<>>
  BY StreamTypes DEF Finish, SimTypeOK
<1>2. /\ m \in Seq(Record) /\ Len(m) \in Nat /\ got[b] \in Seq(Byte) /\ t \in Seq(Byte)
      /\ s \in Seq(Byte) /\ s = got[b] \o t
  BY BotTypes DEF Outbound
<1>3. Outbound(b)' = t
  <2>1. <<>> \o t = t
    BY <1>2
  <2> QED BY <1>1, <2>1 DEF Outbound
<1>4. Piece(t, s)
  BY <1>2, PieceOf
<1>5. /\ Len(Append(m, r)) = Len(m) + 1 /\ Append(m, r)[Len(m) + 1] = r
      /\ \A n \in 1..Len(m) : Append(m, r)[n] = m[n]
  BY <1>2
<1>6. \A i \in 1..Len(t) : \E j \in 1..Len(s) : t[i] = s[j]
  BY <1>4 DEF Piece
<1>7. FramedInv(b)'
  <2>1. /\ InOrder(s) /\ TextAfter(s)
        /\ servedAt[b] = "write" => \A i \in 1..Len(s) : s[i].of < Len(handled[b])
    BY DEF OnceInv, FramedInv
  <2> HIDE DEF s, t
  <2>2. InOrder(t) /\ TextAfter(t)
    BY <1>2, <1>4, <2>1, FramedKept
  <2>3. servedAt[b] = "write" => \A i \in 1..Len(t) : t[i].of < Len(handled[b])
    BY <1>6, <2>1
  <2> QED BY <1>1, <1>3, <2>2, <2>3 DEF FramedInv
<1>8. ASSUME NEW n \in 1..Len(m) + 1 PROVE RecordInv(b, n)'
  <2>1. CASE n \in 1..Len(m)
    <3> DEFINE q == m[n].reply
    <3>1. /\ m[n].ok => q > 0
          /\ q > 0 => /\ q \in 1..Len(handled[b]) /\ m[n].lat = 1
                      /\ m[n].ok = handled[b][q]
                      /\ servedAt[b] = "write" => q < Len(handled[b])
                      /\ \A i \in 1..Len(s) : s[i].of = q => s[i].v = TEXT
      BY <2>1 DEF OnceInv, RecordInv
    <3>2. m_localMetrics'[b][n] = m[n]
      BY <1>1, <1>5, <2>1
    <3>3. q > 0 => \A i \in 1..Len(t) : t[i].of = q => t[i].v = TEXT
      <4> HIDE DEF s, t, q
      <4> QED BY <1>6, <3>1
    <3> HIDE DEF m, s, t
    <3> QED BY <1>1, <1>3, <3>1, <3>2, <3>3 DEF RecordInv
  <2>2. CASE n = Len(m) + 1
    <3>1. m_localMetrics'[b][n] = r
      BY <1>1, <1>5, <2>2
    <3>2. /\ m_localMetrics'[b][n].reply = reply /\ m_localMetrics'[b][n].ok = ok
          /\ m_localMetrics'[b][n].lat = latency
      BY <3>1
    <3>3. /\ ok => reply > 0
          /\ reply > 0 => /\ reply \in 1..Len(handled'[b]) /\ latency = 1
                          /\ ok = handled'[b][reply]
                          /\ servedAt'[b] = "write" => reply < Len(handled'[b])
                          /\ \A i \in 1..Len(t) : t[i].of = reply => t[i].v = TEXT
      BY <1>1
    <3> HIDE DEF m, s, t, r
    <3> QED BY <1>3, <3>2, <3>3 DEF RecordInv
  <2>3. n \in 1..Len(m) \/ n = Len(m) + 1
    BY <1>2
  <2> QED BY <2>1, <2>2, <2>3
<1>9. ASSUME NEW n \in 1..Len(m) + 1, NEW k \in 1..Len(m) + 1,
             Append(m, r)[n].reply > 0, Append(m, r)[n].reply = Append(m, r)[k].reply
      PROVE  n = k
  <2>1. \A x, y \in 1..Len(m) : m[x].reply > 0 /\ m[x].reply = m[y].reply => x = y
    BY DEF OnceInv
  <2>2. r.reply = reply
    OBVIOUS
  <2> HIDE DEF m, r
  <2>3. CASE n \in 1..Len(m) /\ k \in 1..Len(m)
    BY <1>5, <1>9, <2>1, <2>3
  <2>4. CASE n = Len(m) + 1 /\ k \in 1..Len(m)
    BY <1>5, <1>9, <2>2, <2>4 DEF m
  <2>5. CASE k = Len(m) + 1 /\ n \in 1..Len(m)
    BY <1>5, <1>9, <2>2, <2>5 DEF m
  <2>6. n \in 1..Len(m) \/ n = Len(m) + 1
    BY <1>2
  <2>7. k \in 1..Len(m) \/ k = Len(m) + 1
    BY <1>2
  <2> QED BY <2>3, <2>4, <2>5, <2>6, <2>7
<1> QED BY <1>1, <1>5, <1>7, <1>8, <1>9 DEF OnceInv

\* A whole reply has not been recorded before, and what is left of it is text: a
\* header that is all text would be too large.
LEMMA ParsedOnce ==
  ASSUME SimTypeOK, NEW b \in Bots, OnceInv(b), Complete(Values(got[b])),
         NEW r \in Nat, \A i \in 1..Len(got[b]) : got[b][i].of = r
  PROVE  /\ \A n \in 1..Len(m_localMetrics[b]) : r > 0 => m_localMetrics[b][n].reply # r
         /\ \A i \in 1..Len(toBot[b]) : toBot[b][i].of = r => toBot[b][i].v = TEXT
         /\ servedAt[b] = "write" => r < Len(handled[b])
<1> DEFINE g == got[b]
           t == toBot[b]
           s == Outbound(b)
           H == HEADER_SIZE
<1>1. g \in Seq(Byte) /\ t \in Seq(Byte) /\ s \in Seq(Byte) /\ s = g \o t
  BY BotTypes DEF Outbound
<1>2. /\ Len(g) \in Nat /\ Len(t) \in Nat /\ Len(s) = Len(g) + Len(t)
      /\ \A i \in 1..Len(g) : s[i] = g[i]
      /\ \A i \in 1..Len(t) : s[Len(g) + i] = t[i]
  <2> HIDE DEF g, t, s
  <2> QED BY <1>1, ConcatIs
<1>3. H \in Nat \ {0} /\ Len(g) >= H /\ Complete(Values(g))
  BY <1>1, ValuesIs, ByteAssumption DEF Complete
<1>4. \A i \in 1..Len(g) : g[i].of = r
  OBVIOUS
<1>5. FramedInv(b) /\ \A n \in 1..Len(m_localMetrics[b]) : RecordInv(b, n)
  BY DEF OnceInv
<1>6. /\ InOrder(s) /\ TextAfter(s)
      /\ servedAt[b] = "write" => \A i \in 1..Len(s) : s[i].of < Len(handled[b])
  BY <1>5 DEF FramedInv
<1> HIDE DEF g, t, s, H
<1>7. 1 \in 1..Len(s) /\ s[1].of = r
  BY <1>2, <1>3, <1>4
<1>8. ASSUME NEW n \in 1..Len(m_localMetrics[b]), r > 0, m_localMetrics[b][n].reply = r
      PROVE  FALSE
  <2>1. \A i \in 1..Len(s) : s[i].of = r => s[i].v = TEXT
    BY <1>5, <1>8 DEF RecordInv, s
  <2>2. \A i \in 1..H : g[i].v = TEXT
    <3> TAKE i \in 1..H
    <3>1. i \in 1..Len(g) /\ i \in 1..Len(s)
      BY <1>2, <1>3
    <3>2. s[i] = g[i] /\ g[i].of = r
      BY <1>2, <1>4, <3>1
    <3> QED BY <2>1, <3>1, <3>2
  <2>3. /\ HasHeader(Values(g)) /\ Header(Values(g))
        /\ \A i \in 1..H : Values(g)[i] = TEXT
    <3>1. \A i \in 1..H : i \in 1..Len(g)
      BY <1>2, <1>3
    <3> QED BY <1>1, <1>3, <2>2, <3>1, ValuesIs DEF H
  <2> DEFINE p == [i \in 1..HEADER_SIZE |-> TEXT]
  <2>4. \A i \in 1..HEADER_SIZE : p[i] = Values(g)[i]
    BY <2>3 DEF H
  <2>5. readU32LE(p) = readU32LE(Values(g))
    <3> HIDE DEF p
    <3> QED BY <2>3, <2>4, ReadIs
  <2>6. TooLarge(Values(g))
    BY <2>3, <2>5, TextAssumption DEF TooLarge
  <2> QED BY <1>3, <2>6 DEF Complete
<1>9. ASSUME NEW i \in 1..Len(t), t[i].of = r
      PROVE  t[i].v = TEXT
  <2> DEFINE j == Len(g) + i
  <2>1. /\ j \in 1..Len(s) /\ j - H \in 1..Len(s) /\ j > H /\ 1 <= j - H /\ j - H <= j
        /\ s[j] = t[i]
    BY <1>2, <1>3
  <2>2. s[1].of <= s[j - H].of /\ s[j - H].of <= s[j].of
    <3> HIDE DEF j
    <3> QED BY <1>6, <1>7, <2>1 DEF InOrder
  <2>3. s[j - H].of \in Nat
    <3>1. \A k \in 1..Len(s) : s[k] \in Byte
      BY <1>1
    <3> QED BY <2>1, <3>1 DEF Byte
  <2>4. s[j - H].of = s[j].of
    BY <1>7, <1>9, <2>1, <2>2, <2>3
  <2> HIDE DEF j
  <2> QED BY <1>6, <2>1, <2>4 DEF TextAfter, H
<1> QED BY <1>6, <1>7, <1>8, <1>9 DEF s, t

LEMMA OnceEnds ==
  ASSUME SimTypeOK, NEW b \in Bots, BotInv(b), OnceInv(b),
         BotWriteFails(b) \/ BotReadFails(b) \/ BotRefuses(b) \/ BotParses(b)
  PROVE  OnceInv(b)'
<1>1. CASE BotWriteFails(b) \/ BotReadFails(b)
  <2>1. Finish(b, FailedRequest, 0, FALSE)
    BY <1>1 DEF BotWriteFails, BotReadFails
  <2>2. FailedRequest \in Int /\ ~(FailedRequest > 0)
    BY DEF FailedRequest
  <2> QED BY <2>1, <2>2, OnceFinish
<1>2. CASE BotRefuses(b)
  <2>1. Finish(b, OversizeReply, 0, FALSE)
    BY <1>2 DEF BotRefuses
  <2>2. OversizeReply \in Int /\ ~(OversizeReply > 0)
    BY DEF OversizeReply
  <2> QED BY <2>1, <2>2, OnceFinish
<1>3. CASE BotParses(b)
  <2> DEFINE r == Last(got[b]).of
  <2>1. RepliesInv(b) /\ Complete(Values(got[b]))
    BY <1>3 DEF BotParses, BotInv
  <2>2. r \in 1..Len(handled[b]) /\ handled[b][r] \in BOOLEAN
    BY <2>1, ParsedIs
  <2>3. Len(handled[b]) \in Nat /\ r \in Nat /\ r \in Int /\ r > 0
    BY <2>2, BotTypes
  <2>4. CASE \A i \in 1..Len(got[b]) : got[b][i].of = r
    <3>1. Finish(b, r, 1, handled[b][r])
      BY <1>3, <2>4 DEF BotParses
    <3> HIDE DEF r
    <3>2. /\ servedAt[b] = "write" => r < Len(handled[b])
          /\ \A i \in 1..Len(toBot[b]) : toBot[b][i].of = r => toBot[b][i].v = TEXT
          /\ \A n \in 1..Len(m_localMetrics[b]) : m_localMetrics[b][n].reply # r
      BY <2>1, <2>3, <2>4, ParsedOnce
    <3> QED BY <2>2, <2>3, <3>1, <3>2, OnceFinish
  <2>5. CASE ~\A i \in 1..Len(got[b]) : got[b][i].of = r
    <3>1. Finish(b, FailedRequest, 1, FALSE)
      BY <1>3, <2>5 DEF BotParses
    <3>2. FailedRequest \in Int /\ ~(FailedRequest > 0)
      BY DEF FailedRequest
    <3> QED BY <3>1, <3>2, OnceFinish
  <2> QED BY <2>4, <2>5
<1> QED BY <1>1, <1>2, <1>3

\* What b still has to read is kept, or cut off somewhere.
LEMMA OnceMoves ==
  ASSUME SimTypeOK, SimTypeOK', NEW b \in Bots, BotInv(b), OnceInv(b),
         \/ connectSocket(b) \/ Act(b) \/ Leave(b) \/ Flush(b) \/ BotWrites(b) \/ BotReads(b)
         \/ ConnectFails(b) \/ Serve(b) \/ ServerReads(b) \/ ServerCloses(b) \/ Break(b)
  PROVE  OnceInv(b)'
<1> DEFINE g == got[b]
           t == toBot[b]
<1>1. g \in Seq(Byte) /\ t \in Seq(Byte) /\ Outbound(b) = g \o t
  BY BotTypes DEF Outbound
<1>2. Piece(g \o t, g \o t) /\ Piece(t, g \o t) /\ Piece(<<>>, g \o t)
  BY <1>1, PieceOf
<1>3. /\ handled'[b] = handled[b] /\ m_localMetrics'[b] = m_localMetrics[b]
      /\ servedAt'[b] = "write" => servedAt[b] = "write"
  <2> USE DEF botVars, serverVars, streamVars, mainVars
  <2> DEFINE Places == {"none", "queued", "read", "write", "closed"}
  <2>a. servedAt \in [Bots -> Places]
    BY DEF SimTypeOK
  <2>1. CASE connectSocket(b) \/ Act(b) \/ Leave(b)
    <3>1. handled' = handled /\ m_localMetrics' = m_localMetrics
      BY <2>1 DEF connectSocket, Act, Leave
    <3>2. servedAt' = servedAt \/ servedAt' = [servedAt EXCEPT ![b] = "queued"]
      BY <2>1 DEF connectSocket, Act, Leave
    <3> QED BY <2>a, <3>1, <3>2
  <2>2. CASE Flush(b) \/ BotWrites(b) \/ BotReads(b) \/ ConnectFails(b)
    BY <2>2 DEF Flush, BotWrites, BotReads, ConnectFails
  <2>3. CASE Serve(b) \/ ServerReads(b) \/ ServerCloses(b) \/ Break(b)
    <3>1. handled' = handled /\ m_localMetrics' = m_localMetrics
      BY <2>3 DEF Serve, ServerReads, ServerCloses, Break
    <3>2. \/ servedAt' = servedAt \/ servedAt' = [servedAt EXCEPT ![b] = "read"]
          \/ servedAt' = [servedAt EXCEPT ![b] = "closed"]
      BY <2>3 DEF Serve, ServerReads, ServerCloses, Break
    <3> QED BY <2>a, <3>1, <3>2
  <2> QED BY <2>1, <2>2, <2>3
<1>4. Piece(Outbound(b)', Outbound(b))
  <2>1. CASE connectSocket(b) \/ Act(b) \/ Leave(b)
    <3>1. got'[b] = <<>> /\ toBot' = toBot
      BY <2>1, StreamTypes DEF connectSocket, Act, Leave, Begin, streamVars
    <3>2. <<>> \o t = t
      BY <1>1
    <3>3. Outbound(b)' = t
      BY <3>1, <3>2 DEF Outbound
    <3> QED BY <1>1, <1>2, <3>3
  <2>2. CASE Flush(b)
    <3>1. got' = got /\ toBot'[b] = <<>>
      BY <2>2, StreamTypes DEF Flush
    <3>2. Outbound(b)' = g \o <<>>
      BY <3>1 DEF Outbound
    <3>3. Piece(g \o <<>>, g \o t)
      <4>1. <<>> \in Seq(Byte) /\ Len(<<>>) = 0 /\ 1..0 = {} /\ Len(t) >= 0
        BY <1>1
      <4>2. Len(<<>>) <= Len(t) /\ \A i \in 1..Len(<<>>) : <<>>[i] = t[i]
        BY <4>1
      <4> HIDE DEF g, t
      <4> QED BY <1>1, <4>1, <4>2, PieceOf
    <3> QED BY <1>1, <3>2, <3>3
  <2>3. CASE BotReads(b)
    <3>1. PICK n \in Pieces(g, t) : /\ got' = [got EXCEPT ![b] = @ \o First(toBot[b], n)]
                                    /\ toBot' = [toBot EXCEPT ![b] = Rest(@, n)]
      BY <2>3 DEF BotReads
    <3>2. got'[b] = g \o First(t, n) /\ toBot'[b] = Rest(t, n)
      BY <3>1, StreamTypes
    <3>3. ~TooLarge(Values(g)) /\ ~Complete(Values(g)) /\ Within(Values(g))
      BY <2>3 DEF BotReads, BotInv
    <3> HIDE DEF g, t
    <3>4. n \in 1..Len(t)
      BY <1>1, <3>1, <3>3, PieceIs
    <3>5. (g \o First(t, n)) \o Rest(t, n) = g \o t
      BY <1>1, <3>4, MoveIs
    <3>6. Outbound(b)' = g \o t
      BY <3>2, <3>5 DEF Outbound
    <3> QED BY <1>1, <1>2, <3>6
  <2>4. CASE Break(b)
    <3>1. PICK q \in Prefixes(t) : got' = got /\ toBot' = [toBot EXCEPT ![b] = q]
      BY <2>4 DEF Break, botVars
    <3>2. Outbound(b)' = g \o q
      BY <3>1, StreamTypes DEF Outbound
    <3>3. q \in Seq(Byte) /\ Len(q) <= Len(t) /\ \A i \in 1..Len(q) : q[i] = t[i]
      BY <1>1, <3>1, PrefixIs
    <3> HIDE DEF g, t
    <3>4. Piece(g \o q, g \o t)
      BY <1>1, <3>3, PieceOf
    <3> QED BY <1>1, <3>2, <3>4
  <2>5. CASE BotWrites(b) \/ ConnectFails(b) \/ Serve(b) \/ ServerReads(b) \/ ServerCloses(b)
    <3>1. got' = got /\ toBot' = toBot
      BY <2>5 DEF BotWrites, ConnectFails, Serve, ServerReads, ServerCloses, botVars, streamVars
    <3>2. Outbound(b)' = Outbound(b)
      BY <3>1 DEF Outbound
    <3> QED BY <1>1, <1>2, <3>2
  <2> QED BY <2>1, <2>2, <2>3, <2>4, <2>5
<1> QED BY <1>3, <1>4, OnceKept

LEMMA OnceDispatch ==
  ASSUME SimTypeOK, NEW b \in Bots, BotInv(b), OnceInv(b), dispatch(b)
  PROVE  OnceInv(b)'
<1> DEFINE h == Len(handled[b])
           m == m_localMetrics[b]
           s == Outbound(b)
<1>1. RepliesInv(b)
  BY DEF BotInv
<1>2. UNCHANGED <<got, toBot, m_localMetrics>> /\ servedAt[b] = "read"
  BY DEF dispatch, botVars, streamVars
<1>3. PICK ok \in BOOLEAN : handled' = [handled EXCEPT ![b] = Append(@, ok)]
  <2>1. PICK reply \in Replies(b, asked[b][reading[b][1].of]) :
          handled' = [handled EXCEPT ![b] = Append(@, reply.ok)]
    BY DEF dispatch
  <2>2. reply.ok \in BOOLEAN
    BY <2>1, ReplyIs
  <2> QED BY <2>1, <2>2
<1>4. /\ h \in Nat /\ Len(handled'[b]) = h + 1
      /\ \A r \in 1..h : r \in 1..Len(handled'[b]) /\ r < Len(handled'[b])
                         /\ handled'[b][r] = handled[b][r]
  <2>1. handled[b] \in Seq(BOOLEAN) /\ handled'[b] = Append(handled[b], ok)
    BY <1>3, BotTypes DEF SimTypeOK
  <2> QED BY <2>1
<1>5. Outbound(b)' = s
  BY <1>2 DEF Outbound
<1>6. \A i \in 1..Len(s) : s[i].of \in 1..h
  BY <1>1 DEF RepliesInv
<1> HIDE DEF h, s
<1>7. FramedInv(b)'
  <2>1. /\ InOrder(s) /\ TextAfter(s)
    BY DEF OnceInv, FramedInv, s
  <2>2. \A i \in 1..Len(s) : s[i].of < Len(handled'[b])
    BY <1>4, <1>6
  <2> QED BY <1>5, <2>1, <2>2 DEF FramedInv
<1>8. ASSUME NEW n \in 1..Len(m) PROVE RecordInv(b, n)'
  <2> DEFINE q == m[n].reply
  <2>1. /\ m[n].ok => q > 0
        /\ q > 0 => /\ q \in 1..h /\ m[n].lat = 1 /\ m[n].ok = handled[b][q]
                    /\ \A i \in 1..Len(s) : s[i].of = q => s[i].v = TEXT
    BY DEF OnceInv, RecordInv, s, h
  <2>2. q > 0 => /\ q \in 1..Len(handled'[b]) /\ q < Len(handled'[b])
                 /\ m[n].ok = handled'[b][q]
    <3> HIDE DEF m, q
    <3> QED BY <1>4, <2>1
  <2>3. m_localMetrics'[b][n] = m[n]
    BY <1>2
  <2> HIDE DEF m
  <2> QED BY <1>5, <2>1, <2>2, <2>3 DEF RecordInv
<1>9. \A n, k \in 1..Len(m) : m[n].reply > 0 /\ m[n].reply = m[k].reply => n = k
  BY DEF OnceInv
<1> QED BY <1>2, <1>7, <1>8, <1>9 DEF OnceInv

\* The next reply follows those that were written before it.
LEMMA FramedAppended ==
  ASSUME NEW s \in Seq(Byte), NEW h \in Nat, NEW size \in {1, LargeReply},
         InOrder(s), TextAfter(s),
         \A i \in 1..Len(s) : s[i].of < h
  PROVE  LET t == s \o Frame(h, size)
         IN  /\ InOrder(t) /\ TextAfter(t)
             /\ \A i \in 1..Len(t) : (i \in 1..Len(s) /\ t[i] = s[i]) \/ t[i].of = h
<1> DEFINE t == s \o Frame(h, size)
           w == Frame(h, size)
           H == HEADER_SIZE
<1>1. size \in U32 /\ size \in Nat
  BY OneFits, SimulatorAssumption
<1>2. /\ w \in Seq(Byte) /\ Len(w) = H + size
      /\ \A i \in 1..Len(w) : w[i].of = h
      /\ \A i \in 1..Len(w) : i > H => w[i].v = TEXT
  <2>1. w \in Seq(Byte) /\ Len(w) = H + size /\ \A i \in 1..H + size : w[i].of = h
    BY <1>1, FrameIs
  <2>2. ASSUME NEW i \in 1..H + size, i > H PROVE w[i].v = TEXT
    <3> DEFINE p == [k \in 1..size |-> TEXT]
    <3>1. p \in Seq(0..BYTE - 1) /\ Len(p) = size
      BY <1>1, SimulatorAssumption
    <3>2. i - H \in 1..size /\ H + (i - H) = i
      BY <1>1, <2>2, ByteAssumption
    <3>3. encode(p)[H + (i - H)] = p[i - H] /\ Len(encode(p)) = H + size
      <4> HIDE DEF p
      <4> QED BY <1>1, <3>1, <3>2, EncodeIs
    <3>4. w[i].v = encode(p)[i]
      BY <3>3 DEF Frame
    <3> QED BY <3>2, <3>3, <3>4
  <2> HIDE DEF w
  <2> QED BY <2>1, <2>2
<1>3. /\ Len(s) \in Nat /\ Len(t) = Len(s) + Len(w) /\ Len(w) \in Nat /\ H \in Nat \ {0}
      /\ \A i \in 1..Len(s) : t[i] = s[i] /\ s[i].of \in Nat
      /\ \A i \in 1..Len(w) : t[Len(s) + i] = w[i]
  <2>1. \A i \in 1..Len(s) : s[i] \in Byte
    OBVIOUS
  <2>2. \A i \in 1..Len(s) : s[i].of \in Nat
    BY <2>1 DEF Byte
  <2>3. t = s \o w /\ H \in Nat \ {0}
    BY ByteAssumption
  <2> HIDE DEF w, H
  <2>4. /\ Len(s \o w) = Len(s) + Len(w)
        /\ \A i \in 1..Len(s) : (s \o w)[i] = s[i]
        /\ \A i \in 1..Len(w) : (s \o w)[Len(s) + i] = w[i]
    <3>1. w \in Seq(Byte)
      BY <1>2
    <3> QED BY <3>1, ConcatIs
  <2>5. Len(s) \in Nat /\ Len(w) \in Nat
    BY <1>2
  <2> QED BY <2>2, <2>3, <2>4, <2>5
<1> HIDE DEF w, H, t
<1>4. \A i \in 1..Len(t) : i \in 1..Len(s) \/ (i - Len(s) \in 1..Len(w) /\ t[i] = w[i - Len(s)])
  <2> TAKE i \in 1..Len(t)
  <2>1. CASE i <= Len(s)
    BY <1>3, <2>1
  <2>2. CASE i > Len(s)
    <3>1. i - Len(s) \in 1..Len(w) /\ Len(s) + (i - Len(s)) = i
      BY <1>3, <2>2
    <3> QED BY <1>3, <3>1
  <2> QED BY <1>3, <2>1, <2>2
<1>5. \A i \in 1..Len(t) : (i \in 1..Len(s) /\ t[i] = s[i]) \/ t[i].of = h
  BY <1>2, <1>3, <1>4
<1>6. ASSUME NEW i \in 1..Len(t), NEW j \in 1..Len(t), i <= j
      PROVE  t[i].of <= t[j].of
  <2>1. CASE j \in 1..Len(s)
    <3>1. i \in 1..Len(s)
      BY <1>3, <1>6, <2>1
    <3> QED BY <1>3, <1>6, <2>1, <3>1 DEF InOrder
  <2>2. CASE j \notin 1..Len(s) /\ i \in 1..Len(s)
    <3>1. t[j].of = h /\ t[i] = s[i] /\ s[i].of < h /\ s[i].of \in Nat
      BY <1>3, <1>5, <2>2
    <3> QED BY <3>1
  <2>3. CASE j \notin 1..Len(s) /\ i \notin 1..Len(s)
    <3>1. t[j].of = h /\ t[i].of = h
      BY <1>5, <2>3
    <3> QED BY <3>1
  <2> QED BY <2>1, <2>2, <2>3
<1>7. ASSUME NEW i \in 1..Len(t), i > H, t[i - H].of = t[i].of
      PROVE  t[i].v = TEXT
  <2>1. i - H \in 1..Len(t)
    BY <1>3, <1>7
  <2>2. CASE i \in 1..Len(s)
    <3>1. i - H \in 1..Len(s)
      BY <1>3, <1>7, <2>2
    <3>2. t[i] = s[i] /\ t[i - H] = s[i - H]
      BY <1>3, <2>2, <3>1
    <3> QED BY <1>7, <2>2, <3>2 DEF H, TextAfter
  <2>3. CASE i \notin 1..Len(s)
    <3>1. t[i].of = h /\ i - Len(s) \in 1..Len(w) /\ t[i] = w[i - Len(s)]
      BY <1>4, <1>5, <2>3
    <3>2. i - H \notin 1..Len(s)
      <4> SUFFICES ASSUME i - H \in 1..Len(s) PROVE FALSE
        OBVIOUS
      <4>1. t[i - H] = s[i - H] /\ s[i - H].of < h /\ s[i - H].of \in Nat
        BY <1>3
      <4> QED BY <1>7, <3>1, <4>1
    <3>3. i - Len(s) > H
      BY <1>3, <2>1, <3>2
    <3> QED BY <1>2, <3>1, <3>3
  <2> QED BY <2>2, <2>3
<1>8. InOrder(t) /\ TextAfter(t)
  BY <1>6, <1>7 DEF H, InOrder, TextAfter
<1> QED BY <1>5, <1>8 DEF t

LEMMA OnceWrites ==
  ASSUME SimTypeOK, SimTypeOK', NEW b \in Bots, BotInv(b), OnceInv(b), ServerWrites(b)
  PROVE  OnceInv(b)'
<1> DEFINE h == Len(handled[b])
           s == Outbound(b)
           t == Outbound(b)'
           w == writing[b]
           m == m_localMetrics[b]
<1>1. /\ UNCHANGED <<got, handled, m_localMetrics>>
      /\ servedAt[b] = "write" /\ servedAt'[b] = "read"
      /\ toBot'[b] = IF b \in cut THEN toBot[b] ELSE toBot[b] \o w
  BY StreamTypes DEF ServerWrites, Sent, SimTypeOK, botVars
<1>2. /\ h \in Nat /\ s \in Seq(Byte) /\ w \in Seq(Byte) /\ got[b] \in Seq(Byte)
      /\ toBot[b] \in Seq(Byte) /\ s = got[b] \o toBot[b]
  BY BotTypes DEF Outbound
<1>3. PICK size \in {1, LargeReply} : w = Frame(h, size)
  BY <1>1 DEF BotInv, RepliesInv
<1>4. CASE b \in cut
  <2>1. t = s
    BY <1>1, <1>4 DEF Outbound
  <2>2. Piece(t, s)
    BY <1>2, <2>1, PieceOf
  <2> QED BY <1>1, <2>2, OnceKept
<1>5. CASE b \notin cut
  <2>1. t = s \o w
    <3> DEFINE x == got[b]
               y == toBot[b]
    <3>1. x \in Seq(Byte) /\ y \in Seq(Byte) /\ w \in Seq(Byte)
      BY <1>2
    <3>2. (x \o y) \o w = x \o (y \o w)
      <4> HIDE DEF x, y, w
      <4> QED BY <3>1, ConcatBytes, Zenon
    <3> QED BY <1>1, <1>2, <1>5, <3>2 DEF Outbound
  <2>2. /\ InOrder(s) /\ TextAfter(s)
        /\ \A i \in 1..Len(s) : s[i].of < h
    BY <1>1 DEF OnceInv, FramedInv
  <2> HIDE DEF h, s, t, w
  <2>3. /\ InOrder(t) /\ TextAfter(t)
        /\ \A i \in 1..Len(t) : (i \in 1..Len(s) /\ t[i] = s[i]) \/ t[i].of = h
    <3>1. t = s \o Frame(h, size)
      BY <1>3, <2>1
    <3>2. h \in Nat /\ s \in Seq(Byte)
      BY <1>2
    <3> DEFINE x == s \o Frame(h, size)
    <3>3. /\ InOrder(x) /\ TextAfter(x)
          /\ \A i \in 1..Len(x) : (i \in 1..Len(s) /\ x[i] = s[i]) \/ x[i].of = h
      BY <2>2, <3>2, FramedAppended
    <3> HIDE DEF x
    <3>4. t = x
      BY <3>1 DEF x
    <3> QED BY <3>3, <3>4
  <2>4. FramedInv(b)'
    BY <1>1, <2>3 DEF FramedInv, t
  <2>5. ASSUME NEW n \in 1..Len(m) PROVE RecordInv(b, n)'
    <3> DEFINE q == m[n].reply
    <3>1. /\ m[n].ok => q > 0
          /\ q > 0 => /\ q \in 1..h /\ m[n].lat = 1 /\ m[n].ok = handled[b][q] /\ q < h
                      /\ \A i \in 1..Len(s) : s[i].of = q => s[i].v = TEXT
      BY <1>1 DEF OnceInv, RecordInv, s, h
    <3>2. q > 0 => \A i \in 1..Len(t) : t[i].of = q => t[i].v = TEXT
      <4> HIDE DEF q, m
      <4> SUFFICES ASSUME q > 0, NEW i \in 1..Len(t), t[i].of = q PROVE t[i].v = TEXT
        OBVIOUS
      <4>1. q \in 1..h /\ q < h /\ t[i].of # h
        BY <1>2, <3>1
      <4>2. i \in 1..Len(s) /\ t[i] = s[i]
        BY <2>3, <4>1
      <4> QED BY <3>1, <4>2
    <3>3. m_localMetrics'[b][n] = m[n]
      BY <1>1
    <3> HIDE DEF m
    <3> QED BY <1>1, <3>1, <3>2, <3>3 DEF RecordInv, t, h
  <2>6. \A n, k \in 1..Len(m) : m[n].reply > 0 /\ m[n].reply = m[k].reply => n = k
    BY DEF OnceInv
  <2> QED BY <1>1, <2>4, <2>5, <2>6 DEF OnceInv
<1> QED BY <1>4, <1>5

LEMMA OnceSame ==
  ASSUME NEW c, Same(c), OnceInv(c)
  PROVE  OnceInv(c)'
<1>1. /\ Outbound(c)' = Outbound(c) /\ handled'[c] = handled[c]
      /\ m_localMetrics'[c] = m_localMetrics[c] /\ servedAt'[c] = servedAt[c]
  BY DEF Same, Outbound
<1>2. FramedInv(c)'
  BY <1>1 DEF OnceInv, FramedInv
<1>3. \A n \in 1..Len(m_localMetrics[c]) : RecordInv(c, n)'
  BY <1>1 DEF OnceInv, RecordInv
<1> QED BY <1>1, <1>2, <1>3 DEF OnceInv

LEMMA OnceStep ==
  ASSUME SimInv, SimTypeOK', NEW b \in Bots, OnceInv(b), StepOf(b)
  PROVE  OnceInv(b)'
<1>1. SimTypeOK /\ BotInv(b)
  BY DEF SimInv
<1> QED BY <1>1, OnceMoves, OnceEnds, OnceDispatch, OnceWrites DEF StepOf

-----------------------------------------------------------------------------
(* The collector *)

ConnectFailed == [action |-> "CONNECT", reply |-> FailedRequest, lat |-> 0, ok |-> FALSE]

\* What b hands to the collector, and whose records the collector has.
Reports(b) == IF asked[b] = <<>> THEN <<ConnectFailed>> ELSE m_localMetrics[b]
Done == {b \in Bots : botAt[b] = "done"}
Collected == UNION {{b} \X (1..Len(Reports(b))) : b \in Done}

\* f tells of each record in m_metrics whose it is, and which of them.
Origin(f) ==
  /\ f \in Bijection(1..Len(m_metrics), Collected)
  /\ \A i \in 1..Len(m_metrics) : m_metrics[i] = Reports(f[i][1])[f[i][2]]

CollectorInv == \E f : Origin(f)
SummaryInv ==
  summary = <<>> \/ (summary = <<computeSummary(m_metrics)>> /\ Done = Bots)
ReportInv == (\A b \in Bots : OnceInv(b)) /\ CollectorInv /\ SummaryInv

LEMMA PairsAdded ==
  ASSUME NEW n \in Nat, NEW k \in Nat, NEW S, NEW b, NEW f \in Bijection(1..n, S),
         \A j \in 1..k : <<b, j>> \notin S
  PROVE  [i \in 1..n + k |-> IF i <= n THEN f[i] ELSE <<b, i - n>>]
           \in Bijection(1..n + k, S \cup ({b} \X (1..k)))
<1> DEFINE g == [i \in 1..n + k |-> IF i <= n THEN f[i] ELSE <<b, i - n>>]
           T == S \cup ({b} \X (1..k))
<1>1. /\ f \in [1..n -> S] /\ \A x, y \in 1..n : f[x] = f[y] => x = y
      /\ \A y \in S : \E x \in 1..n : f[x] = y
  BY Fun_BijectionProperties
<1>2. \A i \in 1..n : i \in 1..n + k /\ g[i] = f[i] /\ g[i] \in S
  BY <1>1
<1>3. \A j \in 1..k : n + j \in 1..n + k /\ g[n + j] = <<b, j>>
  <2> TAKE j \in 1..k
  <2>1. n + j \in 1..n + k /\ ~(n + j <= n) /\ (n + j) - n = j
    OBVIOUS
  <2> QED BY <2>1
<1>4. \A i \in 1..n + k : i \in 1..n \/ (i - n \in 1..k /\ i = n + (i - n))
  OBVIOUS
<1> HIDE DEF g
<1>5. g \in [1..n + k -> T]
  <2>1. g = [i \in 1..n + k |-> g[i]]
    BY DEF g
  <2>2. \A i \in 1..n + k : g[i] \in T
    <3> TAKE i \in 1..n + k
    <3>1. CASE i \in 1..n
      BY <1>2, <3>1
    <3>2. CASE i - n \in 1..k /\ i = n + (i - n)
      <4>1. g[i] = <<b, i - n>>
        BY <1>3, <3>2
      <4> QED BY <3>2, <4>1
    <3> QED BY <1>4, <3>1, <3>2
  <2> HIDE DEF T
  <2> QED BY <2>1, <2>2
<1>6. ASSUME NEW x \in 1..n + k, NEW y \in 1..n + k, g[x] = g[y]
      PROVE  x = y
  <2>1. CASE x \in 1..n /\ y \in 1..n
    BY <1>1, <1>2, <1>6, <2>1
  <2>2. CASE x \in 1..n /\ y - n \in 1..k /\ y = n + (y - n)
    <3>1. g[y] = <<b, y - n>> /\ g[x] \in S
      BY <1>2, <1>3, <2>2
    <3> QED BY <1>6, <2>2, <3>1
  <2>3. CASE y \in 1..n /\ x - n \in 1..k /\ x = n + (x - n)
    <3>1. g[x] = <<b, x - n>> /\ g[y] \in S
      BY <1>2, <1>3, <2>3
    <3> QED BY <1>6, <2>3, <3>1
  <2>4. CASE x - n \in 1..k /\ x = n + (x - n) /\ y - n \in 1..k /\ y = n + (y - n)
    <3>1. g[x] = <<b, x - n>> /\ g[y] = <<b, y - n>>
      BY <1>3, <2>4
    <3>2. <<b, x - n>> = <<b, y - n>>
      BY <1>6, <3>1
    <3>3. x - n = y - n
      BY <3>2, Zenon
    <3> QED BY <2>4, <3>3
  <2> QED BY <1>4, <2>1, <2>2, <2>3, <2>4
<1>7. ASSUME NEW y \in T
      PROVE  \E x \in 1..n + k : g[x] = y
  <2>1. CASE y \in S
    <3>1. PICK x \in 1..n : f[x] = y
      BY <1>1, <2>1
    <3> QED BY <1>2, <3>1
  <2>2. CASE y \in {b} \X (1..k)
    <3>1. PICK j \in 1..k : y = <<b, j>>
      BY <2>2
    <3> QED BY <1>3, <3>1
  <2> QED BY <2>1, <2>2
<1>8. g \in Bijection(1..n + k, T)
  <2> HIDE DEF T
  <2> QED BY <1>5, <1>6, <1>7, Fun_IsBij
<1> QED BY <1>8 DEF g, T

\* The report of b reaches the collector.
LEMMA CollectorAdds ==
  ASSUME SimTypeOK, SimTypeOK', CollectorInv, NEW b \in Bots, b \notin Done,
         Done' = Done \cup {b}, m_metrics' = m_metrics \o Reports(b)',
         Reports(b)' \in Seq(Record),
         \A c \in Done : Reports(c)' = Reports(c)
  PROVE  CollectorInv'
<1> DEFINE q == Reports(b)'
           S == Collected
<1>0. m_metrics \in Seq(Record) /\ q \in Seq(Record)
  BY DEF SimTypeOK
<1>a. PICK n \in Nat, k \in Nat : n = Len(m_metrics) /\ k = Len(q)
  BY <1>0
<1>1. PICK f : Origin(f)
  BY DEF CollectorInv
<1> DEFINE g == [i \in 1..n + k |-> IF i <= n THEN f[i] ELSE <<b, i - n>>]
<1>2. /\ m_metrics \in Seq(Record) /\ q \in Seq(Record) /\ n \in Nat /\ k \in Nat
      /\ n = Len(m_metrics) /\ k = Len(q)
  BY <1>0, <1>a
<1>3. \A j : <<b, j>> \notin S
  BY DEF Collected
<1>4. Collected' = S \cup ({b} \X (1..k))
  <2>1. Collected' = UNION {{c} \X (1..Len(Reports(c)')) : c \in Done'}
    BY DEF Collected
  <2>2. \A c \in Done : {c} \X (1..Len(Reports(c)')) = {c} \X (1..Len(Reports(c)))
    OBVIOUS
  <2>3. {b} \X (1..Len(Reports(b)')) = {b} \X (1..k)
    BY <1>2
  <2> HIDE DEF q
  <2>4. ASSUME NEW x \in Collected' PROVE x \in S \cup ({b} \X (1..k))
    <3>1. PICK c \in Done' : x \in {c} \X (1..Len(Reports(c)'))
      BY <2>1
    <3>2. CASE c = b
      BY <2>3, <3>1, <3>2
    <3>3. CASE c \in Done
      BY <2>2, <3>1, <3>3 DEF Collected
    <3> QED BY <3>2, <3>3
  <2>5. ASSUME NEW x \in S PROVE x \in Collected'
    <3>1. PICK c \in Done : x \in {c} \X (1..Len(Reports(c)))
      BY <2>5 DEF Collected
    <3>2. c \in Done' /\ x \in {c} \X (1..Len(Reports(c)'))
      BY <2>2, <3>1
    <3> QED BY <2>1, <3>2
  <2>6. ASSUME NEW x \in {b} \X (1..k) PROVE x \in Collected'
    <3>1. b \in Done' /\ x \in {b} \X (1..Len(Reports(b)'))
      BY <2>3, <2>6
    <3> QED BY <2>1, <3>1
  <2> HIDE DEF S
  <2> QED BY <2>4, <2>5, <2>6
<1>5. f \in Bijection(1..n, S) /\ f \in [1..n -> S]
  BY <1>1, <1>2, Fun_BijectionProperties DEF Origin
<1>6. g \in Bijection(1..n + k, S \cup ({b} \X (1..k)))
  <2>1. n \in Nat /\ k \in Nat /\ f \in Bijection(1..n, S) /\ \A j \in 1..k : <<b, j>> \notin S
    BY <1>2, <1>3, <1>5
  <2> HIDE DEF S, q
  <2> QED BY <2>1, PairsAdded, Zenon
<1>7. /\ Len(m_metrics') = n + k
      /\ \A i \in 1..n : m_metrics'[i] = m_metrics[i]
      /\ \A i \in 1..k : m_metrics'[n + i] = q[i]
  <2> HIDE DEF q
  <2>1. m_metrics' = m_metrics \o q
    BY DEF q
  <2> QED BY <1>2, <2>1, ConcatIs
<1>8. ASSUME NEW i \in 1..n + k PROVE m_metrics'[i] = Reports(g[i][1])'[g[i][2]]
  <2>1. CASE i \in 1..n
    <3>1. g[i] = f[i] /\ f[i] \in S /\ m_metrics[i] = Reports(f[i][1])[f[i][2]]
      BY <1>1, <1>2, <1>5, <2>1 DEF Origin
    <3>2. PICK c \in Done : f[i] \in {c} \X (1..Len(Reports(c)))
      BY <3>1 DEF Collected
    <3>3. f[i][1] \in Done
      BY <3>2
    <3>4. Reports(f[i][1])' = Reports(f[i][1])
      BY <3>3
    <3> QED BY <1>7, <2>1, <3>1, <3>4
  <2>2. CASE i > n
    <3>1. i - n \in 1..k /\ n + (i - n) = i
      BY <1>2, <2>2
    <3>2. g[i] = <<b, i - n>>
      BY <1>2, <2>2
    <3>3. m_metrics'[i] = q[i - n]
      BY <1>7, <3>1
    <3> HIDE DEF g
    <3>4. g[i][1] = b /\ g[i][2] = i - n
      BY <3>2
    <3> QED BY <3>3, <3>4
  <2> QED BY <1>2, <2>1, <2>2
<1>9. Origin(g)'
  <2> HIDE DEF g, S, q
  <2> QED BY <1>4, <1>6, <1>7, <1>8 DEF Origin
<1> QED BY <1>9 DEF CollectorInv

LEMMA CollectorKept ==
  ASSUME CollectorInv, Done' = Done, m_metrics' = m_metrics,
         \A c \in Done : Reports(c)' = Reports(c)
  PROVE  CollectorInv'
<1>1. PICK f : Origin(f)
  BY DEF CollectorInv
<1>2. Collected' = Collected
  <2>1. Collected' = UNION {{c} \X (1..Len(Reports(c)')) : c \in Done}
    BY DEF Collected
  <2>2. \A c \in Done : {c} \X (1..Len(Reports(c)')) = {c} \X (1..Len(Reports(c)))
    OBVIOUS
  <2>3. {{c} \X (1..Len(Reports(c)')) : c \in Done} = {{c} \X (1..Len(Reports(c))) : c \in Done}
    BY <2>2
  <2> QED BY <2>1, <2>3 DEF Collected
<1>3. f \in [1..Len(m_metrics) -> Collected]
  BY <1>1, Fun_BijectionProperties DEF Origin
<1>4. ASSUME NEW i \in 1..Len(m_metrics)
      PROVE  m_metrics[i] = Reports(f[i][1])'[f[i][2]]
  <2>1. f[i] \in Collected
    BY <1>3
  <2>2. PICK c \in Done : f[i] \in {c} \X (1..Len(Reports(c)))
    BY <2>1 DEF Collected
  <2>3. f[i][1] \in Done
    BY <2>2
  <2> QED BY <1>1, <2>3 DEF Origin
<1>5. Origin(f)'
  BY <1>1, <1>2, <1>4 DEF Origin
<1> QED BY <1>5 DEF CollectorInv

\* The collector gets the records of b when b is done, and no others.
LEMMA CollectorStep ==
  ASSUME SimInv, SimTypeOK', CollectorInv, NEW b \in Bots, StepOf(b)
  PROVE  /\ CollectorInv' /\ summary' = summary
         /\ Done = Bots => Done' = Bots /\ m_metrics' = m_metrics
<1>1. SimTypeOK /\ BotInv(b) /\ PlaceInv(b)
  BY DEF SimInv, BotInv
<1>2. /\ botAt \in [Bots -> {"connect", "loop", "write", "read", "flush", "done"}]
      /\ botAt' \in [Bots -> {"connect", "loop", "write", "read", "flush", "done"}]
      /\ asked[b] \in Seq(Action) /\ m_localMetrics[b] \in Seq(Record)
      /\ asked \in [Bots -> Seq(Action)] /\ m_localMetrics \in [Bots -> Seq(Record)]
  BY <1>1 DEF SimTypeOK
<1>3. \A c \in Bots \ {b} : botAt'[c] = botAt[c] /\ Reports(c)' = Reports(c)
  <2> TAKE c \in Bots \ {b}
  <2>1. Same(c)
    BY <1>1, OthersSame
  <2> QED BY <2>1 DEF Same, Reports
<1> USE DEF botVars, serverVars, streamVars, mainVars
<1>4. CASE ConnectFails(b) \/ Flush(b)
  <2>1. /\ botAt[b] \in {"connect", "flush"} /\ botAt'[b] = "done" /\ summary' = summary
        /\ asked'[b] = asked[b] /\ m_localMetrics'[b] = m_localMetrics[b]
    BY <1>2, <1>4 DEF ConnectFails, Flush
  <2>2. b \notin Done /\ Done' = Done \cup {b}
    BY <1>2, <1>3, <2>1 DEF Done
  <2>3. Reports(b)' = Reports(b)
    BY <2>1 DEF Reports
  <2>4. m_metrics' = m_metrics \o Reports(b) /\ Reports(b) \in Seq(Record)
    <3>1. CASE ConnectFails(b)
      <4>1. asked[b] = <<>> /\ m_metrics' = Append(m_metrics, ConnectFailed)
        BY <1>1, <3>1 DEF ConnectFails, PlaceInv, ConnectFailed
      <4>2. m_metrics \in Seq(Record) /\ ConnectFailed \in Record
        BY <1>1 DEF SimTypeOK, Record, ConnectFailed, FailedRequest
      <4>3. <<ConnectFailed>> \in Seq(Record)
        BY <4>2
      <4>4. Append(m_metrics, ConnectFailed) = m_metrics \o <<ConnectFailed>>
        BY <4>2, AppendIsConcat
      <4> QED BY <4>1, <4>3, <4>4 DEF Reports
    <3>2. CASE Flush(b)
      <4>1. asked[b] # <<>> /\ m_metrics' = m_metrics \o m_localMetrics[b]
        BY <1>1, <3>2 DEF Flush, PlaceInv
      <4> QED BY <1>2, <4>1 DEF Reports
    <3> QED BY <1>4, <3>1, <3>2
  <2>5. CollectorInv'
    <3>1. \A c \in Done : Reports(c)' = Reports(c)
      BY <1>3, <2>2 DEF Done
    <3> QED BY <1>1, <2>2, <2>3, <2>4, <3>1, CollectorAdds
  <2> QED BY <2>1, <2>2, <2>5
<1>5. CASE ~(ConnectFails(b) \/ Flush(b))
  <2>1. /\ m_metrics' = m_metrics /\ summary' = summary
        /\ \/ botAt'[b] = botAt[b] /\ asked'[b] = asked[b] /\ m_localMetrics'[b] = m_localMetrics[b]
           \/ botAt[b] # "done" /\ botAt'[b] # "done"
    <3>1. CASE connectSocket(b) \/ Act(b) \/ Leave(b)
      BY <1>2, <3>1 DEF connectSocket, Act, Leave, Begin
    <3>2. CASE BotWrites(b) \/ BotReads(b)
      BY <1>2, <3>2 DEF BotWrites, BotReads
    <3>3. CASE BotWriteFails(b) \/ BotReadFails(b) \/ BotRefuses(b)
      BY <1>2, <3>3 DEF BotWriteFails, BotReadFails, BotRefuses, Finish
    <3>4. CASE BotParses(b)
      <4>1. botAt[b] = "read" /\ \E r, ok : Finish(b, r, 1, ok)
        BY <3>4 DEF BotParses
      <4> QED BY <1>2, <4>1 DEF Finish
    <3>5. CASE Serve(b) \/ ServerReads(b) \/ dispatch(b) \/ ServerWrites(b) \/ ServerCloses(b)
      BY <3>5 DEF Serve, ServerReads, dispatch, ServerWrites, ServerCloses
    <3>6. CASE Break(b)
      BY <3>6 DEF Break
    <3> QED BY <1>5, <3>1, <3>2, <3>3, <3>4, <3>5, <3>6 DEF StepOf
  <2>2. Done' = Done
    BY <1>3, <2>1 DEF Done
  <2>3. \A c \in Done : Reports(c)' = Reports(c)
    BY <1>3, <2>1 DEF Done, Reports
  <2> QED BY <2>1, <2>2, <2>3, CollectorKept
<1> QED BY <1>4, <1>5

LEMMA SimInit_Report == SimInit => ReportInv
<1> SUFFICES ASSUME SimInit PROVE ReportInv
  OBVIOUS
<1>1. ASSUME NEW b \in Bots PROVE OnceInv(b)
  <2>1. m_localMetrics[b] = <<>> /\ got[b] = <<>> /\ toBot[b] = <<>> /\ servedAt[b] = "none"
    BY DEF SimInit, Empty
  <2>2. Outbound(b) = <<>>
    BY <2>1 DEF Outbound
  <2>3. 1..Len(Outbound(b)) = {} /\ 1..Len(m_localMetrics[b]) = {}
    BY <2>1, <2>2
  <2> QED BY <2>1, <2>3 DEF OnceInv, FramedInv, InOrder, TextAfter
<1>2. CollectorInv
  <2>1. Collected = {}
    BY DEF SimInit, Collected, Done
  <2>2. m_metrics = <<>> /\ 1..Len(m_metrics) = {}
    BY DEF SimInit
  <2> DEFINE f == [i \in {} |-> 0]
  <2>3. f \in Bijection({}, {})
    <3>1. f \in [{} -> {}]
      OBVIOUS
    <3> HIDE DEF f
    <3> QED BY <3>1, Fun_IsBij
  <2>4. Origin(f)
    <3> HIDE DEF f
    <3> QED BY <2>1, <2>2, <2>3 DEF Origin
  <2> QED BY <2>4 DEF CollectorInv
<1>3. SummaryInv
  BY DEF SimInit, SummaryInv
<1> QED BY <1>1, <1>2, <1>3 DEF ReportInv

LEMMA SimNext_Report == SimInv /\ ReportInv /\ [SimNext]_simVars => ReportInv'
<1> SUFFICES ASSUME SimInv, ReportInv, [SimNext]_simVars PROVE ReportInv'
  OBVIOUS
<1>1. SimInv' /\ SimTypeOK' /\ SimTypeOK
  BY SimNext_Inv DEF SimInv
<1>2. ASSUME NEW b \in Bots, StepOf(b) PROVE ReportInv'
  <2>1. OnceInv(b)'
    BY <1>1, <1>2, OnceStep DEF ReportInv
  <2>2. ASSUME NEW c \in Bots \ {b} PROVE OnceInv(c)'
    <3>1. Same(c)
      BY <1>1, <1>2, OthersSame
    <3> QED BY <3>1, OnceSame DEF ReportInv
  <2>3. /\ CollectorInv' /\ summary' = summary
        /\ Done = Bots => Done' = Bots /\ m_metrics' = m_metrics
    BY <1>1, <1>2, CollectorStep DEF ReportInv
  <2>4. SummaryInv'
    BY <2>3 DEF ReportInv, SummaryInv, computeSummary
  <2> QED BY <2>1, <2>2, <2>3, <2>4 DEF ReportInv
<1>3. CASE signalHandler \/ RunReturns \/ UNCHANGED simVars
  <2> USE DEF botVars, serverVars, streamVars, mainVars, simVars
  <2>1. UNCHANGED <<botVars, serverVars, streamVars, m_metrics>>
    BY <1>3 DEF signalHandler, RunReturns
  <2>2. \A c : Same(c)
    BY <2>1 DEF Same
  <2>3. \A c \in Bots : OnceInv(c)'
    BY <2>2, OnceSame DEF ReportInv
  <2>4. Done' = Done /\ m_metrics' = m_metrics /\ \A c : Reports(c)' = Reports(c)
    BY <2>1 DEF Done, Reports
  <2>5. CollectorInv'
    BY <2>4, CollectorKept DEF ReportInv
  <2>6. SummaryInv'
    <3>1. CASE RunReturns
      <4>1. summary' = <<computeSummary(m_metrics)>> /\ Done = Bots
        BY <3>1 DEF RunReturns, Done
      <4>2. computeSummary(m_metrics') = computeSummary(m_metrics)
        BY <2>4
      <4> QED BY <2>4, <4>1, <4>2 DEF SummaryInv
    <3>2. CASE summary' = summary
      <4>1. computeSummary(m_metrics') = computeSummary(m_metrics)
        BY <2>4
      <4> QED BY <2>4, <3>2, <4>1 DEF ReportInv, SummaryInv
    <3> QED BY <1>3, <3>1, <3>2 DEF signalHandler
  <2> QED BY <2>3, <2>5, <2>6 DEF ReportInv
<1> QED BY <1>2, <1>3, StepCases

LEMMA SimSpec_Report == SimSpec => [](SimInv /\ ReportInv)
<1>1. SimInit => SimInv /\ ReportInv
  BY SimInit_Inv, SimInit_Report
<1>2. SimInv /\ ReportInv /\ [SimNext]_simVars => (SimInv /\ ReportInv)'
  BY SimNext_Inv, SimNext_Report
<1> QED BY <1>1, <1>2, PTL DEF SimSpec

-----------------------------------------------------------------------------
(* The summary *)

\* A bit is 0 or 1, so the zeros and then the ones are ascending.
LEMMA SortedIs ==
  ASSUME NEW s \in Seq({0, 1})
  PROVE  /\ Sorted(s) \in [1..Len(s) -> {0, 1}]
         /\ \A i, j \in 1..Len(s) : i <= j => Sorted(s)[i] <= Sorted(s)[j]
         /\ (\E i \in 1..Len(s) : s[i] = 1) => \E i \in 1..Len(s) : Sorted(s)[i] = 1
<1> DEFINE n == Len(s)
           D == 1..n
           Ascends(t) == \A i, j \in D : i <= j => t[i] <= t[j]
           Count(t, v) == Cardinality({i \in D : t[i] = v})
           Counts(t) == \A k \in D : Count(t, s[k]) = Count(s, s[k])
           P(t) == Ascends(t) /\ Counts(t)
           Z == {i \in D : s[i] = 0}
           z == Cardinality(Z)
<1>1. n \in Nat /\ \A i \in D : s[i] \in {0, 1}
  OBVIOUS
<1>2. IsFiniteSet(D) /\ Cardinality(D) = n /\ \A v : IsFiniteSet({i \in D : s[i] = v})
  <2> HIDE DEF n
  <2>1. IsFiniteSet(1..n) /\ Cardinality(1..n) = n
    BY <1>1, FS_Interval
  <2>2. \A T \in SUBSET D : IsFiniteSet(T)
    BY <2>1, FS_Subset
  <2> QED BY <2>1, <2>2
<1>3. z \in Nat /\ z <= n /\ (z = 0 <=> Z = {}) /\ Count(s, 1) = n - z
  <2>1. IsFiniteSet(Z) /\ Z \subseteq D
    BY <1>2
  <2>2. z \in Nat /\ z <= n
    <3> HIDE DEF Z, D
    <3> QED BY <1>2, <2>1, FS_Subset, FS_CardinalityType
  <2>3. z = 0 <=> Z = {}
    BY <2>1, FS_EmptySet
  <2>4. Cardinality(D \ Z) = n - z
    <3>1. D \cap Z = Z
      BY <2>1
    <3> HIDE DEF D, Z
    <3>2. Cardinality(D \ Z) = Cardinality(D) - Cardinality(D \cap Z)
      BY <1>2, FS_Difference, Zenon
    <3> QED BY <1>2, <3>1, <3>2
  <2>5. {i \in D : s[i] = 1} = D \ Z
    BY <1>1
  <2> QED BY <2>2, <2>3, <2>4, <2>5
<1>4. \E t \in [D -> {s[i] : i \in D}] : P(t)
  <2> DEFINE w == [i \in D |-> IF i <= z THEN 0 ELSE 1]
  <2> HIDE DEF z, n
  <2>1. \A i \in D : w[i] = IF i <= z THEN 0 ELSE 1
    OBVIOUS
  <2>2. \A i \in D : w[i] \in {s[k] : k \in D}
    <3> TAKE i \in D
    <3>1. CASE i <= z
      <4>1. Z # {}
        BY <1>1, <1>3, <3>1
      <4> QED BY <2>1, <3>1, <4>1
    <3>2. CASE ~(i <= z)
      <4>1. Count(s, 1) # 0
        BY <1>1, <1>3, <3>2
      <4>2. {k \in D : s[k] = 1} # {}
        BY <4>1, FS_EmptySet
      <4> QED BY <2>1, <3>2, <4>2
    <3> QED BY <3>1, <3>2
  <2>3. w \in [D -> {s[i] : i \in D}]
    BY <2>2
  <2>4. Ascends(w)
    <3>1. \A i, j \in D : i <= j /\ j <= z => i <= z
      BY <1>1, <1>3
    <3> HIDE DEF w
    <3> QED BY <2>1, <3>1
  <2>5. Count(w, 0) = z
    <3>1. {i \in D : w[i] = 0} = 1..z
      BY <1>1, <1>3, <2>1
    <3>2. Cardinality(1..z) = z
      BY <1>3, FS_Interval
    <3> QED BY <3>1, <3>2
  <2>6. Count(w, 1) = n - z
    <3>1. {i \in D : w[i] = 1} = (z + 1)..n
      BY <1>1, <1>3, <2>1
    <3>2. z + 1 \in Int /\ n \in Int
      BY <1>1, <1>3
    <3>3. Cardinality((z + 1)..n) = IF z + 1 > n THEN 0 ELSE n - (z + 1) + 1
      BY <3>2, FS_Interval, Zenon
    <3>4. Cardinality((z + 1)..n) = n - z
      BY <1>1, <1>3, <3>3
    <3> QED BY <3>1, <3>4
  <2>7. Counts(w)
    <3> SUFFICES ASSUME NEW k \in D PROVE Count(w, s[k]) = Count(s, s[k])
      OBVIOUS
    <3>1. CASE s[k] = 0
      <4>1. Count(s, 0) = z
        BY DEF z
      <4> HIDE DEF Count
      <4> QED BY <2>5, <3>1, <4>1
    <3>2. CASE s[k] = 1
      <4> HIDE DEF Count
      <4> QED BY <1>3, <2>6, <3>2
    <3> QED BY <1>1, <3>1, <3>2
  <2> HIDE DEF w, P
  <2> QED BY <2>3, <2>4, <2>7 DEF P
<1>5. Sorted(s) = CHOOSE t \in [D -> {s[i] : i \in D}] : P(t)
  BY Zenon DEF Sorted
<1>6. Sorted(s) \in [D -> {s[i] : i \in D}] /\ P(Sorted(s))
  <2> HIDE DEF D, P
  <2> QED BY <1>4, <1>5
<1>7. Sorted(s) \in [D -> {0, 1}]
  BY <1>1, <1>6
<1>8. ASSUME NEW k \in D, s[k] = 1 PROVE \E i \in D : Sorted(s)[i] = 1
  <2>1. Count(Sorted(s), 1) = Count(s, 1)
    <3> HIDE DEF D, Count
    <3> QED BY <1>6, <1>8
  <2>2. {i \in D : s[i] = 1} # {}
    BY <1>8
  <2>3. Count(s, 1) # 0
    BY <1>2, <2>2, FS_EmptySet
  <2>4. {i \in D : Sorted(s)[i] = 1} # {}
    BY <2>1, <2>3, FS_EmptySet
  <2> QED BY <2>4
<1> QED BY <1>6, <1>7, <1>8

LEMMA PercentileIs ==
  ASSUME NEW n \in Nat \ {0}, NEW t \in [1..n -> {0, 1}], Len(t) = n,
         \A i, j \in 1..n : i <= j => t[i] <= t[j]
  PROVE  /\ Percentile(t, 50) <= Percentile(t, 95) /\ Percentile(t, 95) <= Percentile(t, 99)
         /\ Percentile(t, 99) <= Last(t) /\ Last(t) = t[n]
<1> DEFINE At(x) == Min({x \div 100, n - 1}) + 1
<1>1. ASSUME NEW x \in Nat
      PROVE  /\ x \div 100 \in Nat /\ At(x) \in 1..n
             /\ At(x) = IF x \div 100 <= n - 1 THEN x \div 100 + 1 ELSE n
  <2> DEFINE d == x \div 100
             m == n - 1
  <2>1. d \in Nat /\ m \in Nat
    BY <1>1, DivMod
  <2> HIDE DEF d, m
  <2>2. \E y \in {d, m} : \A k \in {d, m} : y <= k
    BY <2>1
  <2>3. Min({d, m}) \in {d, m} /\ \A y \in {d, m} : Min({d, m}) <= y
    BY <2>2 DEF Min
  <2>4. Min({d, m}) = IF d <= m THEN d ELSE m
    BY <2>1, <2>3
  <2>5. n = m + 1
    BY DEF m
  <2> QED BY <2>1, <2>4, <2>5 DEF d, m
<1>2. /\ 50 * n \in Nat /\ 95 * n \in Nat /\ 99 * n \in Nat
      /\ (50 * n) \div 100 <= (95 * n) \div 100 /\ (95 * n) \div 100 <= (99 * n) \div 100
  OBVIOUS
<1>3. At(50 * n) <= At(95 * n) /\ At(95 * n) <= At(99 * n) /\ At(99 * n) <= n
  <2> HIDE DEF At
  <2>1. \A x \in {50 * n, 95 * n, 99 * n} :
          /\ x \div 100 \in Nat /\ At(x) \in 1..n
          /\ At(x) = IF x \div 100 <= n - 1 THEN x \div 100 + 1 ELSE n
    BY <1>1, <1>2
  <2> QED BY <1>2, <2>1
<1>4. At(50 * n) \in 1..n /\ At(95 * n) \in 1..n /\ At(99 * n) \in 1..n /\ n \in 1..n
  <2> HIDE DEF At
  <2> QED BY <1>1, <1>2
<1>5. /\ Percentile(t, 50) = t[At(50 * n)] /\ Percentile(t, 95) = t[At(95 * n)]
      /\ Percentile(t, 99) = t[At(99 * n)] /\ Last(t) = t[n]
  BY DEF Percentile, Last
<1> HIDE DEF At
<1> QED BY <1>3, <1>4, <1>5

\* A bot that is done has a record for every request.
LEMMA ReportsAre ==
  ASSUME SimInv, ReportInv, Done = Bots, NEW b \in Bots
  PROVE  /\ Len(Reports(b)) = IF asked[b] = <<>> THEN 1 ELSE Len(asked[b])
         /\ \A k \in 1..Len(Reports(b)) :
              /\ Reports(b)[k].ok => Reports(b)[k].reply > 0
              /\ Reports(b)[k].reply > 0 =>
                   /\ k \in 1..Len(m_localMetrics[b]) /\ Reports(b)[k] = m_localMetrics[b][k]
                   /\ RecordInv(b, k)
         /\ \A k \in 1..Len(m_localMetrics[b]) :
              m_localMetrics[b][k].reply > 0 => asked[b] # <<>>
<1>1. SimTypeOK /\ PlaceInv(b) /\ botAt[b] = "done"
  BY DEF SimInv, BotInv, Done
<1>2. Len(m_localMetrics[b]) = Len(asked[b]) /\ Len(<<>>) = 0
  BY <1>1 DEF PlaceInv
<1>3. \A k \in 1..Len(m_localMetrics[b]) : RecordInv(b, k)
  BY DEF ReportInv, OnceInv
<1>4. CASE asked[b] = <<>>
  <2>1. Reports(b) = <<ConnectFailed>>
    BY <1>4 DEF Reports
  <2>2. Len(Reports(b)) = 1 /\ \A k \in 1..1 : Reports(b)[k] = ConnectFailed
    BY <2>1
  <2>3. ~ConnectFailed.ok /\ ~(ConnectFailed.reply > 0)
    BY DEF ConnectFailed, FailedRequest
  <2>4. 1..Len(m_localMetrics[b]) = {}
    BY <1>2, <1>4
  <2> QED BY <1>4, <2>2, <2>3, <2>4
<1>5. CASE asked[b] # <<>>
  <2>1. Reports(b) = m_localMetrics[b]
    BY <1>5 DEF Reports
  <2>2. \A k \in 1..Len(m_localMetrics[b]) :
          m_localMetrics[b][k].ok => m_localMetrics[b][k].reply > 0
    BY <1>3 DEF RecordInv
  <2> QED BY <1>2, <1>3, <1>5, <2>1, <2>2
<1> QED BY <1>4, <1>5

Made(b) == {b} \X (1..(IF asked[b] = <<>> THEN 1 ELSE Len(asked[b])))
Succeeded(b) == {b} \X {n \in 1..Len(handled[b]) : handled[b][n]}
Lats(metrics) == [i \in 1..Len(metrics) |-> metrics[i].lat]

\* Every request and failed connect is one record.
LEMMA TotalIs ==
  ASSUME SimInv, ReportInv, Done = Bots
  PROVE  /\ Collected = UNION {Made(b) : b \in Bots}
         /\ IsFiniteSet(Collected) /\ Cardinality(Collected) = Len(m_metrics)
<1>1. Collected = UNION {Made(b) : b \in Bots}
  <2>1. \A b \in Bots : {b} \X (1..Len(Reports(b))) = Made(b)
    BY ReportsAre DEF Made
  <2>2. {{b} \X (1..Len(Reports(b))) : b \in Bots} = {Made(b) : b \in Bots}
    BY <2>1
  <2> QED BY <2>2 DEF Collected
<1>2. PICK f : Origin(f)
  BY DEF ReportInv, CollectorInv
<1>3. Len(m_metrics) \in Nat
  BY DEF SimInv, SimTypeOK
<1>4. ExistsBijection(1..Len(m_metrics), Collected)
  BY <1>2 DEF Origin, ExistsBijection
<1>5. IsFiniteSet(1..Len(m_metrics))
  BY <1>3, FS_Interval
<1> QED BY <1>1, <1>3, <1>4, <1>5, FS_CountingElements, FS_Bijection

\* A record with ok set is about a request the server carried out, and each about another.
LEMMA GoodIs ==
  ASSUME SimInv, ReportInv, Done = Bots
  PROVE  LET good == Cardinality({i \in 1..Len(m_metrics) : m_metrics[i].ok})
         IN  good \in Nat /\ good <= Cardinality(UNION {Succeeded(b) : b \in Bots})
<1> DEFINE G == {i \in 1..Len(m_metrics) : m_metrics[i].ok}
           T == UNION {Succeeded(b) : b \in Bots}
<1>1. PICK f : Origin(f)
  BY DEF ReportInv, CollectorInv
<1>2. /\ f \in [1..Len(m_metrics) -> Collected]
      /\ \A i, j \in 1..Len(m_metrics) : f[i] = f[j] => i = j
      /\ \A i \in 1..Len(m_metrics) : m_metrics[i] = Reports(f[i][1])[f[i][2]]
  BY <1>1, Fun_BijectionProperties DEF Origin
<1>3. ASSUME NEW i \in 1..Len(m_metrics)
      PROVE  /\ f[i][1] \in Bots /\ f[i][2] \in 1..Len(Reports(f[i][1]))
             /\ f[i] = <<f[i][1], f[i][2]>>
  <2>1. f[i] \in Collected
    BY <1>2
  <2>2. PICK b \in Bots : f[i] \in {b} \X (1..Len(Reports(b)))
    BY <2>1 DEF Collected
  <2> QED BY <2>2
<1>4. ASSUME NEW i \in G
      PROVE  LET b == f[i][1]
                 k == f[i][2]
                 r == m_metrics[i].reply
             IN  /\ b \in Bots /\ k \in 1..Len(m_localMetrics[b]) /\ r > 0
                 /\ m_localMetrics[b][k].reply = r
                 /\ r \in 1..Len(handled[b]) /\ handled[b][r]
  <2> DEFINE b == f[i][1]
             k == f[i][2]
  <2>1. i \in 1..Len(m_metrics) /\ m_metrics[i].ok
    OBVIOUS
  <2>2. b \in Bots /\ k \in 1..Len(Reports(b)) /\ m_metrics[i] = Reports(b)[k]
    BY <1>2, <1>3, <2>1
  <2> HIDE DEF b, k
  <2>3. Reports(b)[k].reply > 0
    BY <2>1, <2>2, ReportsAre
  <2>4. /\ k \in 1..Len(m_localMetrics[b]) /\ Reports(b)[k] = m_localMetrics[b][k]
        /\ RecordInv(b, k)
    BY <2>2, <2>3, ReportsAre
  <2>5. /\ m_localMetrics[b][k].reply \in 1..Len(handled[b])
        /\ m_localMetrics[b][k].ok = handled[b][m_localMetrics[b][k].reply]
    BY <2>3, <2>4 DEF RecordInv
  <2>6. /\ b \in Bots /\ k \in 1..Len(m_localMetrics[b]) /\ m_metrics[i].reply > 0
        /\ m_localMetrics[b][k].reply = m_metrics[i].reply
        /\ m_metrics[i].reply \in 1..Len(handled[b]) /\ handled[b][m_metrics[i].reply]
    BY <2>1, <2>2, <2>3, <2>4, <2>5
  <2> QED BY <2>6 DEF b, k
<1> DEFINE h == [i \in G |-> <<f[i][1], m_metrics[i].reply>>]
<1>5. h \in [G -> T]
  <2> SUFFICES ASSUME NEW i \in G PROVE <<f[i][1], m_metrics[i].reply>> \in T
    OBVIOUS
  <2> HIDE DEF G, h
  <2>1. f[i][1] \in Bots /\ <<f[i][1], m_metrics[i].reply>> \in Succeeded(f[i][1])
    BY <1>4 DEF Succeeded
  <2> QED BY <2>1
<1>6. ASSUME NEW i \in G, NEW j \in G, h[i] = h[j] PROVE i = j
  <2> DEFINE b == f[i][1]
             r == m_metrics[i].reply
  <2>1. <<f[i][1], m_metrics[i].reply>> = <<f[j][1], m_metrics[j].reply>>
    BY <1>6
  <2>2. f[j][1] = b /\ m_metrics[j].reply = r
    BY <2>1, Zenon
  <2> HIDE DEF G, h
  <2>3. /\ f[i][2] \in 1..Len(m_localMetrics[b]) /\ f[j][2] \in 1..Len(m_localMetrics[b])
        /\ m_localMetrics[b][f[i][2]].reply = r /\ m_localMetrics[b][f[j][2]].reply = r
        /\ r > 0 /\ b \in Bots
    BY <1>4, <2>2
  <2>4. f[i][2] = f[j][2]
    <3>1. OnceInv(b)
      BY <2>3 DEF ReportInv
    <3> QED BY <2>3, <3>1 DEF OnceInv
  <2>5. i \in 1..Len(m_metrics) /\ j \in 1..Len(m_metrics)
    BY DEF G
  <2>6. f[i] = f[j]
    BY <1>3, <2>2, <2>4, <2>5, Zenon
  <2> QED BY <1>2, <2>5, <2>6
<1>7. IsFiniteSet(T)
  <2>1. ASSUME NEW b \in Bots PROVE Succeeded(b) \subseteq Made(b)
    <3>1. Len(handled[b]) <= Len(asked[b]) /\ Len(handled[b]) \in Nat /\ Len(asked[b]) \in Nat
      BY BotTypes, HandledAtMost DEF SimInv, BotInv
    <3>2. asked[b] = <<>> => Len(asked[b]) = 0
      OBVIOUS
    <3> QED BY <3>1, <3>2 DEF Succeeded, Made
  <2>2. T \subseteq UNION {Made(b) : b \in Bots}
    BY <2>1
  <2> HIDE DEF T
  <2> QED BY <2>2, TotalIs, FS_Subset
<1>8. Cardinality(G) <= Cardinality(T)
  <2>1. h \in Injection(G, T)
    <3> HIDE DEF G, T, h
    <3> QED BY <1>5, <1>6, Fun_IsInj
  <2> HIDE DEF G, T, h
  <2> QED BY <1>7, <2>1, FS_Injection
<1>9. Cardinality(G) \in Nat
  <2>1. IsFiniteSet(1..Len(m_metrics))
    <3>1. Len(m_metrics) \in Nat
      BY DEF SimInv, SimTypeOK
    <3> QED BY <3>1, FS_Interval
  <2>2. G \subseteq 1..Len(m_metrics)
    OBVIOUS
  <2> HIDE DEF G
  <2> QED BY <2>1, <2>2, FS_Subset, FS_CardinalityType
<1> QED BY <1>8, <1>9

\* A reply took its time, and the record of it is in the collector.
LEMMA AnsweredIs ==
  ASSUME SimInv, ReportInv, Done = Bots,
         NEW b \in Bots, NEW n \in 1..Len(m_localMetrics[b]), m_localMetrics[b][n].reply > 0
  PROVE  \E i \in 1..Len(m_metrics) : m_metrics[i].lat = 1
<1>1. asked[b] # <<>> /\ Reports(b) = m_localMetrics[b]
  BY ReportsAre DEF Reports
<1>2. m_localMetrics[b][n].lat = 1
  BY DEF ReportInv, OnceInv, RecordInv
<1>3. <<b, n>> \in Collected
  BY <1>1 DEF Collected
<1>4. PICK f : Origin(f)
  BY DEF ReportInv, CollectorInv
<1>5. PICK i \in 1..Len(m_metrics) : f[i] = <<b, n>>
  BY <1>3, <1>4, Fun_BijectionProperties DEF Origin
<1>6. m_metrics[i] = m_localMetrics[b][n]
  BY <1>1, <1>4, <1>5 DEF Origin
<1> QED BY <1>2, <1>6

LEMMA SummaryIs ==
  ASSUME SimInv, ReportInv, Done = Bots, NEW s, s = computeSummary(m_metrics)
  PROVE  /\ s.total = Cardinality(UNION {Made(b) : b \in Bots})
         /\ s.total = s.ok + s.failed
         /\ s.ok <= Cardinality(UNION {Succeeded(b) : b \in Bots})
         /\ s.p50 <= s.p95 /\ s.p95 <= s.p99 /\ s.p99 <= s.max
         /\ (\E b \in Bots : \E n \in 1..Len(m_localMetrics[b]) : m_localMetrics[b][n].reply > 0)
               => s.max > 0
<1> DEFINE n == Len(m_metrics)
           t == Sorted(Lats(m_metrics))
           good == Cardinality({i \in 1..n : m_metrics[i].ok})
<1>1. m_metrics \in Seq(Record) /\ n \in Nat
  BY DEF SimInv, SimTypeOK
<1>2. n = Cardinality(UNION {Made(b) : b \in Bots})
  BY TotalIs, Zenon
<1>3. good \in Nat /\ good <= Cardinality(UNION {Succeeded(b) : b \in Bots})
  BY GoodIs
<1>4. ASSUME NEW b \in Bots, NEW k \in 1..Len(m_localMetrics[b]), m_localMetrics[b][k].reply > 0
      PROVE  \E i \in 1..n : m_metrics[i].lat = 1
  BY <1>4, AnsweredIs
<1>5. CASE n = 0
  <2>1. s = [total |-> 0, ok |-> 0, failed |-> 0, p50 |-> 0, p95 |-> 0, p99 |-> 0, max |-> 0]
    BY <1>5 DEF computeSummary
  <2>2. 1..n = {}
    BY <1>5
  <2>3. {i \in 1..n : m_metrics[i].ok} = {}
    BY <2>2
  <2>4. good = 0
    BY <2>3, FS_EmptySet
  <2>5. ~\E b \in Bots : \E k \in 1..Len(m_localMetrics[b]) : m_localMetrics[b][k].reply > 0
    <3> HIDE DEF n
    <3> QED BY <1>4, <2>2
  <2>6. /\ s.total = 0 /\ s.ok = 0 /\ s.failed = 0
        /\ s.p50 = 0 /\ s.p95 = 0 /\ s.p99 = 0 /\ s.max = 0
    BY <2>1
  <2> HIDE DEF n, good
  <2> QED BY <1>2, <1>3, <1>5, <2>4, <2>5, <2>6
<1>6. CASE n # 0
  <2>1. s = [total |-> n, ok |-> good, failed |-> n - good,
             p50 |-> Percentile(t, 50), p95 |-> Percentile(t, 95),
             p99 |-> Percentile(t, 99), max |-> Last(t)]
    BY <1>6 DEF computeSummary, Lats
  <2>2. /\ Lats(m_metrics) \in Seq({0, 1}) /\ Len(Lats(m_metrics)) = n
        /\ \A i \in 1..n : Lats(m_metrics)[i] = m_metrics[i].lat
    <3>1. \A x \in Record : x.lat \in {0, 1}
      BY DEF Record
    <3>2. \A i \in 1..n : m_metrics[i].lat \in {0, 1}
      <4>1. \A i \in 1..n : m_metrics[i] \in Record
        BY <1>1
      <4> HIDE DEF n
      <4> QED BY <3>1, <4>1
    <3> QED BY <1>1, <3>2 DEF Lats
  <2>3. /\ t \in [1..n -> {0, 1}] /\ \A i, j \in 1..n : i <= j => t[i] <= t[j]
        /\ (\E i \in 1..n : m_metrics[i].lat = 1) => \E i \in 1..n : t[i] = 1
    <3> HIDE DEF n
    <3> QED BY <2>2, SortedIs
  <2>4. Len(t) = n
    <3> HIDE DEF n, t
    <3> QED BY <1>1, <2>3
  <2>5. /\ Percentile(t, 50) <= Percentile(t, 95) /\ Percentile(t, 95) <= Percentile(t, 99)
        /\ Percentile(t, 99) <= Last(t) /\ Last(t) = t[n]
    <3>1. n \in Nat \ {0}
      BY <1>1, <1>6
    <3> HIDE DEF n, t
    <3> QED BY <2>3, <2>4, <3>1, PercentileIs
  <2>6. (\E i \in 1..n : m_metrics[i].lat = 1) => Last(t) > 0
    <3> HIDE DEF n, t
    <3>1. n \in 1..n /\ \A i \in 1..n : i <= n
      BY <1>1, <1>6
    <3> QED BY <2>3, <2>5, <3>1
  <2> HIDE DEF n, t, good
  <2>7. n = good + (n - good)
    BY <1>1, <1>3
  <2>8. /\ s.total = n /\ s.ok = good /\ s.failed = n - good /\ s.p50 = Percentile(t, 50)
        /\ s.p95 = Percentile(t, 95) /\ s.p99 = Percentile(t, 99) /\ s.max = Last(t)
    BY <2>1
  <2> QED BY <1>2, <1>3, <1>4, <2>5, <2>6, <2>7, <2>8
<1> QED BY <1>5, <1>6

\* Simulator::run and computeSummary: the report has every request of every bot and
\* every failed connect once, counts no success the server does not know of, has its
\* percentiles in order, and a maximum of 0 only if no reply came at all.
THEOREM SummaryCorrect == SimSpec => []SummaryTrue
<1>1. SimInv /\ ReportInv => SummaryTrue
  <2> SUFFICES ASSUME SimInv, ReportInv, NEW k \in 1..Len(summary)
               PROVE  LET s == summary[k]
                      IN  /\ s.total = Cardinality(UNION {Made(b) : b \in Bots})
                          /\ s.total = s.ok + s.failed
                          /\ s.ok <= Cardinality(UNION {Succeeded(b) : b \in Bots})
                          /\ s.p50 <= s.p95 /\ s.p95 <= s.p99 /\ s.p99 <= s.max
                          /\ (\E b \in Bots : \E n \in 1..Len(m_localMetrics[b]) :
                                m_localMetrics[b][n].reply > 0) => s.max > 0
    BY Zenon DEF SummaryTrue, Made, Succeeded
  <2>1. summary # <<>>
    OBVIOUS
  <2>2. summary = <<computeSummary(m_metrics)>> /\ Done = Bots
    BY <2>1 DEF ReportInv, SummaryInv
  <2>3. k = 1 /\ summary[k] = computeSummary(m_metrics)
    BY <2>2
  <2> QED BY <2>2, <2>3, SummaryIs
<1> QED BY <1>1, SimSpec_Report, PTL

=============================================================================
