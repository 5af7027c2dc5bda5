--------------------------- MODULE VtsNode_proofs ---------------------------
(***************************************************************************)
(* Proofs about VtsNode for rings of any length, counters of any width and *)
(* any zones: what the rings hold and what the counters have counted.      *)
(***************************************************************************)
EXTENDS VtsNode, Recursion, FiniteSetTheorems, TLAPS

-----------------------------------------------------------------------------
(* Arithmetic of the ring *)

(* Once round a ring or a counter of n values. *)
LEMMA Modulo ==
  ASSUME NEW n \in Nat, n > 0
  PROVE  /\ \A x \in 0..(n - 1) : x % n = x
         /\ \A x \in n..(2 * n - 1) : x % n = x - n
  OBVIOUS

(* The same for the positions of a ring. *)
LEMMA RingModulo ==
  /\ \A x \in Pos : x % QUEUE_LEN = x
  /\ \A x \in QUEUE_LEN..(2 * QUEUE_LEN - 1) : x % QUEUE_LEN = x - QUEUE_LEN
<1>1. QUEUE_LEN \in Nat /\ QUEUE_LEN > 0
  BY NodeAssumption
<1>2. \A x \in 0..(QUEUE_LEN - 1) : x % QUEUE_LEN = x
  BY <1>1, Modulo
<1>3. \A x \in QUEUE_LEN..(2 * QUEUE_LEN - 1) : x % QUEUE_LEN = x - QUEUE_LEN
  BY <1>1, Modulo
<1> QED
  BY <1>2, <1>3 DEF Pos

(* The position after i. *)
LEMMA NextPosition ==
  ASSUME NEW i \in Pos
  PROVE  /\ NextPos(i) \in Pos
         /\ NextPos(i) = IF i = QUEUE_LEN - 1 THEN 0 ELSE i + 1
<1>1. QUEUE_LEN \in Nat /\ QUEUE_LEN > 1
  BY NodeAssumption
<1>2. CASE i = QUEUE_LEN - 1
  BY <1>1, <1>2, RingModulo DEF Pos, NextPos
<1>3. CASE i # QUEUE_LEN - 1
  BY <1>1, <1>3, RingModulo DEF Pos, NextPos
<1> QED
  BY <1>2, <1>3
-----------------------------------------------------------------------------
(* The inductive invariant *)

(* The ring q is full and holds the newest samples of l. *)
RingInv(q, l) ==
  /\ q \in Rings /\ q.front = NextPos(q.rear)
  /\ Entries(q) = NewestOf(l)

(* What the counter c has counted is sum. *)
Counted(c, sum) == c \in Counters /\ c.n + W * c.oc = sum

Histograms == [1..Len(Buckets) -> 0..(W - 1)]

(* The samples of l that the i-th bucket counts, and that b counts them.   *)
Below(l, i) == {j \in DOMAIN l : l[j].msec <= Buckets[i]}

Observed(b, l) ==
  b \in Histograms /\ \A i \in 1..Len(Buckets) : b[i] = Cardinality(Below(l, i)) % W

(* A series whose samples are l and add up to sum since the last reset.    *)
SeriesInv(t, l, sum) ==
  /\ t = [total |-> t.total, time |-> t.time,
          times |-> t.times, buckets |-> t.buckets]
  /\ Counted(t.total, sum)
  /\ RingInv(t.times, l)
  /\ Observed(t.buckets, l)

(* A node of z with the samples l and the sums c. *)
NodeInv(z, n, l, c) ==
  /\ n = [requests |-> n.requests, s |-> n.s]
  /\ n.s = [s \in Series(z) |-> n.s[s]]
  /\ Counted(n.requests, c.requests)
  /\ \A s \in Series(z) : SeriesInv(n.s[s], l[s], c.msec[s])

NoLog(z) == [s \in Series(z) |-> <<>>]

HistoryInv ==
  /\ now \in Nat
  /\ node = [z \in Zones |-> node[z]]
  /\ log = [z \in Zones |-> log[z]]
  /\ since = [z \in Zones |-> since[z]]
  /\ \A z \in Zones :
       /\ log[z] \in [Series(z) -> Seq(Samples)]
       /\ since[z] \in [requests : Nat, msec : [Series(z) -> Nat]]

ZoneInv(z) ==
  IF node[z] = Nil THEN log[z] = NoLog(z) /\ since[z] = NothingSince(z)
                   ELSE NodeInv(z, node[z], log[z], since[z])

IInv == HistoryInv /\ \A z \in Zones : ZoneInv(z)
-----------------------------------------------------------------------------
(* The ring *)

(* A ring that is full has QUEUE_LEN - 1 entries. *)
LEMMA FullLength ==
  ASSUME NEW q, q \in Rings, q.front = NextPos(q.rear)
  PROVE  Length(q) = QUEUE_LEN - 1
<1>1. q.rear \in Pos /\ q.front \in Pos
  BY DEF Rings
<1>2. CASE q.rear = QUEUE_LEN - 1
  <2>1. q.rear + QUEUE_LEN - q.front = QUEUE_LEN + QUEUE_LEN - 1
    BY <1>1, <1>2, NextPosition, NodeAssumption DEF Pos
  <2> QED
    BY <2>1, RingModulo, NodeAssumption DEF Length
<1>3. CASE q.rear # QUEUE_LEN - 1
  <2>1. q.rear + QUEUE_LEN - q.front = QUEUE_LEN - 1
    <3>1. q.front = q.rear + 1
      BY <1>1, <1>3, NextPosition
    <3> QED
      BY <1>1, <3>1, NodeAssumption DEF Pos
  <2> QED
    BY <2>1, RingModulo, NodeAssumption DEF Length, Pos
<1> QED
  BY <1>2, <1>3

(* Hence computing an average never resets it. *)
LEMMA AverageKeepsRing ==
  ASSUME NEW q, NEW l, RingInv(q, l)
  PROVE  averaged(q) = q
  BY FullLength, NodeAssumption DEF RingInv, averaged

(* A new ring is full of entries without a sample. *)
LEMMA InitialRing == RingInv(time_queue_init, <<>>)
<1> DEFINE q == time_queue_init
<1>1. q \in Rings
  BY NodeAssumption DEF time_queue_init, Rings, NoSample, Samples, Pos
<1>2. q.front = NextPos(q.rear)
  BY NextPosition, NodeAssumption DEF time_queue_init, Pos
<1>3. Length(q) = QUEUE_LEN - 1
  BY <1>1, <1>2, FullLength
<1>4. \A i \in 1..(QUEUE_LEN - 1) : (q.front + i - 1) % QUEUE_LEN \in Pos
  BY RingModulo, NodeAssumption DEF time_queue_init, Pos
<1>5. Entries(q) = [i \in 1..(QUEUE_LEN - 1) |-> NoSample]
  BY <1>3, <1>4 DEF Entries, time_queue_init
<1>6. NewestOf(<<>>) = [i \in 1..(QUEUE_LEN - 1) |-> NoSample]
  BY NodeAssumption DEF NewestOf
<1> QED
  BY <1>1, <1>2, <1>5, <1>6 DEF RingInv

(* Where the i-th entry of a ring with front a is. *)
Index(a, i) == (a + i - 1) % QUEUE_LEN

(* Index wraps at most once. *)
LEMMA IndexValue ==
  ASSUME NEW a \in Pos, NEW i \in 1..(QUEUE_LEN - 1)
  PROVE  Index(a, i) = IF a + i - 1 < QUEUE_LEN THEN a + i - 1
                                                ELSE a + i - 1 - QUEUE_LEN
<1>1. CASE a + i - 1 < QUEUE_LEN
  BY <1>1, RingModulo, NodeAssumption DEF Pos, Index
<1>2. CASE ~(a + i - 1 < QUEUE_LEN)
  <2>1. a \in Int /\ i \in Int /\ QUEUE_LEN \in Int
    BY NodeAssumption DEF Pos
  <2>2. PICK x \in QUEUE_LEN..(2 * QUEUE_LEN - 1) : x = a + i - 1
    BY <1>2, NodeAssumption DEF Pos
  <2>3. x % QUEUE_LEN = x - QUEUE_LEN
    BY RingModulo
  <2>4. Index(a, i) = x % QUEUE_LEN
    BY <2>2 DEF Index
  <2> QED
    BY <1>2, <2>1, <2>2, <2>3, <2>4
<1> QED
  BY <1>1, <1>2

(* When the ring moves on by one, every entry stays where it is but one.   *)
LEMMA RingTurn ==
  ASSUME NEW r \in Pos, NEW f \in Pos, f = NextPos(r), NEW g, g = NextPos(f)
  PROVE  /\ \A i \in 1..(QUEUE_LEN - 1) : Index(g, i) \in Pos
         /\ \A i \in 1..(QUEUE_LEN - 1 - 1) : /\ Index(g, i) = Index(f, i + 1)
                                              /\ Index(g, i) # r
         /\ Index(g, QUEUE_LEN - 1) = r
<1>1. /\ g \in Pos
      /\ f = IF r = QUEUE_LEN - 1 THEN 0 ELSE r + 1
      /\ g = IF f = QUEUE_LEN - 1 THEN 0 ELSE f + 1
  BY NextPosition
<1>2. ASSUME NEW i \in 1..(QUEUE_LEN - 1)
      PROVE  Index(g, i) \in Pos
  <2>1. Index(g, i) = IF g + i - 1 < QUEUE_LEN THEN g + i - 1
                                               ELSE g + i - 1 - QUEUE_LEN
    BY <1>1, IndexValue
  <2> QED
    BY <1>1, <2>1, NodeAssumption DEF Pos
<1>3. ASSUME NEW i \in 1..(QUEUE_LEN - 1 - 1)
      PROVE  Index(g, i) = Index(f, i + 1) /\ Index(g, i) # r
  <2>1. i \in 1..(QUEUE_LEN - 1) /\ i + 1 \in 1..(QUEUE_LEN - 1)
    BY NodeAssumption
  <2>2. /\ Index(g, i) = IF g + i - 1 < QUEUE_LEN THEN g + i - 1
                                                  ELSE g + i - 1 - QUEUE_LEN
        /\ Index(f, i + 1) = IF f + (i + 1) - 1 < QUEUE_LEN
                               THEN f + (i + 1) - 1
                               ELSE f + (i + 1) - 1 - QUEUE_LEN
    BY <1>1, <2>1, IndexValue
  <2>3. /\ QUEUE_LEN \in Nat /\ QUEUE_LEN > 1
        /\ r \in Nat /\ r < QUEUE_LEN /\ i \in Nat /\ 1 <= i /\ i < QUEUE_LEN - 1
    BY <2>1, NodeAssumption DEF Pos
  <2>4. CASE r = QUEUE_LEN - 1
    <3>1. f = 0 /\ g = 1
      BY <1>1, <2>3, <2>4
    <3> QED
      BY <2>2, <2>3, <2>4, <3>1
  <2>5. CASE r = QUEUE_LEN - 1 - 1
    <3>1. f = QUEUE_LEN - 1 /\ g = 0
      BY <1>1, <2>3, <2>5
    <3> QED
      BY <2>2, <2>3, <2>5, <3>1
  <2>6. CASE r < QUEUE_LEN - 1 - 1
    <3>1. f = r + 1 /\ g = r + 2
      BY <1>1, <2>3, <2>6
    <3> QED
      BY <2>2, <2>3, <2>6, <3>1
  <2> QED
    BY <2>3, <2>4, <2>5, <2>6
<1>4. Index(g, QUEUE_LEN - 1) = r
  <2>1. Index(g, QUEUE_LEN - 1) =
          IF g + (QUEUE_LEN - 1) - 1 < QUEUE_LEN
            THEN g + (QUEUE_LEN - 1) - 1
            ELSE g + (QUEUE_LEN - 1) - 1 - QUEUE_LEN
    BY <1>1, IndexValue, NodeAssumption
  <2> QED
    BY <1>1, <2>1, NodeAssumption DEF Pos
<1> QED
  BY <1>2, <1>3, <1>4

(* Popping one sample and pushing the next never finds the ring empty or   *)
(* full, whatever its length.                                              *)
LEMMA InsertTurns ==
  ASSUME NEW q, q \in Rings, q.front = NextPos(q.rear), NEW e \in Samples
  PROVE  time_queue_insert(q, e) =
           [times |-> [q.times EXCEPT ![q.rear] = e],
            front |-> NextPos(q.front), rear |-> q.front]
<1>1. q.rear \in Pos /\ q.front \in Pos
  BY DEF Rings
<1>2. q.front # q.rear /\ NextPos(q.front) # q.front
  BY <1>1, NextPosition, NodeAssumption DEF Pos
<1>3. q = [times |-> q.times, front |-> q.front, rear |-> q.rear]
  BY DEF Rings
<1>4. time_queue_pop(q) = [times |-> q.times, front |-> NextPos(q.front),
                           rear |-> q.rear]
  BY <1>3 DEF time_queue_pop
<1>5. ~Empty(q) /\ ~Full(time_queue_pop(q))
  BY <1>2, <1>4 DEF Empty, Full
<1>6. time_queue_push(time_queue_pop(q), e) =
        [times |-> [q.times EXCEPT ![q.rear] = e],
         front |-> NextPos(q.front), rear |-> q.front]
  <2>1. /\ time_queue_pop(q).times = q.times
        /\ time_queue_pop(q).rear = q.rear
    BY <1>4
  <2>2. time_queue_push(time_queue_pop(q), e) =
          [[times |-> q.times, front |-> NextPos(q.front), rear |-> q.rear]
             EXCEPT !.times = [q.times EXCEPT ![q.rear] = e], !.rear = q.front]
    BY <2>1, <1>4 DEF time_queue_push
  <2> HIDE DEF time_queue_push
  <2> QED
    BY <2>2
<1> QED
  BY <1>5, <1>6 DEF time_queue_insert

(* The ring after an insertion holds the newest samples with the new one.  *)
LEMMA InsertKeepsNewest ==
  ASSUME NEW q, NEW l \in Seq(Samples), RingInv(q, l), NEW e \in Samples
  PROVE  RingInv(time_queue_insert(q, e), Append(l, e))
<1> DEFINE p == time_queue_insert(q, e)
           N == QUEUE_LEN - 1
<1>1. q \in Rings /\ q.front = NextPos(q.rear) /\ Entries(q) = NewestOf(l)
  BY DEF RingInv
<1>2. q.rear \in Pos /\ q.front \in Pos /\ q.times \in [Pos -> Samples]
  BY <1>1 DEF Rings
<1>3. p = [times |-> [q.times EXCEPT ![q.rear] = e],
           front |-> NextPos(q.front), rear |-> q.front]
  BY <1>1, InsertTurns
<1>4. p \in Rings /\ p.front = NextPos(p.rear)
  BY <1>2, <1>3, NextPosition DEF Rings
<1>5. Length(q) = N /\ Length(p) = N
  BY <1>1, <1>4, FullLength
<1>6. Entries(p) = NewestOf(Append(l, e))
  <2>a. p.front = NextPos(q.front)
    BY <1>3
  <2>b. /\ \A i \in 1..N : Index(p.front, i) \in Pos
        /\ \A i \in 1..(N - 1) : /\ Index(p.front, i) = Index(q.front, i + 1)
                                 /\ Index(p.front, i) # q.rear
        /\ Index(p.front, N) = q.rear
    BY <1>1, <1>2, <2>a, RingTurn
  <2>4. \A i \in 1..(N - 1) : p.times[Index(p.front, i)] = NewestOf(l)[i + 1]
    <3>1. \A i \in 1..N : NewestOf(l)[i] = q.times[Index(q.front, i)]
      BY <1>1, <1>5 DEF Entries, Index
    <3>2. p.times = [q.times EXCEPT ![q.rear] = e]
      BY <1>3
    <3>3. \A i \in 1..(N - 1) : i \in 1..N /\ i + 1 \in 1..N
      BY NodeAssumption
    <3>4. \A i \in 1..(N - 1) : p.times[Index(p.front, i)] =
            q.times[Index(q.front, i + 1)]
      BY <1>2, <2>b, <3>2, <3>3
    <3> QED
      BY <3>1, <3>3, <3>4
  <2>5. p.times[Index(p.front, N)] = e
    BY <1>2, <1>3, <2>b, NodeAssumption
  <2>6. \A i \in 1..(N - 1) : NewestOf(l)[i + 1] = NewestOf(Append(l, e))[i]
    BY NodeAssumption DEF NewestOf
  <2>7. NewestOf(Append(l, e))[N] = e
    BY NodeAssumption DEF NewestOf
  <2>8. Entries(p) = [i \in 1..N |-> p.times[Index(p.front, i)]]
    BY <1>5 DEF Entries, Index
  <2>9. NewestOf(Append(l, e)) = [i \in 1..N |-> NewestOf(Append(l, e))[i]]
    BY DEF NewestOf
  <2>10. \A i \in 1..N : p.times[Index(p.front, i)] = NewestOf(Append(l, e))[i]
    <3>1. \A i \in 1..N : i \in 1..(N - 1) \/ i = N
      BY NodeAssumption
    <3> QED
      BY <3>1, <2>4, <2>5, <2>6, <2>7
  <2> QED
    BY <2>8, <2>9, <2>10
<1> QED
  BY <1>4, <1>6 DEF RingInv
-----------------------------------------------------------------------------
(* The counters *)

(* One addition is exact, whether the counter wraps or not. *)
LEMMA CountExact ==
  ASSUME NEW c, NEW sum \in Nat, Counted(c, sum), NEW k \in 0..(W - 1)
  PROVE  Counted(Count(c, k), sum + k)
<1>1. c.n \in 0..(W - 1) /\ c.oc \in Nat /\ W \in Nat /\ W > 1
  BY NodeAssumption DEF Counted, Counters
<1>m. /\ \A x \in 0..(W - 1) : x % W = x
      /\ \A x \in W..(2 * W - 1) : x % W = x - W
  BY <1>1, Modulo
<1>2. CASE c.n + k < W
  <2>1. Count(c, k) = [n |-> c.n + k, oc |-> c.oc]
    BY <1>1, <1>2, <1>m DEF Count
  <2> QED
    BY <1>1, <1>2, <2>1 DEF Counted, Counters
<1>3. CASE c.n + k >= W
  <2>0. c.n + k \in W..(2 * W - 1)
    BY <1>1, <1>3
  <2>1. Count(c, k) = [n |-> c.n + k - W, oc |-> c.oc + 1]
    <3>1. (c.n + k) % W = c.n + k - W /\ c.n > c.n + k - W
      BY <1>1, <1>m, <2>0
    <3> QED
      BY <3>1 DEF Count
  <2>2. W * (c.oc + 1) = W * c.oc + W
    BY <1>1
  <2>3. c.n + k - W \in 0..(W - 1) /\ c.oc + 1 \in Nat
    BY <1>1, <1>3
  <2>4. c.n + W * c.oc = sum /\ W * c.oc \in Nat
    BY <1>1 DEF Counted
  <2>5. (c.n + k - W) + W * (c.oc + 1) = sum + k
    <3>1. (c.n + k - W) + (W * c.oc + W) = (c.n + W * c.oc) + k
      BY <1>1, <2>4
    <3> QED
      BY <2>2, <2>4, <3>1
  <2> QED
    BY <2>1, <2>3, <2>5 DEF Counted, Counters
<1> QED
  BY <1>1, <1>2, <1>3

(* A zeroed counter has counted nothing. *)
LEMMA ZeroCounted == Counted(Zero, 0)
  BY NodeAssumption DEF Counted, Counters, Zero

(* A counter that wraps counts modulo its width. *)
LEMMA CountsModulo ==
  ASSUME NEW x \in Nat
  PROVE  ((x % W) + 1) % W = (x + 1) % W
<1> DEFINE q == x \div W
           r == x % W
<1>1. W \in Nat /\ W > 1
  BY NodeAssumption
<1>2. q \in Nat /\ r \in 0..(W - 1) /\ x = q * W + r
  BY <1>1
<1>3. ASSUME NEW p \in Nat, NEW s \in 0..(W - 1) PROVE (p * W + s) % W = s
  BY <1>1
<1>4. CASE r + 1 < W
  <2>1. x + 1 = q * W + (r + 1) /\ r + 1 \in 0..(W - 1) /\ r + 1 = 0 * W + (r + 1)
    BY <1>1, <1>2, <1>4
  <2> HIDE DEF q, r
  <2>2. (x + 1) % W = r + 1 /\ (r + 1) % W = r + 1
    BY <1>2, <1>3, <2>1
  <2> QED
    BY <2>2 DEF r
<1>5. CASE r + 1 = W
  <2>1. x + 1 = (q + 1) * W + 0 /\ r + 1 = 1 * W + 0 /\ q + 1 \in Nat /\ 0 \in 0..(W - 1)
    BY <1>1, <1>2, <1>5
  <2> HIDE DEF q, r
  <2>2. (x + 1) % W = 0 /\ (r + 1) % W = 0
    BY <1>3, <2>1
  <2> QED
    BY <2>2 DEF r
<1> QED
  BY <1>1, <1>2, <1>4, <1>5

(* A new sample is one more below a bound, or none. *)
LEMMA BelowAppend ==
  ASSUME NEW l \in Seq(Samples), NEW e \in Samples, NEW i \in 1..Len(Buckets)
  PROVE  /\ Cardinality(Below(l, i)) \in Nat
         /\ Cardinality(Below(Append(l, e), i)) =
              Cardinality(Below(l, i)) + (IF e.msec <= Buckets[i] THEN 1 ELSE 0)
<1> DEFINE n == Len(l) + 1
<1>1. Len(l) \in Nat /\ DOMAIN l = 1..Len(l) /\ n \notin DOMAIN l
  OBVIOUS
<1>2. IsFiniteSet(Below(l, i)) /\ Cardinality(Below(l, i)) \in Nat
  <2>1. IsFiniteSet(1..Len(l)) /\ Below(l, i) \subseteq 1..Len(l)
    BY <1>1, FS_Interval DEF Below
  <2> QED
    BY <2>1, FS_Subset, FS_CardinalityType
<1>3. /\ DOMAIN Append(l, e) = DOMAIN l \cup {n} /\ Append(l, e)[n] = e
      /\ \A j \in DOMAIN l : Append(l, e)[j] = l[j]
  BY <1>1
<1>4. Below(Append(l, e), i) =
        Below(l, i) \cup (IF e.msec <= Buckets[i] THEN {n} ELSE {})
  BY <1>1, <1>3 DEF Below
<1>5. n \notin Below(l, i)
  BY <1>1 DEF Below
<1>6. Cardinality(Below(l, i) \cup {n}) = Cardinality(Below(l, i)) + 1
  BY <1>2, <1>5, FS_AddElement
<1>7. Below(l, i) \cup {} = Below(l, i)
  OBVIOUS
<1> HIDE DEF n
<1>8. CASE e.msec <= Buckets[i]
  BY <1>2, <1>4, <1>6, <1>8
<1>9. CASE ~(e.msec <= Buckets[i])
  BY <1>2, <1>4, <1>7, <1>9
<1> QED
  BY <1>8, <1>9

(* Every bucket that admits the sample counts it, and no other. *)
LEMMA ObserveCounts ==
  ASSUME NEW l \in Seq(Samples), NEW b, Observed(b, l), NEW e \in Samples
  PROVE  Observed(histogram_observe(b, e.msec), Append(l, e))
<1> DEFINE h == histogram_observe(b, e.msec)
<1>1. W \in Nat /\ W > 0
  BY NodeAssumption
<1>2. b \in Histograms /\ \A i \in 1..Len(Buckets) : b[i] = Cardinality(Below(l, i)) % W
  BY DEF Observed
<1>3. \A n \in 0..(W - 1) : (n + 1) % W \in 0..(W - 1)
  BY <1>1
<1>4. h \in Histograms
  BY <1>2, <1>3 DEF histogram_observe, Histograms
<1>5. ASSUME NEW i \in 1..Len(Buckets)
      PROVE  h[i] = Cardinality(Below(Append(l, e), i)) % W
  <2> DEFINE x == Cardinality(Below(l, i))
  <2>1. x \in Nat /\ b[i] = x % W
    BY <1>2, BelowAppend
  <2>2. CASE e.msec <= Buckets[i]
    <3>1. h[i] = (b[i] + 1) % W
      BY <2>2 DEF histogram_observe
    <3>2. Cardinality(Below(Append(l, e), i)) = x + 1
      BY <2>2, BelowAppend
    <3> HIDE DEF x, h
    <3> QED
      BY <2>1, <3>1, <3>2, CountsModulo
  <2>3. CASE ~(e.msec <= Buckets[i])
    <3>1. h[i] = b[i]
      BY <2>3 DEF histogram_observe
    <3>2. Cardinality(Below(Append(l, e), i)) = x + 0
      BY <2>3, BelowAppend
    <3> HIDE DEF x, h
    <3> QED
      BY <2>1, <3>1, <3>2
  <2> QED
    BY <2>2, <2>3
<1>6. Observed(h, Append(l, e))
  <2> HIDE DEF h
  <2> QED
    BY <1>4, <1>5 DEF Observed
<1> QED
  BY <1>6

(* An empty histogram has counted nothing. *)
LEMMA InitialObserved == Observed(histogram_bucket_init, <<>>)
<1>1. histogram_bucket_init \in Histograms
  BY NodeAssumption DEF histogram_bucket_init, Histograms
<1>2. ASSUME NEW i \in 1..Len(Buckets) PROVE Cardinality(Below(<<>>, i)) = 0
  <2>1. Below(<<>>, i) = {}
    BY DEF Below
  <2> QED
    BY <2>1, FS_EmptySet
<1>3. 0 % W = 0
  BY NodeAssumption
<1> QED
  BY <1>1, <1>2, <1>3 DEF Observed, histogram_bucket_init
-----------------------------------------------------------------------------
(* A series of durations *)

(* What is inserted is a sample. *)
LEMMA SampleType ==
  ASSUME now \in Nat, NEW ms \in Msecs
  PROVE  Sample(ms) \in Samples /\ ms \in Nat /\ ms \in 0..(W - 1)
  BY NodeAssumption DEF Sample, Samples

(* The first request of a zone. *)
LEMMA FirstTimeInv ==
  ASSUME now \in Nat, NEW ms \in Msecs
  PROVE  SeriesInv(FirstTime(ms), <<Sample(ms)>>, ms)
<1>1. Counted(Count(Zero, ms), ms)
  <2>1. Counted(Count(Zero, ms), 0 + ms)
    BY ZeroCounted, CountExact, SampleType
  <2> QED
    BY <2>1, SampleType
<1>2. RingInv(time_queue_insert(time_queue_init, Sample(ms)), <<Sample(ms)>>)
  <2>1. <<>> \in Seq(Samples) /\ Append(<<>>, Sample(ms)) = <<Sample(ms)>>
    BY SampleType
  <2> QED
    BY <2>1, InitialRing, InsertKeepsNewest, SampleType
<1>3. Observed(histogram_observe(histogram_bucket_init, ms), <<Sample(ms)>>)
  <2>1. <<>> \in Seq(Samples) /\ Append(<<>>, Sample(ms)) = <<Sample(ms)>>
    BY SampleType
  <2>2. Sample(ms).msec = ms
    BY DEF Sample
  <2> QED
    BY <2>1, <2>2, InitialObserved, ObserveCounts, SampleType
<1> QED
  BY <1>1, <1>2, <1>3 DEF FirstTime, SeriesInv

(* Every further one, whatever the averages come to. *)
LEMMA NextTimeInv ==
  ASSUME now \in Nat, NEW ms \in Msecs, NEW t, NEW l \in Seq(Samples),
         NEW sum \in Nat, SeriesInv(t, l, sum)
  PROVE  SeriesInv(NextTime(t, ms), Append(l, Sample(ms)), sum + ms)
<1> DEFINE q == time_queue_insert(t.times, Sample(ms))
<1>1. Counted(Count(t.total, ms), sum + ms)
  BY CountExact, SampleType DEF SeriesInv
<1>2. RingInv(q, Append(l, Sample(ms)))
  BY InsertKeepsNewest, SampleType DEF SeriesInv
<1>3. averaged(q) = q
  BY <1>2, AverageKeepsRing
<1>4. Observed(histogram_observe(t.buckets, ms), Append(l, Sample(ms)))
  <2>1. Sample(ms).msec = ms
    BY DEF Sample
  <2> QED
    BY <2>1, ObserveCounts, SampleType DEF SeriesInv
<1>5. NextTime(t, ms) =
        [total |-> Count(t.total, ms), time |-> time_queue_average(q),
         times |-> averaged(q), buckets |-> histogram_observe(t.buckets, ms)]
  BY DEF NextTime
<1> HIDE DEF q
<1> QED
  BY <1>1, <1>2, <1>3, <1>4, <1>5 DEF SeriesInv

(* cmd=reset: the ring and the histogram stay. *)
LEMMA ZeroInv ==
  ASSUME NEW t, NEW l, NEW sum, SeriesInv(t, l, sum)
  PROVE  SeriesInv([t EXCEPT !.total = Zero, !.time = 0], l, 0)
<1>1. [t EXCEPT !.total = Zero, !.time = 0] =
        [total |-> Zero, time |-> 0, times |-> t.times, buckets |-> t.buckets]
  <2>1. PICK a, b, q, h : t = [total |-> a, time |-> b, times |-> q, buckets |-> h]
    BY DEF SeriesInv
  <2>2. [t EXCEPT !.total = Zero]
          = [total |-> Zero, time |-> b, times |-> q, buckets |-> h]
    BY <2>1
  <2>3. ASSUME NEW u, u = [total |-> Zero, time |-> b, times |-> q, buckets |-> h]
        PROVE  [u EXCEPT !.time = 0]
                 = [total |-> Zero, time |-> 0, times |-> q, buckets |-> h]
    BY <2>3
  <2>4. [t EXCEPT !.total = Zero, !.time = 0]
          = [[t EXCEPT !.total = Zero] EXCEPT !.time = 0]
    OBVIOUS
  <2>5. t.times = q /\ t.buckets = h
    BY <2>1
  <2> QED
    BY <2>2, <2>3, <2>4, <2>5
<1> QED
  BY <1>1, ZeroCounted DEF SeriesInv
-----------------------------------------------------------------------------
(* The actions *)

(* A zone without nodes. *)
LEMMA InitInv == Init => IInv
<1> SUFFICES ASSUME Init PROVE IInv
  OBVIOUS
<1>1. HistoryInv
  BY NodeAssumption DEF Init, HistoryInv, NothingSince
<1>2. \A z \in Zones : ZoneInv(z)
  BY DEF Init, ZoneInv, NoLog
<1> QED
  BY <1>1, <1>2 DEF IInv

(* A node is not NULL. *)
LEMMA NodeIsNotNil ==
  ASSUME NEW z, NEW n, NEW l, NEW c, NodeInv(z, n, l, c)
  PROVE  n # Nil
<1>1. "requests" \in DOMAIN n
  BY DEF NodeInv
<1>2. "requests" \notin DOMAIN Nil
  BY DEF Nil
<1> QED
  BY <1>1, <1>2

(* An action that gives one zone a good node keeps the invariant. *)
LEMMA ZoneChanges ==
  ASSUME IInv, NEW z \in Zones, NEW n,
         NEW l \in [Series(z) -> Seq(Samples)],
         NEW c \in [requests : Nat, msec : [Series(z) -> Nat]],
         \/ n = Nil /\ l = NoLog(z) /\ c = NothingSince(z)
         \/ NodeInv(z, n, l, c),
         node' = [node EXCEPT ![z] = n], log' = [log EXCEPT ![z] = l],
         since' = [since EXCEPT ![z] = c], now' \in Nat
  PROVE  IInv'
<1>1. /\ node'[z] = n /\ log'[z] = l /\ since'[z] = c
      /\ \A y \in Zones \ {z} :
           node'[y] = node[y] /\ log'[y] = log[y] /\ since'[y] = since[y]
  BY DEF IInv, HistoryInv
<1>2. HistoryInv'
  BY <1>1 DEF IInv, HistoryInv, Series
<1>3. ZoneInv(z)'
  BY <1>1, NodeIsNotNil DEF ZoneInv
<1>4. ASSUME NEW y \in Zones \ {z} PROVE ZoneInv(y)'
  BY <1>1, <1>4 DEF IInv, ZoneInv
<1> QED
  BY <1>2, <1>3, <1>4 DEF IInv

(* A request: node_init for a new zone, node_set for one that is there. *)
LEMMA AddNodeInv ==
  ASSUME IInv, NEW z \in Zones, AddNode(z)
  PROVE  IInv'
<1>1. PICK m \in [Series(z) -> Msecs] :
        /\ node' = [node EXCEPT ![z] = IF @ = Nil THEN node_init(z, m)
                                                  ELSE node_set(z, m)]
        /\ log' = [log EXCEPT ![z] =
                     [s \in Series(z) |-> Append(@[s], Sample(m[s]))]]
        /\ since' = [since EXCEPT ![z] =
                       [requests |-> @.requests + 1,
                        msec |-> [s \in Series(z) |-> @.msec[s] + m[s]]]]
  BY DEF AddNode
<1> DEFINE l == [s \in Series(z) |-> Append(log[z][s], Sample(m[s]))]
           c == [requests |-> since[z].requests + 1,
                 msec |-> [s \in Series(z) |-> since[z].msec[s] + m[s]]]
           n == IF node[z] = Nil THEN node_init(z, m) ELSE node_set(z, m)
<1>2. now' = now /\ now \in Nat
  BY DEF AddNode, IInv, HistoryInv
<1>3. /\ log[z] \in [Series(z) -> Seq(Samples)]
      /\ since[z] \in [requests : Nat, msec : [Series(z) -> Nat]]
  BY DEF IInv, HistoryInv
<1>4. \A s \in Series(z) : Sample(m[s]) \in Samples /\ m[s] \in Nat
  BY <1>2, SampleType
<1>5. /\ l \in [Series(z) -> Seq(Samples)]
      /\ c \in [requests : Nat, msec : [Series(z) -> Nat]]
  BY <1>3, <1>4
<1>6. NodeInv(z, n, l, c)
  <2>1. 1 \in 0..(W - 1)
    BY NodeAssumption
  <2>2. CASE node[z] = Nil
    <3>1. log[z] = NoLog(z) /\ since[z] = NothingSince(z)
      BY <2>2 DEF IInv, ZoneInv
    <3>2. l = [s \in Series(z) |-> <<Sample(m[s])>>]
      BY <3>1 DEF NoLog
    <3>3. c.requests = 1 /\ \A s \in Series(z) : c.msec[s] = m[s]
      BY <3>1, <1>4 DEF NothingSince
    <3>4. Counted(Count(Zero, 1), 1)
      <4>1. Counted(Count(Zero, 1), 0 + 1)
        BY <2>1, ZeroCounted, CountExact
      <4> QED
        BY <4>1
    <3>5. \A s \in Series(z) : SeriesInv(FirstTime(m[s]), l[s], c.msec[s])
      BY <1>2, <3>2, <3>3, FirstTimeInv
    <3>6. n = [requests |-> Count(Zero, 1),
               s |-> [s \in Series(z) |-> FirstTime(m[s])]]
      BY <2>2 DEF node_init
    <3> HIDE DEF n, l, c
    <3> QED
      BY <3>3, <3>4, <3>5, <3>6 DEF NodeInv
  <2>3. CASE node[z] # Nil
    <3>1. NodeInv(z, node[z], log[z], since[z])
      BY <2>3 DEF IInv, ZoneInv
    <3>2. Counted(Count(node[z].requests, 1), c.requests)
      BY <1>3, <2>1, <3>1, CountExact DEF NodeInv
    <3>3. \A s \in Series(z) :
            SeriesInv(NextTime(node[z].s[s], m[s]), l[s], c.msec[s])
      BY <1>2, <1>3, <3>1, NextTimeInv DEF NodeInv
    <3>4. n = [requests |-> Count(node[z].requests, 1),
               s |-> [s \in Series(z) |-> NextTime(node[z].s[s], m[s])]]
      BY <2>3 DEF node_set
    <3> HIDE DEF n, l, c
    <3> QED
      BY <3>2, <3>3, <3>4 DEF NodeInv
  <2> QED
    BY <2>2, <2>3
<1> HIDE DEF n, l, c
<1>7. /\ node' = [node EXCEPT ![z] = n]
      /\ log' = [log EXCEPT ![z] = l]
      /\ since' = [since EXCEPT ![z] = c]
  BY <1>1 DEF IInv, HistoryInv, n, l, c
<1> QED
  BY <1>2, <1>5, <1>6, <1>7, ZoneChanges

(* cmd=reset forgets the sums and keeps the samples. *)
LEMMA ResetInv ==
  ASSUME IInv, NEW z \in Zones, Reset(z)
  PROVE  IInv'
<1> DEFINE l == log[z]
           c == NothingSince(z)
           n == node_zero(node[z])
<1>1. node[z] # Nil /\ NodeInv(z, node[z], l, since[z])
  BY DEF Reset, IInv, ZoneInv
<1>2. n = [requests |-> Zero,
           s |-> [s \in Series(z) |->
                    [node[z].s[s] EXCEPT !.total = Zero, !.time = 0]]]
  <2>1. DOMAIN node[z].s = Series(z)
    BY <1>1 DEF NodeInv
  <2> QED
    BY <2>1 DEF node_zero
<1>3. c.requests = 0 /\ \A s \in Series(z) : c.msec[s] = 0
  BY DEF NothingSince
<1>4. \A s \in Series(z) :
        SeriesInv([node[z].s[s] EXCEPT !.total = Zero, !.time = 0], l[s], 0)
  BY <1>1, ZeroInv DEF NodeInv
<1>5. /\ l \in [Series(z) -> Seq(Samples)]
      /\ c \in [requests : Nat, msec : [Series(z) -> Nat]]
  BY DEF IInv, HistoryInv, NothingSince
<1>6. /\ node' = [node EXCEPT ![z] = n] /\ log' = [log EXCEPT ![z] = l]
      /\ since' = [since EXCEPT ![z] = c] /\ now' \in Nat
  BY DEF Reset, IInv, HistoryInv
<1> HIDE DEF n, l, c
<1>7. NodeInv(z, n, l, c)
  BY <1>2, <1>3, <1>4, ZeroCounted DEF NodeInv
<1> QED
  BY <1>5, <1>6, <1>7, ZoneChanges

(* cmd=delete: the zone has no node. *)
LEMMA DeleteInv ==
  ASSUME IInv, NEW z \in Zones, Delete(z)
  PROVE  IInv'
<1>1. /\ NoLog(z) \in [Series(z) -> Seq(Samples)]
      /\ NothingSince(z) \in [requests : Nat, msec : [Series(z) -> Nat]]
  BY DEF NoLog, NothingSince
<1>2. /\ node' = [node EXCEPT ![z] = Nil]
      /\ log' = [log EXCEPT ![z] = NoLog(z)]
      /\ since' = [since EXCEPT ![z] = NothingSince(z)]
      /\ now' \in Nat
  BY DEF Delete, NoLog, IInv, HistoryInv
<1> QED
  BY <1>1, <1>2, ZoneChanges

(* A display averages every ring and so resets none of them. *)
LEMMA DisplayKeepsNodes ==
  ASSUME IInv, Display
  PROVE  node' = node
<1>1. ASSUME NEW z \in Zones, node[z] # Nil
      PROVE  displayed(node[z]) = node[z]
  <2>1. NodeInv(z, node[z], log[z], since[z])
    BY <1>1 DEF IInv, ZoneInv
  <2>2. ASSUME NEW s \in Series(z)
        PROVE  [node[z].s[s] EXCEPT !.times = averaged(@)] = node[z].s[s]
    <3>1. SeriesInv(node[z].s[s], log[z][s], since[z].msec[s])
      BY <2>1 DEF NodeInv
    <3>2. averaged(node[z].s[s].times) = node[z].s[s].times
      BY <3>1, AverageKeepsRing DEF SeriesInv
    <3>3. PICK a, b, q, h :
            node[z].s[s] = [total |-> a, time |-> b, times |-> q, buckets |-> h]
      BY <3>1 DEF SeriesInv
    <3> QED
      BY <3>2, <3>3
  <2>3. DOMAIN node[z].s = Series(z)
    BY <2>1 DEF NodeInv
  <2>4. displayed(node[z]).s = node[z].s
    BY <2>1, <2>2, <2>3 DEF NodeInv, displayed
  <2>5. displayed(node[z]) = [requests |-> node[z].requests,
                              s |-> displayed(node[z]).s]
    BY DEF displayed
  <2> QED
    BY <2>1, <2>4, <2>5 DEF NodeInv
<1>2. /\ node' = [z \in Zones |-> IF node[z] = Nil THEN Nil ELSE displayed(node[z])]
      /\ UNCHANGED <<now, log, since>>
  BY DEF Display
<1> QED
  BY <1>1, <1>2 DEF IInv, HistoryInv

LEMMA DisplayInv ==
  ASSUME IInv, Display
  PROVE  IInv'
<1>1. UNCHANGED <<now, log, since>>
  BY DEF Display
<1>2. node' = node
  BY DisplayKeepsNodes
<1> QED
  BY <1>1, <1>2 DEF IInv, HistoryInv, ZoneInv
-----------------------------------------------------------------------------
(* The theorems *)

(* Every step of requests, commands and displays. *)
LEMMA NextInv == IInv /\ [Next]_vars => IInv'
<1> SUFFICES ASSUME IInv, [Next]_vars PROVE IInv'
  OBVIOUS
<1>1. ASSUME NEW z \in Zones, AddNode(z) PROVE IInv'
  BY <1>1, AddNodeInv
<1>2. ASSUME NEW z \in Zones, Reset(z) PROVE IInv'
  BY <1>2, ResetInv
<1>3. ASSUME NEW z \in Zones, Delete(z) PROVE IInv'
  BY <1>3, DeleteInv
<1>4. CASE Display
  BY <1>4, DisplayInv
<1>5. CASE Tick
  BY <1>5 DEF Tick, IInv, HistoryInv, ZoneInv
<1>6. CASE SetBack
  BY <1>6, NodeAssumption DEF SetBack, IInv, HistoryInv, ZoneInv
<1>7. CASE UNCHANGED vars
  BY <1>7 DEF vars, IInv, HistoryInv, ZoneInv
<1> QED
  BY <1>1, <1>2, <1>3, <1>4, <1>5, <1>6, <1>7 DEF Next

(* Every ring is full and holds the newest samples of its zone, every      *)
(* counter has counted what it was given, at every moment of every run.    *)
THEOREM Invariant == Spec => []IInv
BY InitInv, NextInv, PTL DEF Spec

(* For rings of any length, however the insertions, averages, resets,      *)
(* deletions and displays follow each other, no error path of node.c ever  *)
(* resets a ring that holds samples.                                       *)
THEOREM RingsKeepNewest == Spec => []QueueKeepsNewest
<1>1. IInv => QueueKeepsNewest
  BY DEF IInv, ZoneInv, NodeInv, SeriesInv, RingInv, QueueKeepsNewest
<1> QED
  BY <1>1, Invariant, PTL

(* For counters of any width, add_oc misses no overflow and counts none    *)
(* that did not happen, across resets and deletions.                       *)
THEOREM NothingUncounted == Spec => []CountersExact
<1>1. IInv => CountersExact
  BY DEF IInv, ZoneInv, NodeInv, SeriesInv, Counted, CountersExact
<1> QED
  BY <1>1, Invariant, PTL

(* For any bounds, in any order, and buckets of any width, every bucket    *)
(* counts the samples up to its bound since the node was created.          *)
THEOREM HistogramsCount == Spec => []HistogramCumulative
<1>1. IInv => HistogramCumulative
  <2> SUFFICES ASSUME IInv, NEW z \in Zones, node[z] # Nil,
                      NEW s \in Series(z), NEW i \in DOMAIN Buckets
               PROVE  node[z].s[s].buckets[i] = Cardinality(Below(log[z][s], i)) % W
    BY DEF HistogramCumulative, Below
  <2>1. SeriesInv(node[z].s[s], log[z][s], since[z].msec[s])
    BY DEF IInv, ZoneInv, NodeInv
  <2>2. DOMAIN Buckets = 1..Len(Buckets)
    BY NodeAssumption
  <2> QED
    BY <2>1, <2>2 DEF SeriesInv, Observed
<1> QED
  BY <1>1, Invariant, PTL
-----------------------------------------------------------------------------
(* The averages *)

(* l is a history whose samples are younger than time 0, and the horizon   *)
(* is not before it: an entry of the ring without a sample is never recent.*)
Dated(l) ==
  /\ l \in Seq(Samples) /\ now \in Nat /\ now > average_period
  /\ \A i \in DOMAIN l : l[i].time > 0

(* What the first n steps of a pass have seen of the samples in the period,*)
(* and what they have made of it.                                          *)
Seen(l, n) == {j \in InPeriod(l) : j + (QUEUE_LEN - 1) <= Len(l) + n}

Ones(l) == [i \in InPeriod(l) |-> 1]
Ranks(l) == [i \in InPeriod(l) |-> Rank(InPeriod(l), i)]
Weighted(l, w) == [i \in InPeriod(l) |-> w[i] * l[i].msec]

Passed == [c : Nat, sum : Nat, ranked : Nat]

PassInv(l, n, p) ==
  /\ p \in Passed
  /\ p.c = Cardinality(Seen(l, n))
  /\ p.c = SumFunctionOnSet(Ones(l), Seen(l, n))
  /\ p.sum = SumFunctionOnSet(Weighted(l, Ones(l)), Seen(l, n))
  /\ p.ranked = SumFunctionOnSet(Weighted(l, Ranks(l)), Seen(l, n))
  /\ 2 * SumFunctionOnSet(Ranks(l), Seen(l, n)) = p.c * (p.c + 1)

NotPassed == [c |-> 0, sum |-> 0, ranked |-> 0]

(* One step of the pass over q. *)
PassStep(q, i, p) ==
  LET e == Entries(q)[i]
  IN IF Horizon < e.time
       THEN [c |-> p.c + 1, sum |-> p.sum + e.msec,
             ranked |-> p.ranked + (p.c + 1) * e.msec]
       ELSE p

(* Weights and samples are numbers, of finitely many samples. *)
LEMMA PeriodTypes ==
  ASSUME NEW l, Dated(l)
  PROVE  /\ IsFiniteSet(InPeriod(l)) /\ InPeriod(l) \subseteq DOMAIN l
         /\ \A i \in InPeriod(l) :
              /\ i \in Nat /\ l[i] \in Samples /\ l[i].msec \in Nat
              /\ Ones(l)[i] \in Nat /\ Ranks(l)[i] \in Nat
              /\ Weighted(l, Ones(l))[i] \in Nat
              /\ Weighted(l, Ranks(l))[i] \in Nat
<1>1. Len(l) \in Nat /\ DOMAIN l = 1..Len(l) /\ \A i \in DOMAIN l : l[i] \in Samples
  BY DEF Dated
<1>2. InPeriod(l) \subseteq 1..Len(l)
  BY <1>1 DEF InPeriod
<1>3. IsFiniteSet(InPeriod(l))
  <2>1. IsFiniteSet(1..Len(l))
    BY <1>1, FS_Interval
  <2> QED
    BY <1>2, <2>1, FS_Subset
<1> SUFFICES ASSUME NEW i \in InPeriod(l)
             PROVE  /\ i \in Nat /\ l[i] \in Samples /\ l[i].msec \in Nat
                    /\ Ones(l)[i] \in Nat /\ Ranks(l)[i] \in Nat
                    /\ Weighted(l, Ones(l))[i] \in Nat
                    /\ Weighted(l, Ranks(l))[i] \in Nat
  BY <1>1, <1>2, <1>3
<1>4. i \in Nat /\ l[i] \in Samples /\ l[i].msec \in Nat
  BY <1>1, <1>2 DEF Samples
<1>5. Ones(l)[i] = 1
  BY DEF Ones
<1>6. Ranks(l)[i] \in Nat
  <2>1. IsFiniteSet({j \in InPeriod(l) : j <= i})
    BY <1>3, FS_Subset
  <2>2. Cardinality({j \in InPeriod(l) : j <= i}) \in Nat
    BY <2>1, FS_CardinalityType
  <2> QED
    BY <2>2 DEF Ranks, Rank
<1>7. \A a, b \in Nat : a * b \in Nat
  OBVIOUS
<1>8. /\ Weighted(l, Ones(l))[i] = Ones(l)[i] * l[i].msec
      /\ Weighted(l, Ranks(l))[i] = Ranks(l)[i] * l[i].msec
  BY DEF Weighted
<1> QED
  BY <1>4, <1>5, <1>6, <1>7, <1>8

(* The i-th entry of the ring is a sample in the period exactly if it is   *)
(* younger than the horizon; then it is the one next to be seen.           *)
LEMMA EntrySeen ==
  ASSUME NEW l, Dated(l), NEW i \in 1..(QUEUE_LEN - 1)
  PROVE  LET e == NewestOf(l)[i]
             j == Len(l) + i - (QUEUE_LEN - 1)
         IN /\ Horizon < e.time =>
                 /\ j \in InPeriod(l) /\ e = l[j] /\ j \notin Seen(l, i - 1)
                 /\ Seen(l, i) = Seen(l, i - 1) \cup {j}
                 /\ {k \in InPeriod(l) : k <= j} = Seen(l, i)
            /\ ~(Horizon < e.time) => Seen(l, i) = Seen(l, i - 1)
<1> DEFINE e == NewestOf(l)[i]
           j == Len(l) + i - (QUEUE_LEN - 1)
<1>1. /\ Len(l) \in Nat /\ DOMAIN l = 1..Len(l) /\ now \in Nat
      /\ \A k \in DOMAIN l : l[k] \in Samples /\ l[k].time \in Nat /\ l[k].time > 0
      /\ now > average_period
  <2>1. /\ Len(l) \in Nat /\ DOMAIN l = 1..Len(l) /\ now \in Nat
        /\ \A k \in DOMAIN l : l[k] \in Samples /\ l[k].time > 0
        /\ now > average_period
    BY DEF Dated
  <2>2. \A x \in Samples : x.time \in Nat
    BY DEF Samples
  <2> QED
    BY <2>1, <2>2
<1>2. QUEUE_LEN \in Nat /\ QUEUE_LEN > 1 /\ average_period \in Nat
  BY NodeAssumption
<1>3. Horizon \in Nat
  BY <1>1, <1>2 DEF Horizon
<1>4. j \in Int
  BY <1>1, <1>2
<1>5. ASSUME NEW k \in InPeriod(l)
      PROVE  /\ k \in 1..Len(l)
             /\ k \in Seen(l, i) <=> k <= j
             /\ k \in Seen(l, i - 1) <=> k < j
  BY <1>1, <1>2 DEF Seen, InPeriod
<1>6. /\ Seen(l, i) = {k \in InPeriod(l) : k <= j}
      /\ Seen(l, i - 1) = {k \in InPeriod(l) : k < j}
  BY <1>5 DEF Seen
<1>7. CASE Len(l) + i < QUEUE_LEN
  <2>1. e.time = 0
    BY <1>7 DEF NewestOf, NoSample
  <2>2. ~(Horizon < e.time)
    BY <1>3, <2>1
  <2>3. j <= 0
    BY <1>1, <1>2, <1>7
  <2>4. Seen(l, i) = {} /\ Seen(l, i - 1) = {}
    <3> HIDE DEF j
    <3>1. \A k \in InPeriod(l) : ~(k <= j) /\ ~(k < j)
      BY <1>1, <1>4, <1>5, <2>3
    <3> QED
      BY <1>6, <3>1
  <2> QED
    BY <2>2, <2>4
<1>8. CASE ~(Len(l) + i < QUEUE_LEN)
  <2>1. e = l[j]
    BY <1>8 DEF NewestOf
  <2>2. j \in DOMAIN l /\ j + QUEUE_LEN > Len(l) + 1
    BY <1>1, <1>2, <1>8
  <2>3. j \in InPeriod(l) <=> Horizon < e.time
    <3> HIDE DEF j, e
    <3>1. j \in InPeriod(l) <=> (average_period > 0 => l[j].time + average_period > now)
      BY <2>2 DEF InPeriod
    <3>2. l[j].time \in Nat /\ l[j].time > 0
      BY <1>1, <2>2
    <3> QED
      BY <1>1, <1>2, <2>1, <3>1, <3>2 DEF Horizon
  <2> HIDE DEF j, e
  <2>4. \A k \in InPeriod(l) : k \in Int
    BY <1>5
  <2>5. CASE Horizon < e.time
    <3>1. j \in InPeriod(l)
      BY <2>3, <2>5
    <3>2. j \notin Seen(l, i - 1)
      BY <1>4, <1>6
    <3>3. Seen(l, i) = Seen(l, i - 1) \cup {j}
      <4>1. \A k \in InPeriod(l) : k <= j <=> (k < j \/ k = j)
        BY <1>4, <2>4
      <4> QED
        BY <1>4, <1>6, <3>1, <4>1
    <3> QED
      BY <1>6, <2>1, <2>5, <3>1, <3>2, <3>3 DEF e, j
  <2>6. CASE ~(Horizon < e.time)
    <3>1. j \notin InPeriod(l)
      BY <2>3, <2>6
    <3>2. Seen(l, i) = Seen(l, i - 1)
      BY <1>4, <1>6, <2>4, <3>1
    <3> QED
      BY <2>6, <3>2 DEF e
  <2> QED
    BY <2>5, <2>6
<1> QED
  BY <1>7, <1>8

(* A step counts the sample it sees, with its rank. *)
LEMMA PassStepInv ==
  ASSUME NEW q, NEW l, Dated(l), Entries(q) = NewestOf(l),
         NEW i \in 1..(QUEUE_LEN - 1), NEW p, PassInv(l, i - 1, p)
  PROVE  PassInv(l, i, PassStep(q, i, p))
<1> DEFINE e == NewestOf(l)[i]
           j == Len(l) + i - (QUEUE_LEN - 1)
           S == Seen(l, i - 1)
<1>1. CASE ~(Horizon < e.time)
  <2>1. Seen(l, i) = Seen(l, i - 1)
    BY <1>1, EntrySeen
  <2>2. PassStep(q, i, p) = p
    BY <1>1 DEF PassStep
  <2> QED
    BY <2>1, <2>2 DEF PassInv
<1>2. CASE Horizon < e.time
  <2>1. /\ j \in InPeriod(l) /\ e = l[j] /\ j \notin S
        /\ Seen(l, i) = S \cup {j}
        /\ {k \in InPeriod(l) : k <= j} = Seen(l, i)
    BY <1>2, EntrySeen
  <2>2. PassStep(q, i, p) = [c |-> p.c + 1, sum |-> p.sum + e.msec,
                             ranked |-> p.ranked + (p.c + 1) * e.msec]
    BY <1>2 DEF PassStep
  <2> HIDE DEF j, e
  <2>3. /\ IsFiniteSet(S) /\ S \cup {j} \subseteq InPeriod(l)
    BY <2>1, PeriodTypes, FS_Subset DEF Seen
  <2>4. /\ p \in Passed /\ p.c \in Nat /\ p.sum \in Nat /\ p.ranked \in Nat
        /\ e.msec \in Nat
    BY <2>1, PeriodTypes DEF PassInv, Passed
  <2>5. Cardinality(S \cup {j}) = p.c + 1
    BY <2>1, <2>3, FS_AddElement DEF PassInv
  <2>6. /\ Ones(l)[j] = 1 /\ Ranks(l)[j] = p.c + 1
        /\ Weighted(l, Ones(l))[j] = e.msec
        /\ Weighted(l, Ranks(l))[j] = (p.c + 1) * e.msec
    <3>1. Ones(l)[j] = 1
      BY <2>1 DEF Ones
    <3>2. Ranks(l)[j] = p.c + 1
      BY <2>1, <2>5 DEF Ranks, Rank
    <3>3. /\ Weighted(l, Ones(l))[j] = 1 * e.msec
          /\ Weighted(l, Ranks(l))[j] = (p.c + 1) * e.msec
      BY <2>1, <3>1, <3>2 DEF Weighted
    <3> QED
      BY <2>4, <3>1, <3>2, <3>3
  <2>7. /\ SumFunctionOnSet(Ones(l), S \cup {j}) =
             SumFunctionOnSet(Ones(l), S) + Ones(l)[j]
        /\ SumFunctionOnSet(Weighted(l, Ones(l)), S \cup {j}) =
             SumFunctionOnSet(Weighted(l, Ones(l)), S) + Weighted(l, Ones(l))[j]
        /\ SumFunctionOnSet(Weighted(l, Ranks(l)), S \cup {j}) =
             SumFunctionOnSet(Weighted(l, Ranks(l)), S) + Weighted(l, Ranks(l))[j]
        /\ SumFunctionOnSet(Ranks(l), S \cup {j}) =
             SumFunctionOnSet(Ranks(l), S) + Ranks(l)[j]
    <3>1. \A k \in S \cup {j} :
            /\ Ones(l)[k] \in Nat /\ Ranks(l)[k] \in Nat
            /\ Weighted(l, Ones(l))[k] \in Nat /\ Weighted(l, Ranks(l))[k] \in Nat
      BY <2>3, PeriodTypes
    <3> HIDE DEF S
    <3> DEFINE w1 == Ones(l)
               w2 == Ranks(l)
               w3 == Weighted(l, Ones(l))
               w4 == Weighted(l, Ranks(l))
    <3> HIDE DEF w1, w2, w3, w4
    <3>2. \A k \in S \cup {j} :
            w1[k] \in Nat /\ w2[k] \in Nat /\ w3[k] \in Nat /\ w4[k] \in Nat
      BY <3>1 DEF w1, w2, w3, w4
    <3>3. SumFunctionOnSet(w1, S \cup {j}) = SumFunctionOnSet(w1, S) + w1[j]
      BY <2>1, <2>3, <3>2, SumAdd
    <3>4. SumFunctionOnSet(w2, S \cup {j}) = SumFunctionOnSet(w2, S) + w2[j]
      BY <2>1, <2>3, <3>2, SumAdd
    <3>5. SumFunctionOnSet(w3, S \cup {j}) = SumFunctionOnSet(w3, S) + w3[j]
      BY <2>1, <2>3, <3>2, SumAdd
    <3>6. SumFunctionOnSet(w4, S \cup {j}) = SumFunctionOnSet(w4, S) + w4[j]
      BY <2>1, <2>3, <3>2, SumAdd
    <3> QED
      BY <3>3, <3>4, <3>5, <3>6 DEF w1, w2, w3, w4
  <2>8. SumFunctionOnSet(Ranks(l), S) \in Nat
    <3>1. \A k \in S : Ranks(l)[k] \in Nat
      BY <2>3, PeriodTypes
    <3> DEFINE w == Ranks(l)
    <3> HIDE DEF w, S
    <3>2. \A k \in S : w[k] \in Nat
      BY <3>1 DEF w
    <3>3. SumFunctionOnSet(w, S) \in Nat
      BY <2>3, <3>2, SumType
    <3> QED
      BY <3>3 DEF w
  <2>9. 2 * SumFunctionOnSet(Ranks(l), S \cup {j}) = (p.c + 1) * ((p.c + 1) + 1)
    <3> DEFINE c == p.c
               r == SumFunctionOnSet(Ranks(l), S)
    <3>1. c \in Nat /\ r \in Nat /\ 2 * r = c * (c + 1)
      BY <2>4, <2>8 DEF PassInv
    <3>2. SumFunctionOnSet(Ranks(l), S \cup {j}) = r + (c + 1)
      BY <2>6, <2>7
    <3> HIDE DEF c, r
    <3>3. 2 * (r + (c + 1)) = (c + 1) * ((c + 1) + 1)
      BY <3>1
    <3> QED
      BY <3>2, <3>3 DEF c
  <2>10. (p.c + 1) * e.msec \in Nat
    BY <2>4
  <2> DEFINE s == PassStep(q, i, p)
  <2>11. s \in Passed /\ s.c = p.c + 1 /\ s.sum = p.sum + e.msec
         /\ s.ranked = p.ranked + (p.c + 1) * e.msec
    BY <2>2, <2>4, <2>10 DEF Passed
  <2> HIDE DEF s, S
  <2>12. /\ p.c = SumFunctionOnSet(Ones(l), S)
         /\ p.sum = SumFunctionOnSet(Weighted(l, Ones(l)), S)
         /\ p.ranked = SumFunctionOnSet(Weighted(l, Ranks(l)), S)
    BY DEF PassInv, S
  <2>13. /\ s.c = SumFunctionOnSet(Ones(l), S \cup {j})
         /\ s.sum = SumFunctionOnSet(Weighted(l, Ones(l)), S \cup {j})
         /\ s.ranked = SumFunctionOnSet(Weighted(l, Ranks(l)), S \cup {j})
    BY <2>6, <2>7, <2>11, <2>12
  <2>14. PassInv(l, i, s)
    BY <2>1, <2>5, <2>9, <2>11, <2>13 DEF PassInv
  <2> QED
    BY <2>14 DEF s
<1> QED
  BY <1>1, <1>2

(* Pass(q) is the last value of a g with g = PassBody(q, g). *)
PassBody(q, g) ==
  [i \in 0..Length(q) |-> IF i = 0 THEN NotPassed ELSE PassStep(q, i, g[i - 1])]

LEMMA PassUnfolds ==
  ASSUME NEW q
  PROVE  Pass(q) = (CHOOSE g : g = PassBody(q, g))[Length(q)]
  BY DEF Pass, PassBody, PassStep, NotPassed

(* The entries of a ring are samples. *)
LEMMA EntryTypes ==
  ASSUME NEW q, NEW l, l \in Seq(Samples), RingInv(q, l)
  PROVE  /\ Length(q) = QUEUE_LEN - 1
         /\ \A i \in 1..(QUEUE_LEN - 1) : Entries(q)[i] \in Samples
<1>1. Length(q) = QUEUE_LEN - 1 /\ Entries(q) = NewestOf(l)
  BY FullLength DEF RingInv
<1>2. QUEUE_LEN \in Nat /\ QUEUE_LEN > 1
  BY NodeAssumption
<1>3. ASSUME NEW i \in 1..(QUEUE_LEN - 1) PROVE NewestOf(l)[i] \in Samples
  <2>1. CASE Len(l) + i < QUEUE_LEN
    BY <2>1 DEF NewestOf, NoSample, Samples
  <2>2. CASE ~(Len(l) + i < QUEUE_LEN)
    <3>1. Len(l) + i - (QUEUE_LEN - 1) \in 1..Len(l)
      BY <1>2, <2>2
    <3>2. NewestOf(l)[i] = l[Len(l) + i - (QUEUE_LEN - 1)]
      BY <2>2 DEF NewestOf
    <3> QED
      BY <3>1, <3>2
  <2> QED
    BY <2>1, <2>2
<1> QED
  BY <1>1, <1>3

(* The pass is defined. *)
LEMMA PassExists ==
  ASSUME NEW q, NEW l, l \in Seq(Samples), RingInv(q, l)
  PROVE  \E g : g = PassBody(q, g)
<1> DEFINE n == Length(q)
           f == [i \in 1..n |-> [p \in Passed |-> PassStep(q, i, p)]]
<1>1. n \in Nat /\ \A i \in 1..n : Entries(q)[i] \in Samples
  BY EntryTypes, NodeAssumption
<1>2. NotPassed \in Passed
  BY DEF NotPassed, Passed
<1>3. ASSUME NEW i \in 1..n, NEW p \in Passed PROVE PassStep(q, i, p) \in Passed
  <2> DEFINE e == Entries(q)[i]
  <2>1. e.msec \in Nat /\ p.c \in Nat /\ p.sum \in Nat /\ p.ranked \in Nat
    BY <1>1 DEF Samples, Passed
  <2>2. PassStep(q, i, p) = IF Horizon < e.time
          THEN [c |-> p.c + 1, sum |-> p.sum + e.msec,
                ranked |-> p.ranked + (p.c + 1) * e.msec]
          ELSE p
    BY DEF PassStep
  <2> HIDE DEF e
  <2>3. (p.c + 1) * e.msec \in Nat
    BY <2>1
  <2> QED
    BY <2>1, <2>2, <2>3 DEF Passed
<1>4. f \in [1..n -> [Passed -> Passed]]
  BY <1>3
<1>5. PICK g \in [0..n -> Passed] : g = Steps(n, NotPassed, f, g)
  <2> HIDE DEF n, f
  <2> QED
    BY <1>1, <1>2, <1>4, StepsExist
<1>6. ASSUME NEW i \in 0..n, i # 0
      PROVE  f[i][g[i - 1]] = PassStep(q, i, g[i - 1])
  <2>1. i \in 1..n /\ i - 1 \in 0..n
    BY <1>1, <1>6
  <2>2. g[i - 1] \in Passed
    BY <1>5, <2>1
  <2> QED
    BY <2>1, <2>2
<1>7. Steps(n, NotPassed, f, g) = PassBody(q, g)
  <2> HIDE DEF f
  <2> QED
    BY <1>6 DEF Steps, PassBody
<1> QED
  BY <1>5, <1>7

(* It counts the samples of the period and sums their durations. *)
LEMMA PassMeans ==
  ASSUME NEW q, NEW l, Dated(l), RingInv(q, l)
  PROVE  PassInv(l, QUEUE_LEN - 1, Pass(q))
<1> DEFINE N == QUEUE_LEN - 1
           g == CHOOSE h : h = PassBody(q, h)
           T == {i \in 0..N : PassInv(l, i, g[i])}
<1>1. N \in Nat /\ N > 0 /\ Length(q) = N /\ l \in Seq(Samples)
  BY EntryTypes, NodeAssumption DEF Dated
<1>2. g = PassBody(q, g)
  BY <1>1, PassExists
<1>3. Pass(q) = g[N]
  BY <1>1, PassUnfolds
<1> HIDE DEF g
<1>4. \A i \in 0..N : g[i] = IF i = 0 THEN NotPassed ELSE PassStep(q, i, g[i - 1])
  BY <1>1, <1>2 DEF PassBody
<1>5. PassInv(l, 0, g[0])
  <2>1. Seen(l, 0) = {}
    <3>1. \A j \in InPeriod(l) : ~(j + (QUEUE_LEN - 1) <= Len(l) + 0)
      <4> SUFFICES ASSUME NEW j \in InPeriod(l)
                   PROVE  ~(j + (QUEUE_LEN - 1) <= Len(l) + 0)
        OBVIOUS
      <4>1. j \in Nat /\ Len(l) \in Nat /\ QUEUE_LEN \in Nat /\ j + QUEUE_LEN > Len(l) + 1
        BY <1>1, PeriodTypes, NodeAssumption DEF InPeriod
      <4> QED
        BY <4>1
    <3> QED
      BY <3>1 DEF Seen
  <2>2. g[0] = NotPassed
    BY <1>1, <1>4
  <2>3. Cardinality({}) = 0
    BY FS_EmptySet
  <2>4. \A f : SumFunctionOnSet(f, {}) = 0
    BY SumEmpty
  <2>5. 2 * 0 = 0 * (0 + 1)
    OBVIOUS
  <2>6. /\ SumFunctionOnSet(Ones(l), {}) = 0 /\ SumFunctionOnSet(Ranks(l), {}) = 0
        /\ SumFunctionOnSet(Weighted(l, Ones(l)), {}) = 0
        /\ SumFunctionOnSet(Weighted(l, Ranks(l)), {}) = 0
    BY <2>4
  <2> QED
    BY <2>1, <2>2, <2>3, <2>5, <2>6 DEF PassInv, NotPassed, Passed
<1>6. ASSUME NEW i \in 1..N, i - 1 \in T PROVE i \in T
  <2>1. PassInv(l, i - 1, g[i - 1])
    BY <1>6
  <2>2. g[i] = PassStep(q, i, g[i - 1])
    BY <1>1, <1>4
  <2>3. Entries(q) = NewestOf(l)
    BY DEF RingInv
  <2>4. PassInv(l, i, PassStep(q, i, g[i - 1]))
    BY <2>1, <2>3, PassStepInv
  <2> QED
    BY <1>1, <2>2, <2>4
<1>7. 0 \in T
  BY <1>1, <1>5
<1>8. N \in T
  <2> HIDE DEF T, N
  <2>1. \A i \in 0..N : i \in T
    BY <1>1, <1>6, <1>7, InductionUpTo
  <2> QED
    BY <1>1, <2>1
<1> QED
  BY <1>3, <1>8

(* What division yields. *)
LEMMA Quotient ==
  ASSUME NEW a \in Nat, NEW b \in Nat, b > 0
  PROVE  /\ a \div b \in Nat
         /\ (a \div b) * b <= a
         /\ a < ((a \div b) + 1) * b
<1> DEFINE d == a \div b
           r == a % b
<1>1. d \in Int /\ r \in 0..(b - 1) /\ a = b * d + r
  OBVIOUS
<1>2. d * b = b * d /\ (d + 1) * b = b * d + b
  BY <1>1
<1>3. d \in Nat
  <2>1. ASSUME d < 0 PROVE FALSE
    <3>1. d <= -1 /\ b * d <= b * (-1)
      BY <1>1, <2>1
    <3> QED
      BY <1>1, <3>1
  <2> QED
    BY <1>1, <2>1
<1> HIDE DEF d, r
<1>4. d * b <= a /\ a < (d + 1) * b
  BY <1>1, <1>2
<1> QED
  BY <1>3, <1>4 DEF d

(* Both averages are the means of the durations of the samples in the      *)
(* period.                                                                 *)
LEMMA AverageMeans ==
  ASSUME NEW q, NEW l, Dated(l), RingInv(q, l)
  PROVE  /\ IsMean(time_queue_amm(q), l, InPeriod(l), Ones(l))
         /\ IsMean(time_queue_wma(q), l, InPeriod(l), Ranks(l))
         /\ time_queue_amm(q) \in Nat /\ time_queue_wma(q) \in Nat
<1> DEFINE R == InPeriod(l)
           p == Pass(q)
           ones == Ones(l)
           ranks == Ranks(l)
           wone == Weighted(l, ones)
           wrank == Weighted(l, ranks)
<1>1. Seen(l, QUEUE_LEN - 1) = R
  <2>1. \A j \in R : j + (QUEUE_LEN - 1) <= Len(l) + (QUEUE_LEN - 1)
    <3> SUFFICES ASSUME NEW j \in R
                 PROVE  j + (QUEUE_LEN - 1) <= Len(l) + (QUEUE_LEN - 1)
      OBVIOUS
    <3>1. j \in 1..Len(l) /\ Len(l) \in Nat /\ QUEUE_LEN \in Nat
      BY PeriodTypes, NodeAssumption DEF Dated
    <3> QED
      BY <3>1
  <2> QED
    BY <2>1 DEF Seen
<1>2. PassInv(l, QUEUE_LEN - 1, p)
  BY PassMeans
<1>3. /\ p \in Passed
      /\ p.c = Cardinality(R)
      /\ p.c = SumFunctionOnSet(ones, R)
      /\ p.sum = SumFunctionOnSet(wone, R)
      /\ p.ranked = SumFunctionOnSet(wrank, R)
      /\ 2 * SumFunctionOnSet(ranks, R) = p.c * (p.c + 1)
  BY <1>1, <1>2 DEF PassInv
<1>4. p.c \in Nat /\ p.sum \in Nat /\ p.ranked \in Nat
  BY <1>3 DEF Passed
<1>5. IsFiniteSet(R) /\ (R = {} <=> p.c = 0)
  <2>1. IsFiniteSet(R)
    BY PeriodTypes
  <2>2. Cardinality(R) = 0 <=> R = {}
    BY <2>1, FS_EmptySet
  <2> QED
    BY <1>3, <2>1, <2>2
<1>6. /\ SumFunction(ones) = p.c
      /\ SumFunction([i \in R |-> ones[i] * l[i].msec]) = p.sum
      /\ SumFunction([i \in R |-> ranks[i] * l[i].msec]) = p.ranked
      /\ SumFunction(ranks) = SumFunctionOnSet(ranks, R)
  <2>1. /\ DOMAIN ones = R /\ DOMAIN ranks = R
        /\ DOMAIN wone = R /\ DOMAIN wrank = R
    BY DEF Ones, Ranks, Weighted
  <2>2. /\ wone = [i \in R |-> ones[i] * l[i].msec]
        /\ wrank = [i \in R |-> ranks[i] * l[i].msec]
    BY DEF Weighted
  <2> HIDE DEF ones, ranks, wone, wrank, R
  <2> QED
    BY <1>3, <2>1, <2>2 DEF SumFunction
<1>7. /\ time_queue_amm(q) = IF p.c = 0 THEN 0 ELSE p.sum \div p.c
      /\ time_queue_wma(q) = IF p.c = 0 THEN 0 ELSE p.ranked \div triangle(p.c)
  BY DEF time_queue_amm, time_queue_wma
<1> DEFINE w == SumFunctionOnSet(ranks, R)
<1>8. w \in Nat
  <2>1. \A i \in R : ranks[i] \in Nat
    BY PeriodTypes
  <2> HIDE DEF ranks, R
  <2> QED
    BY <1>5, <2>1, SumType
<1>9. triangle(p.c) = w /\ (p.c # 0 => w > 0)
  <2> DEFINE c == p.c
             b == c * (c + 1)
  <2>1. 2 * w = b /\ c \in Nat
    BY <1>3, <1>4
  <2>2. triangle(p.c) = b \div 2
    BY DEF triangle
  <2>3. ASSUME c # 0 PROVE b > 0
    <3> HIDE DEF c
    <3>1. c >= 1 /\ c + 1 >= 1
      BY <2>1, <2>3
    <3> QED
      BY <2>1, <3>1
  <2> HIDE DEF w, b
  <2>4. b \div 2 = w
    BY <1>8, <2>1
  <2> QED
    BY <1>8, <2>1, <2>2, <2>3, <2>4
<1> DEFINE amm == time_queue_amm(q)
           wma == time_queue_wma(q)
<1> HIDE DEF w, p, amm, wma
<1>10. /\ IsMean(amm, l, R, ones) <=>
            IF R = {} THEN amm = 0 ELSE amm * p.c <= p.sum /\ p.sum < (amm + 1) * p.c
       /\ IsMean(wma, l, R, ranks) <=>
            IF R = {} THEN wma = 0 ELSE wma * w <= p.ranked /\ p.ranked < (wma + 1) * w
  <2> HIDE DEF ones, ranks, R
  <2> QED
    BY <1>6 DEF IsMean, w
<1>11. /\ amm = IF p.c = 0 THEN 0 ELSE p.sum \div p.c
       /\ wma = IF p.c = 0 THEN 0 ELSE p.ranked \div w
  BY <1>7, <1>9 DEF amm, wma, p
<1> HIDE DEF ones, ranks, R
<1>12. CASE p.c = 0
  BY <1>5, <1>10, <1>11, <1>12 DEF amm, wma, ones, ranks, R
<1>13. CASE p.c # 0
  <2>1. p.c > 0 /\ w > 0
    BY <1>4, <1>9, <1>13
  <2>2. /\ amm \in Nat /\ amm * p.c <= p.sum /\ p.sum < (amm + 1) * p.c
    BY <1>4, <1>11, <1>13, <2>1, Quotient
  <2>3. /\ wma \in Nat /\ wma * w <= p.ranked /\ p.ranked < (wma + 1) * w
    BY <1>4, <1>8, <1>11, <1>13, <2>1, Quotient
  <2>4. IsMean(amm, l, R, ones) /\ IsMean(wma, l, R, ranks)
    BY <1>5, <1>10, <1>13, <2>2, <2>3
  <2> QED
    BY <2>2, <2>3, <2>4 DEF amm, wma, ones, ranks, R
<1> QED
  BY <1>12, <1>13
-----------------------------------------------------------------------------
(* The averages of every node *)

(* The clock never falls to the period, so every sample has a time.        *)
ClockInv ==
  /\ now > average_period
  /\ \A z \in Zones : \A s \in Series(z) :
       \A i \in DOMAIN log[z][s] : log[z][s][i].time > 0

(* The average of the last request is a number. *)
DurationInv ==
  \A z \in Zones : node[z] # Nil => \A s \in Series(z) : node[z].s[s].time \in Nat

LEMMA LogDated ==
  ASSUME IInv, ClockInv, NEW z \in Zones, NEW s \in Series(z)
  PROVE  Dated(log[z][s])
<1>1. now \in Nat /\ log[z] \in [Series(z) -> Seq(Samples)]
  BY DEF IInv, HistoryInv
<1> QED
  BY <1>1 DEF ClockInv, Dated

(* A sample of now joins the history. *)
LEMMA DatedAppend ==
  ASSUME NEW l, Dated(l), NEW ms \in Msecs
  PROVE  Dated(Append(l, Sample(ms)))
<1>1. /\ now \in Nat /\ now > average_period /\ average_period \in Nat
      /\ l \in Seq(Samples) /\ \A i \in DOMAIN l : l[i].time > 0
  BY NodeAssumption DEF Dated
<1>2. Sample(ms) \in Samples
  BY <1>1, SampleType
<1>3. Append(l, Sample(ms)) \in Seq(Samples)
  BY <1>1, <1>2
<1>4. Sample(ms).time > 0
  BY <1>1 DEF Sample
<1> DEFINE e == Sample(ms)
<1> HIDE DEF e
<1>5. ASSUME NEW i \in DOMAIN Append(l, e) PROVE Append(l, e)[i].time > 0
  <2>1. DOMAIN l = 1..Len(l) /\ Len(l) \in Nat
    BY <1>1
  <2>2. i \in 1..(Len(l) + 1)
    BY <1>1, <1>5, <2>1
  <2>3. CASE i = Len(l) + 1
    BY <1>1, <1>4, <2>3 DEF e
  <2>4. CASE i # Len(l) + 1
    <3>1. i \in DOMAIN l
      BY <2>1, <2>2, <2>4
    <3>2. Append(l, e)[i] = l[i]
      BY <1>1, <2>1, <3>1
    <3> QED
      BY <1>1, <3>1, <3>2
  <2> QED
    BY <2>3, <2>4
<1> QED
  BY <1>1, <1>3, <1>5 DEF Dated, e

LEMMA ClockInit == Init => ClockInv
<1> SUFFICES ASSUME Init PROVE ClockInv
  OBVIOUS
<1>1. now = average_period + 1 /\ average_period \in Nat
  BY NodeAssumption DEF Init
<1>2. \A z \in Zones : \A s \in Series(z) : log[z][s] = <<>>
  BY DEF Init
<1> QED
  BY <1>1, <1>2 DEF ClockInv

LEMMA ClockNext == IInv /\ ClockInv /\ [Next]_vars => ClockInv'
<1> SUFFICES ASSUME IInv, ClockInv, [Next]_vars PROVE ClockInv'
  OBVIOUS
<1>a. now \in Nat /\ average_period \in Nat
  BY NodeAssumption DEF IInv, HistoryInv
<1>b. log = [z \in Zones |-> log[z]]
  BY DEF IInv, HistoryInv
<1>1. ASSUME NEW z \in Zones, AddNode(z) PROVE ClockInv'
  <2>1. PICK m \in [Series(z) -> Msecs] :
          log' = [log EXCEPT ![z] =
                    [s \in Series(z) |-> Append(@[s], Sample(m[s]))]]
    BY <1>1 DEF AddNode
  <2>2. now' = now
    BY <1>1 DEF AddNode
  <2>3. ASSUME NEW y \in Zones, NEW s \in Series(y)
        PROVE  \A i \in DOMAIN log'[y][s] : log'[y][s][i].time > 0
    <3>1. CASE y # z
      <4>1. log'[y] = log[y]
        BY <1>b, <2>1, <3>1
      <4> QED
        BY <4>1 DEF ClockInv
    <3>2. CASE y = z
      <4>1. log'[z] = [t \in Series(z) |-> Append(log[z][t], Sample(m[t]))]
        BY <1>b, <2>1
      <4>2. s \in Series(z)
        BY <3>2
      <4>3. log'[y][s] = Append(log[z][s], Sample(m[s]))
        BY <3>2, <4>1, <4>2
      <4>4. m[s] \in Msecs
        BY <4>2
      <4>5. Dated(Append(log[z][s], Sample(m[s])))
        BY <4>2, <4>4, LogDated, DatedAppend
      <4> QED
        BY <4>3, <4>5 DEF Dated
    <3> QED
      BY <3>1, <3>2
  <2>4. \A y \in Zones : Series(y)' = Series(y)
    BY DEF Series
  <2> QED
    BY <2>2, <2>3 DEF ClockInv, Series
<1>2. ASSUME NEW z \in Zones, Reset(z) PROVE ClockInv'
  BY <1>2 DEF Reset, ClockInv, Series
<1>3. ASSUME NEW z \in Zones, Delete(z) PROVE ClockInv'
  <2>1. now' = now /\ log' = [log EXCEPT ![z] = [s \in Series(z) |-> <<>>]]
    BY <1>3 DEF Delete
  <2>2. ASSUME NEW y \in Zones, NEW s \in Series(y)
        PROVE  \A i \in DOMAIN log'[y][s] : log'[y][s][i].time > 0
    <3>1. CASE y # z
      BY <1>b, <2>1, <3>1 DEF ClockInv
    <3>2. CASE y = z
      <4>1. log'[y][s] = <<>>
        BY <1>b, <2>1, <3>2
      <4> QED
        BY <4>1
    <3> QED
      BY <3>1, <3>2
  <2> QED
    BY <2>1, <2>2 DEF ClockInv, Series
<1>4. CASE Display
  BY <1>4 DEF Display, ClockInv, Series
<1>5. CASE Tick
  <2>1. now' = now + 1 /\ log' = log
    BY <1>5 DEF Tick
  <2> QED
    BY <1>a, <2>1 DEF ClockInv, Series
<1>6. CASE SetBack
  <2>1. now' = now - 1 /\ log' = log /\ now > average_period + 1
    BY <1>6 DEF SetBack
  <2> QED
    BY <1>a, <2>1 DEF ClockInv, Series
<1>7. CASE UNCHANGED vars
  BY <1>7 DEF vars, ClockInv, Series
<1> QED
  BY <1>1, <1>2, <1>3, <1>4, <1>5, <1>6, <1>7 DEF Next

(* For every period and ring length, both methods compute the mean of the  *)
(* samples of the last period that the ring holds, each weighted by its    *)
(* order for WMA, whatever happens between a request and the page.         *)
THEOREM AveragesMean == Spec => []AverageOfRecent
<1>1. IInv /\ ClockInv => AverageOfRecent
  <2> SUFFICES ASSUME IInv, ClockInv, NEW z \in Zones, node[z] # Nil,
                      NEW s \in Series(z)
               PROVE  LET l == log[z][s]
                          q == node[z].s[s].times
                          R == InPeriod(l)
                      IN /\ IsMean(time_queue_amm(q), l, R, [i \in R |-> 1])
                         /\ IsMean(time_queue_wma(q), l, R, [i \in R |-> Rank(R, i)])
    BY DEF AverageOfRecent
  <2>1. SeriesInv(node[z].s[s], log[z][s], since[z].msec[s])
    BY DEF IInv, ZoneInv, NodeInv
  <2>2. RingInv(node[z].s[s].times, log[z][s])
    BY <2>1 DEF SeriesInv
  <2>3. /\ IsMean(time_queue_amm(node[z].s[s].times), log[z][s],
                  InPeriod(log[z][s]), Ones(log[z][s]))
        /\ IsMean(time_queue_wma(node[z].s[s].times), log[z][s],
                  InPeriod(log[z][s]), Ranks(log[z][s]))
    BY <2>2, LogDated, AverageMeans
  <2> QED
    BY <2>3 DEF Ones, Ranks
<1>2. Spec => []IInv
  BY Invariant
<1> QED
  BY <1>1, <1>2, ClockInit, ClockNext, PTL DEF Spec

LEMMA DurationInit == Init => DurationInv
  BY DEF Init, DurationInv

LEMMA DurationNext == IInv /\ ClockInv /\ DurationInv /\ [Next]_vars => DurationInv'
<1> SUFFICES ASSUME IInv, ClockInv, DurationInv, [Next]_vars PROVE DurationInv'
  OBVIOUS
<1>a. now \in Nat /\ node = [z \in Zones |-> node[z]]
  BY DEF IInv, HistoryInv
<1>b. ASSUME NEW z \in Zones, NEW n, node' = [node EXCEPT ![z] = n],
             n # Nil => \A s \in Series(z) : n.s[s].time \in Nat
      PROVE  DurationInv'
  <2>1. ASSUME NEW y \in Zones, node'[y] # Nil, NEW s \in Series(y)
        PROVE  node'[y].s[s].time \in Nat
    <3>1. CASE y = z
      BY <1>a, <1>b, <2>1, <3>1
    <3>2. CASE y # z
      BY <1>a, <1>b, <2>1, <3>2 DEF DurationInv
    <3> QED
      BY <3>1, <3>2
  <2> QED
    BY <2>1 DEF DurationInv, Series
<1>1. ASSUME NEW z \in Zones, AddNode(z) PROVE DurationInv'
  <2>1. PICK m \in [Series(z) -> Msecs] :
          node' = [node EXCEPT ![z] = IF @ = Nil THEN node_init(z, m)
                                                 ELSE node_set(z, m)]
    BY <1>1 DEF AddNode
  <2> DEFINE n == IF node[z] = Nil THEN node_init(z, m) ELSE node_set(z, m)
  <2>2. ASSUME NEW s \in Series(z) PROVE n.s[s].time \in Nat
    <3>1. m[s] \in Msecs /\ m[s] \in Nat
      BY <1>a, SampleType
    <3>2. CASE node[z] = Nil
      <4>1. n.s[s] = FirstTime(m[s])
        BY <3>2 DEF node_init
      <4>2. FirstTime(m[s]).time = m[s]
        BY DEF FirstTime
      <4> QED
        BY <3>1, <4>1, <4>2
    <3>3. CASE node[z] # Nil
      <4>1. n.s[s] = NextTime(node[z].s[s], m[s])
        BY <3>3 DEF node_set
      <4> DEFINE t == node[z].s[s]
                 q == time_queue_insert(t.times, Sample(m[s]))
                 l == Append(log[z][s], Sample(m[s]))
      <4>2. RingInv(t.times, log[z][s]) /\ log[z][s] \in Seq(Samples)
        BY <3>3 DEF IInv, HistoryInv, ZoneInv, NodeInv, SeriesInv
      <4>3. RingInv(q, l)
        BY <1>a, <3>1, <4>2, InsertKeepsNewest, SampleType
      <4>4. Dated(l)
        BY <3>1, LogDated, DatedAppend
      <4>5. NextTime(t, m[s]).time = time_queue_average(q)
        BY DEF NextTime
      <4> HIDE DEF q, l, t, n
      <4>6. time_queue_average(q) \in Nat
        BY <4>3, <4>4, AverageMeans DEF time_queue_average
      <4> QED
        BY <4>1, <4>5, <4>6 DEF t
    <3> QED
      BY <3>2, <3>3
  <2>3. node' = [node EXCEPT ![z] = n]
    BY <1>a, <2>1
  <2> HIDE DEF n
  <2> QED
    BY <1>b, <2>2, <2>3
<1>2. ASSUME NEW z \in Zones, Reset(z) PROVE DurationInv'
  <2>1. node[z] # Nil /\ node' = [node EXCEPT ![z] = node_zero(node[z])]
    BY <1>2 DEF Reset
  <2>2. NodeInv(z, node[z], log[z], since[z])
    BY <2>1 DEF IInv, ZoneInv
  <2>3. DOMAIN node[z].s = Series(z)
    BY <2>2 DEF NodeInv
  <2>4. ASSUME NEW s \in Series(z) PROVE node_zero(node[z]).s[s].time \in Nat
    <3>1. node_zero(node[z]).s[s] = [node[z].s[s] EXCEPT !.total = Zero, !.time = 0]
      BY <2>3 DEF node_zero
    <3>2. PICK a, b, q, h :
            node[z].s[s] = [total |-> a, time |-> b, times |-> q, buckets |-> h]
      <4>1. SeriesInv(node[z].s[s], log[z][s], since[z].msec[s])
        BY <2>2 DEF NodeInv
      <4> QED
        BY <4>1 DEF SeriesInv
    <3> QED
      BY <3>1, <3>2
  <2> DEFINE n == node_zero(node[z])
  <2> HIDE DEF n
  <2> QED
    BY <1>b, <2>1, <2>4 DEF n
<1>3. ASSUME NEW z \in Zones, Delete(z) PROVE DurationInv'
  BY <1>b, <1>3 DEF Delete
<1>4. CASE Display
  BY <1>4, DisplayKeepsNodes DEF DurationInv, Series
<1>5. CASE Tick
  BY <1>5 DEF Tick, DurationInv, Series
<1>6. CASE SetBack
  BY <1>6 DEF SetBack, DurationInv, Series
<1>7. CASE UNCHANGED vars
  BY <1>7 DEF vars, DurationInv, Series
<1> QED
  BY <1>1, <1>2, <1>3, <1>4, <1>5, <1>6, <1>7 DEF Next
-----------------------------------------------------------------------------
(* The sums of a display *)

Sums == [requests : Counters, total : Counters, times : Rings]

Turns == [i : Pos, j : Pos, k : Pos, times : [Pos -> Samples], more : BOOLEAN]

FirstTurn(a, b) ==
  [i |-> a.rear, j |-> b.rear, k |-> time_queue_init.rear,
   times |-> time_queue_init.times, more |-> TRUE]

(* One turn of time_queue_merge. *)
MergeStep(a, b, t) ==
  LET sa == Before(a, t.i)
      sb == Before(b, t.j)
      s == IF sa.time > sb.time THEN sa ELSE sb
  IN IF ~t.more \/ Horizon >= s.time
       THEN [t EXCEPT !.more = FALSE]
       ELSE [t EXCEPT
               !.i = IF sa.time > sb.time THEN PrevPos(@) ELSE @,
               !.j = IF sa.time > sb.time THEN @ ELSE PrevPos(@),
               !.k = PrevPos(@),
               !.times = [@ EXCEPT ![PrevPos(t.k)] = s]]

MergeBody(a, b, g) ==
  [n \in 0..(QUEUE_LEN - 1) |-> IF n = 0 THEN FirstTurn(a, b)
                                ELSE MergeStep(a, b, g[n - 1])]

LEMMA MergeUnfolds ==
  ASSUME NEW a, NEW b
  PROVE  time_queue_merge(a, b) =
           [time_queue_init EXCEPT
              !.times = (CHOOSE g : g = MergeBody(a, b, g))[QUEUE_LEN - 1].times]
  BY DEF time_queue_merge, MergeBody, MergeStep, FirstTurn

(* The position before i. *)
LEMMA PreviousPosition == \A i \in Pos : PrevPos(i) \in Pos
<1> SUFFICES ASSUME NEW i \in Pos PROVE PrevPos(i) \in Pos
  OBVIOUS
<1>1. QUEUE_LEN \in Nat /\ QUEUE_LEN > 1
  BY NodeAssumption
<1>2. i \in Int /\ i + QUEUE_LEN - 1 \in Int
  BY <1>1 DEF Pos
<1> QED
  BY <1>1, <1>2 DEF Pos, PrevPos

LEMMA FirstTurnType ==
  ASSUME NEW a \in Rings, NEW b \in Rings
  PROVE  FirstTurn(a, b) \in Turns
<1>1. time_queue_init \in Rings
  BY InitialRing DEF RingInv
<1> QED
  BY <1>1 DEF FirstTurn, Turns, Rings

LEMMA MergeStepType ==
  ASSUME NEW a \in Rings, NEW b \in Rings, NEW t \in Turns
  PROVE  MergeStep(a, b, t) \in Turns
<1> DEFINE sa == Before(a, t.i)
           sb == Before(b, t.j)
           s == IF sa.time > sb.time THEN sa ELSE sb
           k == PrevPos(t.k)
<1>1. /\ t.i \in Pos /\ t.j \in Pos /\ t.k \in Pos
      /\ t.times \in [Pos -> Samples] /\ t.more \in BOOLEAN
      /\ t = [i |-> t.i, j |-> t.j, k |-> t.k, times |-> t.times, more |-> t.more]
  BY DEF Turns
<1>2. PrevPos(t.i) \in Pos /\ PrevPos(t.j) \in Pos /\ k \in Pos
  BY <1>1, PreviousPosition
<1>3. sa \in Samples /\ sb \in Samples
  BY <1>2 DEF Before, Rings
<1>4. s \in Samples
  BY <1>3
<1>5. CASE ~t.more \/ Horizon >= s.time
  <2>1. MergeStep(a, b, t) = [t EXCEPT !.more = FALSE]
    BY <1>5 DEF MergeStep
  <2> QED
    BY <2>1 DEF Turns
<1>6. CASE ~(~t.more \/ Horizon >= s.time)
  <2> DEFINE i1 == IF sa.time > sb.time THEN PrevPos(t.i) ELSE t.i
             j1 == IF sa.time > sb.time THEN t.j ELSE PrevPos(t.j)
             times1 == [t.times EXCEPT ![k] = s]
  <2>1. MergeStep(a, b, t) = [t EXCEPT !.i = i1, !.j = j1, !.k = k, !.times = times1]
    BY <1>6 DEF MergeStep
  <2>2. i1 \in Pos /\ j1 \in Pos /\ times1 \in [Pos -> Samples]
    BY <1>1, <1>2, <1>4
  <2> DEFINE u1 == [t EXCEPT !.i = i1]
             u2 == [u1 EXCEPT !.j = j1]
             u3 == [u2 EXCEPT !.k = k]
             u4 == [u3 EXCEPT !.times = times1]
  <2>3. MergeStep(a, b, t) = u4
    BY <2>1
  <2> HIDE DEF i1, j1, times1, k
  <2>4. u1 \in Turns
    BY <2>2 DEF Turns
  <2> HIDE DEF u1
  <2>5. u2 \in Turns
    BY <2>2, <2>4 DEF Turns
  <2> HIDE DEF u2
  <2>6. u3 \in Turns
    BY <1>2, <2>5 DEF Turns
  <2> HIDE DEF u3
  <2>7. u4 \in Turns
    BY <2>2, <2>6 DEF Turns
  <2> QED
    BY <2>3, <2>7
<1> QED
  BY <1>5, <1>6

(* The turns of a merge. *)
LEMMA MergeTurns ==
  ASSUME NEW a \in Rings, NEW b \in Rings
  PROVE  \E c : /\ c[0] = FirstTurn(a, b)
                /\ \A i \in 1 .. (QUEUE_LEN - 1) : c[i] = MergeStep(a, b, c[i - 1])
                /\ \A i \in 0 .. (QUEUE_LEN - 1) : c[i] \in Turns
                /\ time_queue_merge(a, b)
                     = [time_queue_init EXCEPT !.times = c[QUEUE_LEN - 1].times]
<1> DEFINE n == QUEUE_LEN - 1
           f == [i \in 1..n |-> [t \in Turns |-> MergeStep(a, b, t)]]
           c == CHOOSE g : g = MergeBody(a, b, g)
           T == {i \in 0..n : c[i] \in Turns}
<1>1. n \in Nat
  BY NodeAssumption
<1>2. FirstTurn(a, b) \in Turns
  BY FirstTurnType
<1>3. f \in [1..n -> [Turns -> Turns]]
  BY MergeStepType
<1>4. PICK g \in [0..n -> Turns] : g = Steps(n, FirstTurn(a, b), f, g)
  <2> HIDE DEF n, f
  <2> QED
    BY <1>1, <1>2, <1>3, StepsExist
<1>5. ASSUME NEW i \in 0..n, i # 0
      PROVE  f[i][g[i - 1]] = MergeStep(a, b, g[i - 1])
  <2>1. i \in 1..n /\ i - 1 \in 0..n
    BY <1>1, <1>5
  <2>2. g[i - 1] \in Turns
    BY <1>4, <2>1
  <2> QED
    BY <2>1, <2>2
<1>6. g = MergeBody(a, b, g)
  <2>1. Steps(n, FirstTurn(a, b), f, g) = MergeBody(a, b, g)
    <3> HIDE DEF f
    <3> QED
      BY <1>5 DEF Steps, MergeBody
  <2> QED
    BY <1>4, <2>1
<1>7. c = MergeBody(a, b, c)
  BY <1>6
<1>14. time_queue_merge(a, b) = [time_queue_init EXCEPT !.times = c[n].times]
  BY MergeUnfolds
<1> HIDE DEF c, f
<1>8. \A i \in 0..n : c[i] = IF i = 0 THEN FirstTurn(a, b) ELSE MergeStep(a, b, c[i - 1])
  BY <1>7 DEF MergeBody
<1>9. 0 \in T
  BY <1>1, <1>2, <1>8
<1>10. ASSUME NEW i \in 1..n, i - 1 \in T PROVE i \in T
  <2>1. c[i] = MergeStep(a, b, c[i - 1])
    BY <1>1, <1>8
  <2> QED
    BY <1>1, <1>10, <2>1, MergeStepType
<1>11. \A i \in 0..n : i \in T
  <2> HIDE DEF T, n
  <2> QED
    BY <1>1, <1>9, <1>10, InductionUpTo
<1>12. c[0] = FirstTurn(a, b)
  BY <1>1, <1>8
<1>13. \A i \in 1..n : c[i] = MergeStep(a, b, c[i - 1])
  BY <1>1, <1>8
<1> QED
  BY <1>11, <1>12, <1>13, <1>14

(* Merging rings makes a ring, and one with its end at the last position.  *)
LEMMA MergeRing ==
  ASSUME NEW a \in Rings, NEW b \in Rings
  PROVE  /\ time_queue_merge(a, b) \in Rings
         /\ time_queue_merge(a, b).rear = QUEUE_LEN - 1
         /\ time_queue_merge(a, b).front = NextPos(QUEUE_LEN - 1)
<1>1. PICK c : /\ \A i \in 0 .. (QUEUE_LEN - 1) : c[i] \in Turns
               /\ time_queue_merge(a, b)
                     = [time_queue_init EXCEPT !.times = c[QUEUE_LEN - 1].times]
  BY MergeTurns
<1>2. QUEUE_LEN - 1 \in 0 .. (QUEUE_LEN - 1)
  BY NodeAssumption
<1>3. c[QUEUE_LEN - 1].times \in [Pos -> Samples]
  BY <1>1, <1>2 DEF Turns
<1>4. /\ time_queue_init \in Rings /\ time_queue_init.rear = QUEUE_LEN - 1
      /\ time_queue_init.front = NextPos(time_queue_init.rear)
  BY InitialRing DEF RingInv, time_queue_init
<1> QED
  BY <1>1, <1>3, <1>4 DEF Rings
-----------------------------------------------------------------------------
(* Rings from their ends *)

(* The m-th position before r. *)
Back(r, m) == (r + QUEUE_LEN - m) % QUEUE_LEN

(* What a ring that ends before r holds, the newest first. *)
FromEnd(times, r) == [m \in 1 .. (QUEUE_LEN - 1) |-> times[Back(r, m)]]

LEMMA BackIs ==
  ASSUME NEW r \in Pos, NEW m \in Pos
  PROVE  /\ Back(r, m) \in Pos
         /\ Back(r, m) = IF m <= r THEN r - m ELSE r + QUEUE_LEN - m
         /\ m + 1 \in Pos => PrevPos(Back(r, m)) = Back(r, m + 1)
<1> DEFINE Q == QUEUE_LEN
<1>0. Q \in Nat /\ Q > 1 /\ r \in 0..(Q - 1) /\ m \in 0..(Q - 1)
  BY NodeAssumption DEF Pos
<1>1. ASSUME NEW k \in 0..(Q - 1)
      PROVE  Back(r, k) = IF k <= r THEN r - k ELSE r + Q - k
  <2>1. CASE k <= r
    <3> DEFINE x == r + Q - k
    <3>1. x \in Q..(2 * Q - 1) /\ x - Q = r - k
      BY <1>0, <2>1
    <3> HIDE DEF x
    <3>2. x % Q = x - Q
      BY <3>1, RingModulo
    <3> QED
      BY <2>1, <3>1, <3>2 DEF Back, x
  <2>2. CASE ~(k <= r)
    <3> DEFINE x == r + Q - k
    <3>1. x \in 0..(Q - 1)
      BY <1>0, <2>2
    <3> HIDE DEF x
    <3>2. x % Q = x
      BY <3>1, RingModulo DEF Pos
    <3> QED
      BY <2>2, <3>2 DEF Back, x
  <2> QED
    BY <2>1, <2>2
<1>2. ASSUME NEW k \in 0..(Q - 1)
      PROVE  PrevPos(k) = IF k = 0 THEN Q - 1 ELSE k - 1
  <2>1. CASE k = 0
    <3>1. k + Q - 1 = Q - 1 /\ Q - 1 \in 0..(Q - 1)
      BY <1>0, <2>1
    <3> HIDE DEF Q
    <3> QED
      BY <2>1, <3>1, RingModulo DEF PrevPos, Pos, Q
  <2>2. CASE k # 0
    <3> DEFINE x == k + Q - 1
    <3>1. x \in Q..(2 * Q - 1) /\ x - Q = k - 1
      BY <1>0, <2>2
    <3> HIDE DEF x
    <3>2. x % Q = x - Q
      BY <3>1, RingModulo
    <3> QED
      BY <2>2, <3>1, <3>2 DEF PrevPos, x
  <2> QED
    BY <2>1, <2>2
<1> DEFINE b == Back(r, m)
           c == Back(r, m + 1)
<1>3. b = IF m <= r THEN r - m ELSE r + Q - m
  BY <1>0, <1>1
<1>4. b \in 0..(Q - 1)
  BY <1>0, <1>3
<1>5. ASSUME m + 1 \in 0..(Q - 1) PROVE PrevPos(b) = c
  <2>1. c = IF m + 1 <= r THEN r - (m + 1) ELSE r + Q - (m + 1)
    BY <1>1, <1>5
  <2>2. PrevPos(b) = IF b = 0 THEN Q - 1 ELSE b - 1
    BY <1>2, <1>4
  <2> HIDE DEF b, c, Q
  <2> QED
    BY <1>0, <1>3, <1>5, <2>1, <2>2
<1> QED
  BY <1>3, <1>4, <1>5 DEF Pos

(* A ring that is full, from its end: its entries, backwards. *)
LEMMA FromEndIs ==
  ASSUME NEW q \in Rings, q.front = NextPos(q.rear)
  PROVE  /\ FromEnd(q.times, q.rear) \in [1 .. (QUEUE_LEN - 1) -> Samples]
         /\ DOMAIN Entries(q) = 1 .. (QUEUE_LEN - 1)
         /\ \A m \in 1 .. (QUEUE_LEN - 1) :
              /\ QUEUE_LEN - m \in 1 .. (QUEUE_LEN - 1)
              /\ Entries(q)[QUEUE_LEN - m] = FromEnd(q.times, q.rear)[m]
<1> DEFINE Q == QUEUE_LEN
           r == q.rear
           f == q.front
<1>0. Q \in Nat /\ Q > 1 /\ r \in 0..(Q - 1) /\ f \in 0..(Q - 1) /\ q.times \in [Pos -> Samples]
  BY NodeAssumption DEF Pos, Rings
<1>1. f = IF r = Q - 1 THEN 0 ELSE r + 1
  BY <1>0, NextPosition DEF Pos
<1>2. Length(q) = Q - 1
  BY FullLength
<1>3. Entries(q) = [i \in 1..(Q - 1) |-> q.times[Index(f, i)]]
  BY <1>2 DEF Entries, Index
<1>4. ASSUME NEW m \in 1..(Q - 1)
      PROVE  /\ Q - m \in 1..(Q - 1) /\ Index(f, Q - m) = Back(r, m)
             /\ Back(r, m) \in Pos
  <2> DEFINE i == Q - m
             x == Index(f, i)
             b == Back(r, m)
  <2>1. i \in 1..(Q - 1)
    BY <1>0
  <2>2. x = IF f + i - 1 < Q THEN f + i - 1 ELSE f + i - 1 - Q
    BY <1>0, <2>1, IndexValue DEF Pos
  <2>3. b = (IF m <= r THEN r - m ELSE r + Q - m) /\ b \in Pos
    <3>1. m \in Pos /\ r \in Pos
      BY <1>0 DEF Pos
    <3> QED
      BY <3>1, BackIs
  <2> HIDE DEF x, b, r, f, Q
  <2>4. x = b
    BY <1>0, <1>1, <2>2, <2>3
  <2> QED
    BY <2>1, <2>3, <2>4 DEF x, b
<1> HIDE DEF Q, r, f
<1>5. FromEnd(q.times, r) \in [1..(Q - 1) -> Samples]
  BY <1>0, <1>4 DEF FromEnd, Q
<1>6. ASSUME NEW m \in 1..(Q - 1) PROVE Entries(q)[Q - m] = FromEnd(q.times, r)[m]
  BY <1>3, <1>4 DEF FromEnd, Q
<1> QED
  BY <1>3, <1>4, <1>5, <1>6 DEF Q, r

(* A sample put at the l-th position before the end. *)
LEMMA FromEndPut ==
  ASSUME NEW times, NEW g, NEW r \in Pos, NEW l \in 1 .. (QUEUE_LEN - 1), NEW s,
         \A i \in Pos : g[i] = IF i = Back(r, l) THEN s ELSE times[i]
  PROVE  \A m \in 1 .. (QUEUE_LEN - 1) :
           FromEnd(g, r)[m] = IF m = l THEN s ELSE FromEnd(times, r)[m]
<1> DEFINE Q == QUEUE_LEN
<1>0. Q \in Nat /\ Q > 1 /\ r \in 0..(Q - 1) /\ l \in 1..(Q - 1)
  BY NodeAssumption DEF Pos
<1>1. ASSUME NEW m \in 1..(Q - 1)
      PROVE  Back(r, m) \in Pos /\ (Back(r, m) = Back(r, l) <=> m = l)
  <2>1. m \in Pos /\ l \in Pos
    BY <1>0 DEF Pos
  <2>2. /\ Back(r, m) \in Pos
        /\ Back(r, m) = IF m <= r THEN r - m ELSE r + Q - m
        /\ Back(r, l) = IF l <= r THEN r - l ELSE r + Q - l
    BY <2>1, BackIs
  <2> HIDE DEF Q
  <2> QED
    BY <1>0, <2>2
<1> HIDE DEF Q
<1> QED
  BY <1>1 DEF FromEnd, Q
-----------------------------------------------------------------------------
(* How many samples of a kind *)

(* Which of the first n are in E, and how many. *)
Hit(f, n, E) == {m \in 1..n : f[m] \in E}
Hits(f, n, E) == Cardinality(Hit(f, n, E))

(* They are a number, at most n. *)
LEMMA HitsType ==
  ASSUME NEW f, NEW n \in Nat, NEW E
  PROVE  IsFiniteSet(Hit(f, n, E)) /\ Hits(f, n, E) \in Nat /\ Hits(f, n, E) <= n
<1>1. IsFiniteSet(1..n) /\ Cardinality(1..n) = n
  BY FS_Interval
<1>2. Hit(f, n, E) \subseteq 1..n
  BY DEF Hit
<1>3. IsFiniteSet(Hit(f, n, E)) /\ Cardinality(Hit(f, n, E)) <= n
  BY <1>1, <1>2, FS_Subset
<1>4. Cardinality(Hit(f, n, E)) \in Nat
  BY <1>3, FS_CardinalityType
<1> QED
  BY <1>3, <1>4 DEF Hits

(* Nothing of nothing. *)
LEMMA HitsNone == \A f, E : Hits(f, 0, E) = 0
<1> SUFFICES ASSUME NEW f, NEW E PROVE Hits(f, 0, E) = 0
  OBVIOUS
<1>1. Hit(f, 0, E) = {}
  BY DEF Hit
<1> QED
  BY <1>1, FS_EmptySet DEF Hits

(* One more. *)
LEMMA HitsNext ==
  ASSUME NEW f, NEW n \in Nat, NEW E
  PROVE  Hits(f, n + 1, E) = IF f[n + 1] \in E THEN Hits(f, n, E) + 1 ELSE Hits(f, n, E)
<1>1. 1..(n + 1) = 1..n \cup {n + 1} /\ n + 1 \notin 1..n
  OBVIOUS
<1>2. CASE f[n + 1] \in E
  <2>1. Hit(f, n + 1, E) = Hit(f, n, E) \cup {n + 1} /\ n + 1 \notin Hit(f, n, E)
    BY <1>1, <1>2 DEF Hit
  <2>2. IsFiniteSet(Hit(f, n, E))
    BY HitsType
  <2>3. Cardinality(Hit(f, n, E) \cup {n + 1}) = Cardinality(Hit(f, n, E)) + 1
    BY <2>1, <2>2, FS_AddElement
  <2> QED
    BY <1>2, <2>1, <2>3 DEF Hits
<1>3. CASE f[n + 1] \notin E
  <2>1. Hit(f, n + 1, E) = Hit(f, n, E)
    BY <1>1, <1>3 DEF Hit
  <2> QED
    BY <1>3, <2>1 DEF Hits
<1> QED
  BY <1>2, <1>3

(* They depend on these only. *)
LEMMA HitsSame ==
  ASSUME NEW f, NEW g, NEW n \in Nat, NEW E, \A m \in 1..n : f[m] = g[m]
  PROVE  Hits(f, n, E) = Hits(g, n, E)
<1>1. Hit(f, n, E) = Hit(g, n, E)
  BY DEF Hit
<1> QED
  BY <1>1 DEF Hits

(* More of more. *)
LEMMA HitsMore ==
  ASSUME NEW f, NEW n \in Nat, NEW k \in Nat, n <= k, NEW E
  PROVE  /\ Hits(f, n, E) <= Hits(f, k, E)
         /\ (\A m \in (n + 1)..k : f[m] \notin E) => Hits(f, k, E) = Hits(f, n, E)
<1>1. Hit(f, n, E) \subseteq Hit(f, k, E) /\ IsFiniteSet(Hit(f, k, E))
  <2>1. 1..n \subseteq 1..k
    OBVIOUS
  <2> QED
    BY <2>1, HitsType DEF Hit
<1>2. Hits(f, n, E) <= Hits(f, k, E)
  BY <1>1, FS_Subset DEF Hits
<1>3. ASSUME \A m \in (n + 1)..k : f[m] \notin E PROVE Hits(f, k, E) = Hits(f, n, E)
  <2>1. \A m \in 1..k : m \in 1..n \/ m \in (n + 1)..k
    OBVIOUS
  <2>2. Hit(f, k, E) \subseteq Hit(f, n, E)
    BY <1>3, <2>1 DEF Hit
  <2> QED
    BY <1>1, <2>2 DEF Hits
<1> QED
  BY <1>2, <1>3

(* All of them, if all are there. *)
LEMMA HitsAll ==
  ASSUME NEW f, NEW n \in Nat, NEW E, \A m \in 1..n : f[m] \in E
  PROVE  Hits(f, n, E) = n
<1>1. Hit(f, n, E) = 1..n
  BY DEF Hit
<1> QED
  BY <1>1, FS_Interval DEF Hits

(* Newest first. *)
Desc(f) == \A l \in 1 .. (QUEUE_LEN - 1) : \A m \in 1..l : f[m].time >= f[l].time

(* C is what x of A and y of B, the newest first, make together. *)
Counts(A, B, C, x, y) ==
  \A E : Hits(C, x + y, E) = Hits(A, x, E) + Hits(B, y, E)

(* C is in order, and what is left of A and B is no newer.                *)
Ordered(A, B, C, x, y) ==
  /\ \A l \in 1..(x + y) : \A m \in 1..l : C[m].time >= C[l].time
  /\ \A m \in 1..(x + y) : /\ x < QUEUE_LEN - 1 => A[x + 1].time <= C[m].time
                           /\ y < QUEUE_LEN - 1 => B[y + 1].time <= C[m].time

(* C holds these, all of them recent, and nothing else.                    *)
Partial(A, B, C, x, y) ==
  /\ x \in Nat /\ y \in Nat /\ x + y \in 0 .. (QUEUE_LEN - 1)
  /\ \A m \in (x + y + 1) .. (QUEUE_LEN - 1) : C[m] = NoSample
  /\ \A m \in 1..(x + y) : C[m].time > Horizon
  /\ Counts(A, B, C, x, y)
  /\ Desc(A) /\ Desc(B) => Ordered(A, B, C, x, y)

(* What a full ring holds. *)
Lists == [1 .. (QUEUE_LEN - 1) -> Samples]

(* The sides are alike. *)
LEMMA PartialSwap ==
  ASSUME NEW A, NEW B, NEW C, NEW x, NEW y, Partial(A, B, C, x, y)
  PROVE  Partial(B, A, C, y, x)
<1>1. x \in Nat /\ y \in Nat /\ x + y = y + x
  BY DEF Partial
<1>2. Counts(B, A, C, y, x)
  <2> SUFFICES ASSUME NEW E PROVE Hits(C, y + x, E) = Hits(B, y, E) + Hits(A, x, E)
    BY DEF Counts
  <2>1. Hits(C, x + y, E) = Hits(A, x, E) + Hits(B, y, E)
    BY DEF Partial, Counts
  <2>2. Hits(A, x, E) \in Nat /\ Hits(B, y, E) \in Nat
    BY <1>1, HitsType
  <2> QED
    BY <1>1, <2>1, <2>2
<1>3. Ordered(A, B, C, x, y) => Ordered(B, A, C, y, x)
  BY <1>1 DEF Ordered
<1> QED
  BY <1>1, <1>2, <1>3 DEF Partial

(* Nothing taken. *)
LEMMA PartialStart ==
  ASSUME NEW A, NEW B, NEW C, \A m \in 1 .. (QUEUE_LEN - 1) : C[m] = NoSample
  PROVE  Partial(A, B, C, 0, 0)
<1>1. QUEUE_LEN \in Nat /\ QUEUE_LEN > 1
  BY NodeAssumption
<1>2. Counts(A, B, C, 0, 0)
  BY HitsNone DEF Counts
<1>3. Ordered(A, B, C, 0, 0)
  BY DEF Ordered
<1> QED
  BY <1>1, <1>2, <1>3 DEF Partial

(* One more of A, if that is the newer one. *)
LEMMA PartialTake ==
  ASSUME NEW A \in Lists, NEW B \in Lists, NEW C \in Lists, NEW x, NEW y,
         Partial(A, B, C, x, y), x + y < QUEUE_LEN - 1,
         A[x + 1].time > Horizon, A[x + 1].time >= B[y + 1].time
  PROVE  Partial(A, B, [C EXCEPT ![x + y + 1] = A[x + 1]], x + 1, y)
<1> DEFINE Q == QUEUE_LEN
           s == A[x + 1]
           n == x + y
           D == [C EXCEPT ![n + 1] = s]
<1>0. Q \in Nat /\ Q > 1
  BY NodeAssumption
<1>1. /\ x \in Nat /\ y \in Nat /\ n \in 0..(Q - 1) /\ n < Q - 1 /\ n \in Nat
      /\ (x + 1) + y = n + 1 /\ n + 1 \in 1..(Q - 1) /\ x + 1 \in 1..(Q - 1) /\ y + 1 \in 1..(Q - 1)
  BY <1>0 DEF Partial
<1>2. /\ \A m \in 1..(Q - 1) : D[m] = IF m = n + 1 THEN s ELSE C[m]
      /\ D[n + 1] = s
      /\ \A m \in 1..n : D[m] = C[m] /\ m \in 1..(Q - 1)
  <2>1. \A m \in 1..(Q - 1) : D[m] = IF m = n + 1 THEN s ELSE C[m]
    BY DEF Lists
  <2>2. \A m \in 1..n : m \in 1..(Q - 1) /\ m # n + 1
    BY <1>0, <1>1
  <2> HIDE DEF D
  <2> QED
    BY <1>1, <2>1, <2>2
<1> HIDE DEF D
<1>3. \A m \in (n + 1 + 1)..(Q - 1) : D[m] = NoSample
  <2>1. ASSUME NEW m \in (n + 1 + 1)..(Q - 1)
        PROVE  m \in (n + 1)..(Q - 1) /\ m # n + 1 /\ m \in 1..(Q - 1)
    BY <1>0, <1>1
  <2>2. \A m \in (n + 1)..(Q - 1) : C[m] = NoSample
    BY DEF Partial
  <2> QED
    BY <1>2, <2>1, <2>2
<1>4. \A m \in 1..(n + 1) : m \in 1..n \/ m = n + 1
  BY <1>1
<1>5. \A m \in 1..(n + 1) : D[m].time > Horizon
  <2>1. \A m \in 1..n : C[m].time > Horizon
    BY DEF Partial
  <2> QED
    BY <1>2, <1>4, <2>1
<1>6. Counts(A, B, D, x + 1, y)
  <2> SUFFICES ASSUME NEW E PROVE Hits(D, n + 1, E) = Hits(A, x + 1, E) + Hits(B, y, E)
    BY <1>1 DEF Counts
  <2>1. Hits(C, n, E) = Hits(A, x, E) + Hits(B, y, E)
    BY DEF Partial, Counts
  <2>2. Hits(D, n, E) = Hits(C, n, E)
    BY <1>1, <1>2, HitsSame
  <2>3. Hits(D, n + 1, E) = IF s \in E THEN Hits(D, n, E) + 1 ELSE Hits(D, n, E)
    BY <1>1, <1>2, HitsNext
  <2>4. Hits(A, x + 1, E) = IF s \in E THEN Hits(A, x, E) + 1 ELSE Hits(A, x, E)
    BY <1>1, HitsNext
  <2>5. Hits(A, x, E) \in Nat /\ Hits(B, y, E) \in Nat
    BY <1>1, HitsType
  <2> QED
    BY <2>1, <2>2, <2>3, <2>4, <2>5
<1>7. ASSUME Desc(A), Desc(B) PROVE Ordered(A, B, D, x + 1, y)
  <2>1. /\ \A l \in 1..n : \A m \in 1..l : C[m].time >= C[l].time
        /\ \A m \in 1..n : s.time <= C[m].time
    BY <1>0, <1>1, <1>7 DEF Partial, Ordered
  <2>2. ASSUME NEW l \in 1..(n + 1), NEW m \in 1..l PROVE D[m].time >= D[l].time
    <3>1. CASE l \in 1..n
      <4>1. m \in 1..n
        BY <1>1, <3>1
      <4> QED
        BY <1>2, <2>1, <3>1, <4>1
    <3>2. CASE l = n + 1
      <4>1. m \in 1..n \/ m = n + 1
        BY <1>4, <3>2
      <4>2. s.time \in Nat
        BY <1>1 DEF Lists, Samples
      <4>3. m \in 1..n => C[m].time \in Nat
        BY <1>2 DEF Lists, Samples
      <4> QED
        BY <1>2, <2>1, <3>2, <4>1, <4>2, <4>3
    <3> QED
      BY <1>4, <3>1, <3>2
  <2>3. ASSUME NEW m \in 1..(n + 1)
        PROVE  /\ x + 1 < Q - 1 => A[x + 1 + 1].time <= D[m].time
               /\ y < Q - 1 => B[y + 1].time <= D[m].time
    <3>1. s.time \in Nat /\ B[y + 1].time \in Nat /\ D[m].time \in Nat
      <4>1. s \in Samples /\ B[y + 1] \in Samples
        BY <1>1 DEF Lists
      <4>2. D[m] \in Samples
        BY <1>2, <1>4, <4>1 DEF Lists
      <4> QED
        BY <4>1, <4>2 DEF Samples
    <3>2. s.time <= D[m].time
      BY <1>2, <1>4, <2>1, <3>1
    <3>3. B[y + 1].time <= s.time
      BY <3>1
    <3>4. ASSUME x + 1 < Q - 1 PROVE A[x + 1 + 1].time <= s.time /\ A[x + 1 + 1].time \in Nat
      <4>1. x + 1 + 1 \in 1..(Q - 1) /\ x + 1 \in 1..(x + 1 + 1)
        BY <1>0, <1>1, <3>4
      <4>2. A[x + 1 + 1].time \in Nat
        BY <4>1 DEF Lists, Samples
      <4>3. s.time >= A[x + 1 + 1].time
        BY <1>7, <4>1 DEF Desc
      <4> QED
        BY <3>1, <4>2, <4>3
    <3> HIDE DEF s
    <3> QED
      BY <3>1, <3>2, <3>3, <3>4
  <2> QED
    BY <1>1, <2>2, <2>3 DEF Ordered
<1>8. Partial(A, B, D, x + 1, y)
  <2>1. x + 1 \in Nat /\ (x + 1) + y \in 0..(Q - 1) /\ (x + 1) + y + 1 = n + 1 + 1
    BY <1>0, <1>1
  <2> QED
    BY <1>1, <1>3, <1>5, <1>6, <1>7, <2>1 DEF Partial
<1> QED
  BY <1>8 DEF D
-----------------------------------------------------------------------------
(* What a merge takes *)

(* A turn after which x samples of a and y of b have been taken, of n.     *)
AtTurn(a, b, t, n, x, y) ==
  LET A == FromEnd(a.times, a.rear)
      B == FromEnd(b.times, b.rear)
  IN  /\ Partial(A, B, FromEnd(t.times, QUEUE_LEN - 1), x, y)
      /\ t.i = Back(a.rear, x) /\ t.j = Back(b.rear, y) /\ t.k = Back(QUEUE_LEN - 1, x + y)
      /\ x + y <= n
      /\ t.more => x + y = n
      /\ ~t.more => /\ x + y < QUEUE_LEN - 1
                    /\ A[x + 1].time <= Horizon /\ B[y + 1].time <= Horizon

(* One more turn takes the newer of the two next samples, or none.         *)
LEMMA TurnNext ==
  ASSUME NEW a \in Rings, a.front = NextPos(a.rear), NEW b \in Rings, b.front = NextPos(b.rear),
         NEW t \in Turns, NEW n \in 1 .. (QUEUE_LEN - 1), NEW x, NEW y, Horizon \in Nat,
         AtTurn(a, b, t, n - 1, x, y)
  PROVE  \E v, w : AtTurn(a, b, MergeStep(a, b, t), n, v, w)
<1> DEFINE Q == QUEUE_LEN
           A == FromEnd(a.times, a.rear)
           B == FromEnd(b.times, b.rear)
           C == FromEnd(t.times, Q - 1)
           sa == Before(a, t.i)
           sb == Before(b, t.j)
           s == IF sa.time > sb.time THEN sa ELSE sb
           u == MergeStep(a, b, t)
<1>0. Q \in Nat /\ Q > 1 /\ n \in 1..(Q - 1)
  BY NodeAssumption
<1>1. /\ Partial(A, B, C, x, y)
      /\ t.i = Back(a.rear, x) /\ t.j = Back(b.rear, y) /\ t.k = Back(Q - 1, x + y)
      /\ x + y <= n - 1
      /\ t.more => x + y = n - 1
      /\ ~t.more => x + y < Q - 1 /\ A[x + 1].time <= Horizon /\ B[y + 1].time <= Horizon
  BY DEF AtTurn
<1>2. /\ x \in Nat /\ y \in Nat /\ x + y \in Nat
  BY <1>1 DEF Partial
<1>3. /\ t.i \in Pos /\ t.j \in Pos /\ t.k \in Pos
      /\ t.times \in [Pos -> Samples] /\ t.more \in BOOLEAN
      /\ t = [i |-> t.i, j |-> t.j, k |-> t.k, times |-> t.times, more |-> t.more]
  BY DEF Turns
<1>4. a.rear \in Pos /\ b.rear \in Pos /\ Q - 1 \in Pos
  BY <1>0 DEF Rings, Pos
<1>5. A \in Lists /\ B \in Lists /\ C \in Lists
  <2>1. A \in Lists /\ B \in Lists
    BY FromEndIs DEF Lists
  <2>2. ASSUME NEW m \in 1..(Q - 1) PROVE t.times[Back(Q - 1, m)] \in Samples
    <3>1. m \in Pos
      BY <1>0 DEF Pos
    <3>2. Back(Q - 1, m) \in Pos
      BY <1>4, <3>1, BackIs
    <3> QED
      BY <1>3, <3>2
  <2>3. C \in Lists
    BY <2>2 DEF FromEnd, Lists
  <2> QED
    BY <2>1, <2>3
<1>6. CASE ~t.more
  <2>1. u = [t EXCEPT !.more = FALSE]
    BY <1>6 DEF MergeStep
  <2>2. u.times = t.times /\ u.i = t.i /\ u.j = t.j /\ u.k = t.k /\ u.more = FALSE
    BY <1>3, <2>1
  <2>3. x + y <= n
    BY <1>0, <1>1, <1>2
  <2> HIDE DEF u
  <2>4. AtTurn(a, b, u, n, x, y)
    BY <1>1, <1>6, <2>2, <2>3 DEF AtTurn
  <2> QED
    BY <2>4 DEF u
<1>7. CASE t.more
  <2>1. /\ x + y = n - 1 /\ x + y < Q - 1 /\ x + 1 \in 1..(Q - 1) /\ y + 1 \in 1..(Q - 1)
        /\ x \in Pos /\ x + 1 \in Pos /\ y \in Pos /\ y + 1 \in Pos /\ x + y \in Pos
        /\ x + y + 1 \in Pos /\ x + y + 1 \in 1..(Q - 1) /\ x + y + 1 = n
    BY <1>0, <1>1, <1>2, <1>7 DEF Pos
  <2>2. /\ PrevPos(t.i) = Back(a.rear, x + 1) /\ PrevPos(t.j) = Back(b.rear, y + 1)
        /\ PrevPos(t.k) = Back(Q - 1, x + y + 1)
    <3>1. \A r \in Pos : \A m \in Pos : m + 1 \in Pos => PrevPos(Back(r, m)) = Back(r, m + 1)
      BY BackIs
    <3> DEFINE l == x + y
               e == Q - 1
    <3>2. e \in Pos /\ l \in Pos /\ l + 1 \in Pos /\ t.k = Back(e, l)
      BY <1>1, <1>4, <2>1
    <3> HIDE DEF l, e
    <3>3. PrevPos(t.k) = Back(e, l + 1)
      BY <3>1, <3>2
    <3>4. PrevPos(t.i) = Back(a.rear, x + 1)
      BY <1>1, <1>4, <2>1, <3>1
    <3>5. PrevPos(t.j) = Back(b.rear, y + 1)
      BY <1>1, <1>4, <2>1, <3>1
    <3> QED
      BY <3>3, <3>4, <3>5 DEF l, e
  <2>3. sa = A[x + 1] /\ sb = B[y + 1]
    BY <2>1, <2>2 DEF Before, FromEnd
  <2>4. sa \in Samples /\ sb \in Samples /\ sa.time \in Nat /\ sb.time \in Nat
    <3>1. A[x + 1] \in Samples /\ B[y + 1] \in Samples
      BY <1>5, <2>1 DEF Lists
    <3> HIDE DEF sa, sb
    <3> QED
      BY <2>3, <3>1 DEF Samples
  <2>5. CASE Horizon >= s.time
    <3>1. u = [t EXCEPT !.more = FALSE]
      BY <2>5 DEF MergeStep
    <3>2. u.times = t.times /\ u.i = t.i /\ u.j = t.j /\ u.k = t.k /\ u.more = FALSE
      BY <1>3, <3>1
    <3>3. A[x + 1].time <= Horizon /\ B[y + 1].time <= Horizon
      <4> HIDE DEF sa, sb
      <4> QED
        BY <2>3, <2>4, <2>5
    <3>4. x + y <= n
      BY <1>0, <2>1
    <3> HIDE DEF u
    <3>5. AtTurn(a, b, u, n, x, y)
      BY <1>1, <2>1, <3>2, <3>3, <3>4 DEF AtTurn
    <3> QED
      BY <3>5 DEF u
  <2>6. CASE ~(Horizon >= s.time)
    <3> DEFINE i1 == IF sa.time > sb.time THEN PrevPos(t.i) ELSE t.i
               j1 == IF sa.time > sb.time THEN t.j ELSE PrevPos(t.j)
               k == PrevPos(t.k)
               times1 == [t.times EXCEPT ![k] = s]
    <3>1. u = [t EXCEPT !.i = i1, !.j = j1, !.k = k, !.times = times1]
      BY <1>7, <2>6 DEF MergeStep
    <3>2. /\ u.i = i1 /\ u.j = j1 /\ u.k = k /\ u.times = times1 /\ u.more = t.more
      <4> HIDE DEF i1, j1, k, times1, u
      <4> QED
        BY <1>3, <3>1
    <3>3. FromEnd(times1, Q - 1) = [C EXCEPT ![x + y + 1] = s]
      <4> DEFINE l == x + y + 1
                 e == Q - 1
      <4>1. e \in Pos /\ l \in 1 .. (QUEUE_LEN - 1) /\ k = Back(e, l) /\ k \in Pos
        <5>1. x + y + 1 \in Pos /\ x + y + 1 \in 1 .. (QUEUE_LEN - 1) /\ Q - 1 \in Pos
          BY <1>4, <2>1
        <5>2. Back(Q - 1, x + y + 1) \in Pos
          BY <5>1, BackIs
        <5> QED
          BY <2>2, <5>1, <5>2
      <4>2. \A i \in Pos : times1[i] = IF i = Back(e, l) THEN s ELSE t.times[i]
        <5> HIDE DEF s, l, e
        <5> QED
          BY <1>3, <4>1
      <4> HIDE DEF s, k, l, e, times1
      <4>6. e \in Pos /\ l \in 1 .. (QUEUE_LEN - 1)
        BY <4>1
      <4>3. \A m \in 1 .. (QUEUE_LEN - 1) :
              FromEnd(times1, e)[m] = IF m = l THEN s ELSE FromEnd(t.times, e)[m]
        BY <4>2, <4>6, FromEndPut
      <4>4. [FromEnd(t.times, e) EXCEPT ![l] = s]
              = [m \in 1 .. (QUEUE_LEN - 1) |-> IF m = l THEN s ELSE FromEnd(t.times, e)[m]]
        <5>1. DOMAIN FromEnd(t.times, e) = 1 .. (QUEUE_LEN - 1)
          BY DEF FromEnd
        <5> QED
          BY <5>1
      <4>5. FromEnd(times1, e)
              = [m \in 1 .. (QUEUE_LEN - 1) |-> IF m = l THEN s ELSE FromEnd(t.times, e)[m]]
        <5>1. FromEnd(times1, e)
                = [m \in 1 .. (QUEUE_LEN - 1) |-> FromEnd(times1, e)[m]]
          BY DEF FromEnd
        <5> QED
          BY <4>3, <5>1
      <4> QED
        BY <4>4, <4>5 DEF l, e
    <3> HIDE DEF u, times1
    <3>4. CASE sa.time > sb.time
      <4>1. s = A[x + 1] /\ i1 = Back(a.rear, x + 1) /\ j1 = t.j
        <5> HIDE DEF sa, sb
        <5> QED
          BY <2>2, <2>3, <3>4
      <4>2. A[x + 1].time > Horizon /\ A[x + 1].time >= B[y + 1].time
        <5> HIDE DEF sa, sb
        <5> QED
          BY <2>3, <2>4, <2>6, <3>4
      <4> HIDE DEF s, A, B, C, i1, j1, sa, sb
      <4>3. Partial(A, B, [C EXCEPT ![x + y + 1] = A[x + 1]], x + 1, y)
        BY <1>1, <1>5, <2>1, <4>2, PartialTake
      <4>4. (x + 1) + y = x + y + 1 /\ (x + 1) + y = n /\ (x + 1) + y <= n
        BY <1>0, <1>2, <2>1
      <4>5. Partial(A, B, FromEnd(u.times, Q - 1), x + 1, y)
        BY <3>2, <3>3, <4>1, <4>3
      <4>6. u.i = Back(a.rear, x + 1) /\ u.j = Back(b.rear, y) /\ u.k = Back(Q - 1, (x + 1) + y)
        BY <1>1, <2>2, <3>2, <4>1, <4>4
      <4>7. AtTurn(a, b, u, n, x + 1, y)
        BY <1>7, <3>2, <4>4, <4>5, <4>6 DEF AtTurn, A, B
      <4> QED
        BY <4>7 DEF u
    <3>5. CASE ~(sa.time > sb.time)
      <4>1. s = B[y + 1] /\ j1 = Back(b.rear, y + 1) /\ i1 = t.i
        <5> HIDE DEF sa, sb
        <5> QED
          BY <2>2, <2>3, <3>5
      <4>2. B[y + 1].time > Horizon /\ B[y + 1].time >= A[x + 1].time
        <5> HIDE DEF sa, sb
        <5> QED
          BY <2>3, <2>4, <2>6, <3>5
      <4> HIDE DEF s, A, B, C, i1, j1, sa, sb
      <4>3. y + x + 1 = x + y + 1 /\ y + x < Q - 1
        BY <1>2, <2>1
      <4>4. Partial(B, A, C, y, x)
        BY <1>1, PartialSwap
      <4>5. Partial(B, A, [C EXCEPT ![y + x + 1] = B[y + 1]], y + 1, x)
        BY <1>5, <4>2, <4>3, <4>4, PartialTake
      <4>6. Partial(A, B, [C EXCEPT ![x + y + 1] = B[y + 1]], x, y + 1)
        BY <4>3, <4>5, PartialSwap
      <4>7. x + (y + 1) = x + y + 1 /\ x + (y + 1) = n /\ x + (y + 1) <= n
        BY <1>0, <1>2, <2>1
      <4>8. Partial(A, B, FromEnd(u.times, Q - 1), x, y + 1)
        BY <3>2, <3>3, <4>1, <4>6
      <4>9. u.i = Back(a.rear, x) /\ u.j = Back(b.rear, y + 1) /\ u.k = Back(Q - 1, x + (y + 1))
        BY <1>1, <2>2, <3>2, <4>1, <4>7
      <4>10. AtTurn(a, b, u, n, x, y + 1)
        BY <1>7, <3>2, <4>7, <4>8, <4>9 DEF AtTurn, A, B
      <4> QED
        BY <4>10 DEF u
    <3> QED
      BY <3>4, <3>5
  <2> QED
    BY <2>5, <2>6
<1> QED
  BY <1>3, <1>6, <1>7

(* What a merge has taken at its end: as many as fit, or all in the period.*)
LEMMA MergeMeans ==
  ASSUME NEW a \in Rings, a.front = NextPos(a.rear), NEW b \in Rings, b.front = NextPos(b.rear),
         Horizon \in Nat
  PROVE  LET A == FromEnd(a.times, a.rear)
             B == FromEnd(b.times, b.rear)
             q == time_queue_merge(a, b)
         IN \E x, y : /\ Partial(A, B, FromEnd(q.times, q.rear), x, y)
                      /\ \/ x + y = QUEUE_LEN - 1
                         \/ /\ x + y < QUEUE_LEN - 1
                            /\ A[x + 1].time <= Horizon /\ B[y + 1].time <= Horizon
<1> DEFINE Q == QUEUE_LEN
           q == time_queue_merge(a, b)
<1>0. Q \in Nat /\ Q > 1 /\ Q - 1 \in Nat /\ Q - 1 \in Pos
  BY NodeAssumption DEF Pos
<1>1. PICK c : /\ c[0] = FirstTurn(a, b)
               /\ \A i \in 1 .. (Q - 1) : c[i] = MergeStep(a, b, c[i - 1])
               /\ \A i \in 0 .. (Q - 1) : c[i] \in Turns
               /\ q = [time_queue_init EXCEPT !.times = c[Q - 1].times]
  BY MergeTurns
<1> DEFINE T == {i \in 0..(Q - 1) : \E x, y : AtTurn(a, b, c[i], i, x, y)}
<1>2. 0 \in T
  <2> DEFINE t == FirstTurn(a, b)
  <2>1. /\ t.i = a.rear /\ t.j = b.rear /\ t.k = Q - 1 /\ t.more = TRUE
        /\ t.times = [i \in Pos |-> NoSample]
    BY DEF FirstTurn, time_queue_init
  <2> HIDE DEF t
  <2>2. \A m \in 1..(Q - 1) : FromEnd(t.times, Q - 1)[m] = NoSample
    <3>1. ASSUME NEW m \in 1..(Q - 1) PROVE Back(Q - 1, m) \in Pos
      <4>1. m \in Pos
        BY <1>0 DEF Pos
      <4> QED
        BY <1>0, <4>1, BackIs
    <3> QED
      BY <2>1, <3>1 DEF FromEnd
  <2>3. Partial(FromEnd(a.times, a.rear), FromEnd(b.times, b.rear), FromEnd(t.times, Q - 1), 0, 0)
    BY <2>2, PartialStart
  <2>4. a.rear \in Pos /\ b.rear \in Pos /\ 0 \in Pos
    BY <1>0 DEF Rings, Pos
  <2>5. \A r \in Pos : Back(r, 0) = r
    <3>1. \A r \in Pos : 0 <= r /\ r - 0 = r
      BY <1>0 DEF Pos
    <3> QED
      BY <2>4, <3>1, BackIs
  <2>6. t.i = Back(a.rear, 0) /\ t.j = Back(b.rear, 0) /\ t.k = Back(Q - 1, 0) /\ 0 + 0 = 0
    BY <1>0, <2>1, <2>4, <2>5
  <2>7. AtTurn(a, b, t, 0, 0, 0)
    BY <2>1, <2>3, <2>6 DEF AtTurn
  <2> QED
    BY <1>0, <1>1, <2>7 DEF t
<1>3. ASSUME NEW n \in 1..(Q - 1), n - 1 \in T PROVE n \in T
  <2>1. PICK x, y : AtTurn(a, b, c[n - 1], n - 1, x, y)
    BY <1>3
  <2>2. n - 1 \in 0..(Q - 1) /\ n \in 0..(Q - 1)
    BY <1>0
  <2>3. c[n - 1] \in Turns /\ c[n] = MergeStep(a, b, c[n - 1])
    BY <1>1, <2>2
  <2> HIDE DEF Q
  <2>4. \E v, w : AtTurn(a, b, MergeStep(a, b, c[n - 1]), n, v, w)
    BY <2>1, <2>3, TurnNext DEF Q
  <2> QED
    BY <2>2, <2>3, <2>4
<1>4. Q - 1 \in T
  <2> HIDE DEF T, Q
  <2>1. \A i \in 0..(Q - 1) : i \in T
    BY <1>0, <1>2, <1>3, InductionUpTo
  <2> QED
    BY <1>0, <2>1
<1>5. PICK x, y : AtTurn(a, b, c[Q - 1], Q - 1, x, y)
  BY <1>4
<1>6. q.times = c[Q - 1].times /\ q.rear = Q - 1
  <2>1. q.rear = Q - 1
    BY MergeRing
  <2> QED
    BY <1>1, <2>1 DEF time_queue_init
<1> HIDE DEF q
<1>7. c[Q - 1].more \in BOOLEAN
  <2>1. Q - 1 \in 0..(Q - 1)
    BY <1>0
  <2> QED
    BY <1>1, <2>1 DEF Turns
<1> QED
  BY <1>5, <1>6, <1>7 DEF AtTurn, q

(* As many as a ring can hold. *)
Fit(n) == IF n < QUEUE_LEN THEN n ELSE QUEUE_LEN - 1

(* The samples after t. *)
Later(t) == {e \in Samples : e.time > t}

(* One that is not, and all older, are not later. *)
LEMMA DescLater ==
  ASSUME NEW A \in Lists, Desc(A), NEW x \in 0 .. (QUEUE_LEN - 1), NEW t \in Nat,
         x < QUEUE_LEN - 1 => A[x + 1].time <= t
  PROVE  Hits(A, QUEUE_LEN - 1, Later(t)) = Hits(A, x, Later(t))
<1> DEFINE n == QUEUE_LEN - 1
<1>0. n \in Nat /\ x \in 0..n /\ x \in Nat /\ x <= n
  BY NodeAssumption
<1>1. ASSUME NEW m \in (x + 1)..n PROVE A[m] \notin Later(t)
  <2>1. x + 1 \in 1..n /\ x + 1 \in 1..m /\ m \in 1..n /\ x < n
    BY <1>0
  <2>2. A[m] \in Samples /\ A[x + 1] \in Samples
    BY <2>1 DEF Lists
  <2>3. A[x + 1].time >= A[m].time
    BY <2>1 DEF Desc
  <2>4. A[m].time \in Nat /\ A[x + 1].time \in Nat
    BY <2>2 DEF Samples
  <2>5. ~(A[m].time > t)
    BY <2>1, <2>3, <2>4
  <2> QED
    BY <2>5 DEF Later
<1> HIDE DEF n
<1> QED
  BY <1>0, <1>1, HitsMore DEF n

(* What a merge means: nothing is there twice or made up; and if both are  *)
(* in order it is, and holds as many of those after any time as fit.       *)
LEMMA MergeHits ==
  ASSUME NEW A \in Lists, NEW B \in Lists, NEW C \in Lists, NEW x, NEW y,
         Partial(A, B, C, x, y), Horizon \in Nat,
         \/ x + y = QUEUE_LEN - 1
         \/ /\ x + y < QUEUE_LEN - 1
            /\ A[x + 1].time <= Horizon /\ B[y + 1].time <= Horizon
  PROVE  LET n == QUEUE_LEN - 1
         IN /\ \A e : e.time > Horizon =>
                 Hits(C, n, {e}) <= Hits(A, n, {e}) + Hits(B, n, {e})
            /\ Desc(A) /\ Desc(B) =>
                 /\ Desc(C)
                 /\ \A t \in Nat : t >= Horizon =>
                      Hits(C, n, Later(t)) = Fit(Hits(A, n, Later(t)) + Hits(B, n, Later(t)))
<1> DEFINE n == QUEUE_LEN - 1
           k == x + y
<1>0. n \in Nat /\ QUEUE_LEN = n + 1 /\ n >= 1
  BY NodeAssumption
<1>1. /\ x \in Nat /\ y \in Nat /\ k \in 0..n /\ k \in Nat /\ k <= n /\ x <= n /\ y <= n
      /\ \A m \in (k + 1)..n : C[m] = NoSample
      /\ \A m \in 1..k : C[m].time > Horizon
  <2>1. /\ x \in Nat /\ y \in Nat /\ k \in 0..n
        /\ \A m \in (k + 1)..n : C[m] = NoSample
        /\ \A m \in 1..k : C[m].time > Horizon
    BY DEF Partial
  <2> QED
    BY <1>0, <2>1
<1>2. \A E : Hits(C, k, E) = Hits(A, x, E) + Hits(B, y, E)
  BY DEF Partial, Counts
<1>3. \A E : /\ Hits(A, x, E) \in Nat /\ Hits(B, y, E) \in Nat /\ Hits(C, k, E) \in Nat
             /\ Hits(A, n, E) \in Nat /\ Hits(B, n, E) \in Nat
             /\ Hits(A, x, E) <= Hits(A, n, E) /\ Hits(B, y, E) <= Hits(B, n, E)
             /\ Hits(C, k, E) <= k
  <2> TAKE E
  <2> HIDE DEF k, n
  <2>1. Hits(A, x, E) \in Nat /\ Hits(B, y, E) \in Nat /\ Hits(C, k, E) \in Nat
    BY <1>1, HitsType
  <2>2. Hits(A, n, E) \in Nat /\ Hits(B, n, E) \in Nat /\ Hits(C, k, E) <= k
    BY <1>0, <1>1, HitsType
  <2>3. Hits(A, x, E) <= Hits(A, n, E) /\ Hits(B, y, E) <= Hits(B, n, E)
    BY <1>0, <1>1, HitsMore
  <2> QED
    BY <2>1, <2>2, <2>3
<1>4. ASSUME NEW E, NoSample \notin E PROVE Hits(C, n, E) = Hits(C, k, E)
  <2>1. \A m \in (k + 1)..n : C[m] \notin E
    BY <1>1, <1>4
  <2> HIDE DEF k, n
  <2> QED
    BY <1>0, <1>1, <2>1, HitsMore
<1>5. NoSample.time = 0
  BY DEF NoSample
<1>6. ASSUME NEW e, e.time > Horizon
      PROVE  Hits(C, n, {e}) <= Hits(A, n, {e}) + Hits(B, n, {e})
  <2>1. NoSample \notin {e}
    BY <1>5, <1>6
  <2>2. Hits(C, n, {e}) = Hits(C, k, {e})
    BY <1>4, <2>1
  <2> DEFINE c == Hits(C, k, {e})
             ax == Hits(A, x, {e})
             by == Hits(B, y, {e})
             an == Hits(A, n, {e})
             bn == Hits(B, n, {e})
  <2>3. /\ ax \in Nat /\ by \in Nat /\ an \in Nat /\ bn \in Nat
        /\ ax <= an /\ by <= bn /\ c = ax + by
    BY <1>2, <1>3
  <2> HIDE DEF c, ax, by, an, bn
  <2>4. c <= an + bn
    BY <2>3
  <2> QED
    BY <2>2, <2>4 DEF c, an, bn
<1>7. ASSUME Desc(A), Desc(B), NEW t \in Nat, t >= Horizon
      PROVE  Hits(C, n, Later(t)) = Fit(Hits(A, n, Later(t)) + Hits(B, n, Later(t)))
  <2> DEFINE L == Later(t)
             c == Hits(C, k, L)
             ax == Hits(A, x, L)
             by == Hits(B, y, L)
             an == Hits(A, n, L)
             bn == Hits(B, n, L)
  <2>1. Hits(C, n, L) = c
    <3>1. NoSample \notin L
      BY <1>5 DEF Later
    <3> QED
      BY <1>4, <3>1
  <2>2. /\ ax \in Nat /\ by \in Nat /\ an \in Nat /\ bn \in Nat
        /\ ax <= an /\ by <= bn /\ c = ax + by /\ c <= k /\ c \in Nat
    BY <1>2, <1>3
  <2>3. CASE k = n /\ C[n].time > t
    <3>1. \A m \in 1..k : C[m] \in L
      <4> SUFFICES ASSUME NEW m \in 1..k PROVE C[m] \in L
        OBVIOUS
      <4>1. n \in 1..n /\ m \in 1..n
        BY <1>0, <2>3
      <4>2. C[m] \in Samples /\ C[n] \in Samples
        BY <4>1 DEF Lists
      <4>3. C[m].time \in Nat /\ C[n].time \in Nat
        BY <4>2 DEF Samples
      <4>4. C[m].time >= C[n].time
        BY <1>7, <2>3, <4>1 DEF Partial, Ordered
      <4>5. C[m].time > t
        BY <2>3, <4>3, <4>4
      <4> QED
        BY <4>2, <4>5 DEF Later
    <3>2. c = k
      <4> HIDE DEF k, L
      <4> QED
        BY <1>1, <3>1, HitsAll
    <3> HIDE DEF c, ax, by, an, bn, k, n
    <3>3. Fit(an + bn) = n
      BY <1>0, <2>2, <2>3, <3>2 DEF Fit
    <3> QED
      BY <2>1, <2>3, <3>2, <3>3 DEF an, bn
  <2>4. CASE ~(k = n /\ C[n].time > t)
    <3>1. (x < n => A[x + 1].time <= t) /\ (y < n => B[y + 1].time <= t)
      <4>1. /\ x < n => A[x + 1].time \in Nat
            /\ y < n => B[y + 1].time \in Nat
            /\ C[n].time \in Nat
        <5>1. (x < n => x + 1 \in 1..n) /\ (y < n => y + 1 \in 1..n) /\ n \in 1..n
          BY <1>0, <1>1
        <5> QED
          BY <5>1 DEF Lists, Samples
      <4>2. CASE k = n
        <5>1. n \in 1..k
          BY <1>0, <4>2
        <5>2. /\ x < n => A[x + 1].time <= C[n].time
              /\ y < n => B[y + 1].time <= C[n].time
          BY <1>7, <5>1 DEF Partial, Ordered
        <5>3. C[n].time <= t
          BY <2>4, <4>1, <4>2
        <5> HIDE DEF k, n
        <5> QED
          BY <4>1, <5>2, <5>3
      <4>3. CASE k # n
        <5>1. A[x + 1].time <= Horizon /\ B[y + 1].time <= Horizon
          BY <4>3
        <5>2. Horizon \in Nat /\ t >= Horizon
          BY <1>7
        <5> HIDE DEF k, n
        <5> QED
          BY <4>1, <5>1, <5>2
      <4> QED
        BY <4>2, <4>3
    <3>2. an = ax
      <4>1. x \in 0 .. (QUEUE_LEN - 1) /\ (x < QUEUE_LEN - 1 => A[x + 1].time <= t)
        BY <1>0, <1>1, <3>1
      <4> QED
        BY <1>7, <4>1, DescLater
    <3>3. bn = by
      <4>1. y \in 0 .. (QUEUE_LEN - 1) /\ (y < QUEUE_LEN - 1 => B[y + 1].time <= t)
        BY <1>0, <1>1, <3>1
      <4> QED
        BY <1>7, <4>1, DescLater
    <3> HIDE DEF c, ax, by, an, bn, k, n
    <3>4. Fit(an + bn) = c
      BY <1>0, <1>1, <2>2, <3>2, <3>3 DEF Fit
    <3> QED
      BY <2>1, <3>4 DEF an, bn
  <2> QED
    BY <2>3, <2>4
<1>8. ASSUME Desc(A), Desc(B) PROVE Desc(C)
  <2> SUFFICES ASSUME NEW l \in 1..n, NEW m \in 1..l PROVE C[m].time >= C[l].time
    BY DEF Desc
  <2>1. CASE l \in 1..k
    BY <1>8, <2>1 DEF Partial, Ordered
  <2>2. CASE l \notin 1..k
    <3>1. l \in (k + 1)..n /\ m \in 1..n
      BY <1>0, <1>1, <2>2
    <3>2. C[l].time = 0
      BY <1>1, <1>5, <3>1
    <3>3. C[m].time \in Nat
      BY <3>1 DEF Lists, Samples
    <3> QED
      BY <3>2, <3>3
  <2> QED
    BY <2>1, <2>2
<1> QED
  BY <1>6, <1>7, <1>8
-----------------------------------------------------------------------------
(* What the rings of the zones hold, and what merging them makes *)

(* A finite set, renamed. *)
LEMMA Renamed ==
  ASSUME NEW S, IsFiniteSet(S), NEW T, NEW f \in [S -> T],
         \A x, y \in S : f[x] = f[y] => x = y,
         \A u \in T : \E x \in S : f[x] = u
  PROVE  IsFiniteSet(T) /\ Cardinality(T) = Cardinality(S)
<1>1. f \in Bijection(S, T)
  BY DEF Bijection, Injection, Surjection, IsInjective
<1>2. ExistsBijection(S, T)
  BY <1>1 DEF ExistsBijection
<1> QED
  BY <1>2, FS_Bijection

(* The entries of a ring in E, counted from either end. *)
LEMMA EntryHits ==
  ASSUME NEW q \in Rings, q.front = NextPos(q.rear), NEW E
  PROVE  LET S == {i \in DOMAIN Entries(q) : Entries(q)[i] \in E}
         IN /\ IsFiniteSet(S)
            /\ Cardinality(S) = Hits(FromEnd(q.times, q.rear), QUEUE_LEN - 1, E)
<1> DEFINE n == QUEUE_LEN - 1
           F == FromEnd(q.times, q.rear)
           H == Hit(F, n, E)
           S == {i \in DOMAIN Entries(q) : Entries(q)[i] \in E}
           f == [m \in H |-> QUEUE_LEN - m]
<1>0. n \in Nat /\ QUEUE_LEN = n + 1
  BY NodeAssumption
<1>1. /\ DOMAIN Entries(q) = 1..n
      /\ \A m \in 1..n : QUEUE_LEN - m \in 1..n /\ Entries(q)[QUEUE_LEN - m] = F[m]
  BY FromEndIs
<1>2. IsFiniteSet(H) /\ \A m \in H : m \in 1..n /\ F[m] \in E
  BY <1>0, HitsType DEF Hit
<1> HIDE DEF F, n
<1>3. f \in [H -> S]
  BY <1>1, <1>2
<1>4. \A x, y \in H : f[x] = f[y] => x = y
  BY <1>0, <1>2
<1>5. \A u \in S : \E x \in H : f[x] = u
  <2> SUFFICES ASSUME NEW u \in S PROVE \E x \in H : f[x] = u
    OBVIOUS
  <2> DEFINE x == QUEUE_LEN - u
  <2>1. u \in 1..n
    BY <1>1
  <2>2. x \in 1..n /\ QUEUE_LEN - x = u
    BY <1>0, <2>1
  <2>3. F[x] = Entries(q)[u]
    BY <1>1, <2>2
  <2>4. x \in H
    BY <2>2, <2>3 DEF Hit
  <2> QED
    BY <2>2, <2>4
<1> HIDE DEF f, H, S
<1>6. IsFiniteSet(S) /\ Cardinality(S) = Cardinality(H)
  BY <1>2, <1>3, <1>4, <1>5, Renamed
<1> QED
  BY <1>6 DEF S, H, F, n, Hits

(* The samples of l that the ring still holds, and those of them in E.     *)
Held(l) == {i \in DOMAIN l : i + QUEUE_LEN > Len(l) + 1}
HeldIn(l, E) == {i \in Held(l) : l[i] \in E}

(* What a ring of the newest samples of l holds, the newest first. *)
LEMMA NewestFromEnd ==
  ASSUME NEW q, NEW l \in Seq(Samples), RingInv(q, l), NEW m \in 1 .. (QUEUE_LEN - 1)
  PROVE  /\ FromEnd(q.times, q.rear)[m] = NewestOf(l)[QUEUE_LEN - m]
         /\ FromEnd(q.times, q.rear)[m]
              = IF m > Len(l) THEN NoSample ELSE l[Len(l) + 1 - m]
<1>0. QUEUE_LEN \in Nat /\ QUEUE_LEN > 1 /\ Len(l) \in Nat
  BY NodeAssumption
<1>1. /\ QUEUE_LEN - m \in 1 .. (QUEUE_LEN - 1)
      /\ FromEnd(q.times, q.rear)[m] = Entries(q)[QUEUE_LEN - m]
  BY FromEndIs DEF RingInv
<1>2. FromEnd(q.times, q.rear)[m] = NewestOf(l)[QUEUE_LEN - m]
  BY <1>1 DEF RingInv
<1>3. NewestOf(l)[QUEUE_LEN - m]
        = IF Len(l) + (QUEUE_LEN - m) < QUEUE_LEN THEN NoSample
          ELSE l[Len(l) + (QUEUE_LEN - m) - (QUEUE_LEN - 1)]
  BY <1>1 DEF NewestOf
<1>4. /\ Len(l) + (QUEUE_LEN - m) < QUEUE_LEN <=> m > Len(l)
      /\ Len(l) + (QUEUE_LEN - m) - (QUEUE_LEN - 1) = Len(l) + 1 - m
  BY <1>0
<1> QED
  BY <1>2, <1>3, <1>4

(* It holds what is still held. *)
LEMMA RingHits ==
  ASSUME NEW q, NEW l \in Seq(Samples), RingInv(q, l), NEW E, NoSample \notin E
  PROVE  /\ IsFiniteSet(HeldIn(l, E))
         /\ Hits(FromEnd(q.times, q.rear), QUEUE_LEN - 1, E) = Cardinality(HeldIn(l, E))
<1> DEFINE n == QUEUE_LEN - 1
           F == FromEnd(q.times, q.rear)
           H == Hit(F, n, E)
           S == HeldIn(l, E)
           k == Len(l)
           f == [m \in H |-> k + 1 - m]
<1>0. n \in Nat /\ QUEUE_LEN = n + 1 /\ k \in Nat /\ DOMAIN l = 1..k
  BY NodeAssumption
<1>1. \A m \in 1..n : F[m] = IF m > k THEN NoSample ELSE l[k + 1 - m]
  BY NewestFromEnd
<1>2. IsFiniteSet(H)
  BY <1>0, HitsType
<1> HIDE DEF F, n, k
<1>3. \A i : i \in S <=> i \in 1..k /\ i + n > k /\ l[i] \in E
  <2> SUFFICES ASSUME NEW i PROVE i \in S <=> i \in 1..k /\ i + n > k /\ l[i] \in E
    OBVIOUS
  <2>1. i \in S <=> i \in 1..k /\ i + QUEUE_LEN > k + 1 /\ l[i] \in E
    BY <1>0 DEF HeldIn, Held, k
  <2>2. i \in 1..k => (i + QUEUE_LEN > k + 1 <=> i + n > k)
    BY <1>0
  <2> QED
    BY <2>1, <2>2
<1>4. \A m : m \in H <=> m \in 1..n /\ m <= k /\ l[k + 1 - m] \in E
  <2> SUFFICES ASSUME NEW m PROVE m \in H <=> m \in 1..n /\ m <= k /\ l[k + 1 - m] \in E
    OBVIOUS
  <2>1. m \in H <=> m \in 1..n /\ F[m] \in E
    BY DEF Hit
  <2>2. m \in 1..n => F[m] = IF m > k THEN NoSample ELSE l[k + 1 - m]
    BY <1>1
  <2>3. m \in 1..n => (m > k <=> ~(m <= k))
    BY <1>0
  <2> QED
    BY <2>1, <2>2, <2>3
<1> HIDE DEF H, S
<1>5. f \in [H -> S]
  <2> SUFFICES ASSUME NEW m \in H PROVE k + 1 - m \in S
    OBVIOUS
  <2>1. m \in 1..n /\ m <= k /\ l[k + 1 - m] \in E
    BY <1>4
  <2>2. k + 1 - m \in 1..k /\ (k + 1 - m) + n > k
    BY <1>0, <2>1
  <2> QED
    BY <1>3, <2>1, <2>2
<1>6. \A x, y \in H : f[x] = f[y] => x = y
  <2>1. \A x \in H : x \in Int
    BY <1>0, <1>4
  <2> QED
    BY <1>0, <2>1
<1>7. \A u \in S : \E x \in H : f[x] = u
  <2> SUFFICES ASSUME NEW u \in S PROVE \E x \in H : f[x] = u
    OBVIOUS
  <2> DEFINE x == k + 1 - u
  <2>1. u \in 1..k /\ u + n > k /\ l[u] \in E
    BY <1>3
  <2>2. x \in 1..n /\ x <= k /\ k + 1 - x = u
    BY <1>0, <2>1
  <2> HIDE DEF x
  <2>3. x \in H
    BY <1>4, <2>1, <2>2
  <2> QED
    BY <2>2, <2>3
<1> HIDE DEF f
<1>8. IsFiniteSet(S) /\ Cardinality(S) = Cardinality(H)
  BY <1>2, <1>5, <1>6, <1>7, Renamed
<1> QED
  BY <1>8 DEF S, H, F, n, Hits

(* No sample is older than the one before it. *)
InOrder(s) == \A i \in 1..(Len(s) - 1) : s[i].time <= s[i + 1].time

(* A ring whose samples are in order: the newest first. *)
LEMMA RingDesc ==
  ASSUME NEW q, NEW l \in Seq(Samples), RingInv(q, l), InOrder(NewestOf(l))
  PROVE  Desc(FromEnd(q.times, q.rear))
<1> DEFINE n == QUEUE_LEN - 1
           F == FromEnd(q.times, q.rear)
           s == NewestOf(l)
<1>0. n \in Nat /\ QUEUE_LEN = n + 1
  BY NodeAssumption
<1>1. \A m \in 1..n : F[m] = s[QUEUE_LEN - m]
  BY NewestFromEnd
<1>2. \A m \in 1..n : F[m].time \in Nat
  <2>1. F \in [1..n -> Samples]
    BY FromEndIs DEF RingInv
  <2> QED
    BY <2>1 DEF Samples
<1>3. Len(s) = n
  <2>1. DOMAIN s = 1..n /\ s = [i \in 1..n |-> s[i]]
    BY DEF NewestOf
  <2>2. s \in Seq({s[i] : i \in 1..n})
    BY <1>0, <2>1
  <2> HIDE DEF s, n
  <2> QED
    BY <1>0, <2>1, <2>2
<1> HIDE DEF F, s, n
<1>4. ASSUME NEW m \in 1..n, m + 1 \in 1..n PROVE F[m].time >= F[m + 1].time
  <2> DEFINE i == QUEUE_LEN - (m + 1)
  <2>1. i \in 1..(n - 1) /\ i + 1 = QUEUE_LEN - m
    BY <1>0, <1>4
  <2>2. F[m] = s[i + 1] /\ F[m + 1] = s[i]
    BY <1>1, <1>4, <2>1
  <2> HIDE DEF i
  <2>3. s[i].time <= s[i + 1].time
    BY <1>3, <2>1 DEF InOrder, s
  <2> QED
    BY <1>2, <1>4, <2>2, <2>3
<1>5. ASSUME NEW m \in 1..n PROVE \A d \in 0..n : m + d \in 1..n => F[m].time >= F[m + d].time
  <2> DEFINE T == {d \in 0..n : m + d \in 1..n => F[m].time >= F[m + d].time}
  <2>1. 0 \in T
    BY <1>0, <1>2
  <2>2. ASSUME NEW d \in 1..n, d - 1 \in T PROVE d \in T
    <3> SUFFICES ASSUME m + d \in 1..n PROVE F[m].time >= F[m + d].time
      BY <1>0
    <3> DEFINE j == m + (d - 1)
    <3>1. j \in 1..n /\ j + 1 = m + d /\ j + 1 \in 1..n
      BY <1>0
    <3>2. F[m].time >= F[j].time
      BY <2>2, <3>1
    <3> HIDE DEF j
    <3>3. F[j].time >= F[j + 1].time
      BY <1>4, <3>1
    <3>4. F[m].time \in Nat /\ F[j].time \in Nat /\ F[j + 1].time \in Nat
      BY <1>2, <3>1
    <3> QED
      BY <3>1, <3>2, <3>3, <3>4
  <2>3. \A d \in 0..n : d \in T
    <3> HIDE DEF T
    <3> QED
      BY <1>0, <2>1, <2>2, InductionUpTo
  <2> QED
    BY <2>3
<1>6. ASSUME NEW k \in 1..n, NEW m \in 1..k PROVE F[m].time >= F[k].time
  <2>1. m \in 1..n /\ k - m \in 0..n /\ m + (k - m) = k
    BY <1>0
  <2> QED
    BY <1>5, <2>1
<1> QED
  BY <1>6 DEF Desc, F, n

(* The samples that the rings of S still hold, and those of them in E.     *)
SamplesOf(S) == UNION {{<<z, i>> : i \in Held(log[z]["request"])} : z \in S}
At(p) == log[p[1]]["request"][p[2]]
Among(S, E) == {p \in SamplesOf(S) : At(p) \in E}

(* One more zone. *)
LEMMA AmongGrow ==
  ASSUME NEW S, NEW z, z \notin S, NEW E, IsFiniteSet(Among(S, E)),
         IsFiniteSet(HeldIn(log[z]["request"], E))
  PROVE  /\ IsFiniteSet(Among(S \cup {z}, E))
         /\ Cardinality(Among(S \cup {z}, E))
              = Cardinality(Among(S, E)) + Cardinality(HeldIn(log[z]["request"], E))
<1> DEFINE l == log[z]["request"]
           H == HeldIn(l, E)
           G == {<<z, i>> : i \in H}
           f == [i \in H |-> <<z, i>>]
<1>1. \A p : p \in SamplesOf(S) <=> \E y \in S : \E i \in Held(log[y]["request"]) : p = <<y, i>>
  BY DEF SamplesOf
<1>2. \A p : p \in SamplesOf(S \cup {z}) <=>
               p \in SamplesOf(S) \/ \E i \in Held(l) : p = <<z, i>>
  <2>1. \A p : p \in SamplesOf(S \cup {z}) <=>
                 \E y \in S \cup {z} : \E i \in Held(log[y]["request"]) : p = <<y, i>>
    BY DEF SamplesOf
  <2> QED
    BY <1>1, <2>1
<1>3. \A i : At(<<z, i>>) = l[i]
  BY DEF At
<1>4. Among(S \cup {z}, E) = Among(S, E) \cup G
  <2>1. \A p : p \in G <=> \E i \in Held(l) : p = <<z, i>> /\ l[i] \in E
    BY DEF HeldIn
  <2> HIDE DEF G, l
  <2>2. \A p : p \in G <=> At(p) \in E /\ \E i \in Held(l) : p = <<z, i>>
    BY <1>3, <2>1
  <2> QED
    BY <1>2, <2>2 DEF Among
<1>5. Among(S, E) \cap G = {}
  <2>1. \A p \in Among(S, E) : p[1] \in S
    BY <1>1 DEF Among
  <2>2. \A p \in G : p[1] = z
    OBVIOUS
  <2> HIDE DEF G
  <2> QED
    BY <2>1, <2>2
<1>6. IsFiniteSet(G) /\ Cardinality(G) = Cardinality(H)
  <2>1. f \in [H -> G]
    OBVIOUS
  <2>2. \A x, y \in H : f[x] = f[y] => x = y
    OBVIOUS
  <2>3. \A u \in G : \E x \in H : f[x] = u
    OBVIOUS
  <2> HIDE DEF f, G, H
  <2>4. IsFiniteSet(H)
    BY DEF H
  <2> QED
    BY <2>1, <2>2, <2>3, <2>4, Renamed
<1> HIDE DEF G, H, l
<1>7. /\ IsFiniteSet(Among(S, E) \cup G)
      /\ Cardinality(Among(S, E) \cup G)
           = Cardinality(Among(S, E)) + Cardinality(G) - Cardinality(Among(S, E) \cap G)
  BY <1>6, FS_Union
<1>8. /\ Cardinality({}) = 0 /\ Cardinality(Among(S, E)) \in Nat
      /\ Cardinality(G) \in Nat
  BY <1>6, FS_EmptySet, FS_CardinalityType
<1>9. Cardinality(Among(S, E) \cup G) = Cardinality(Among(S, E)) + Cardinality(G)
  <2> DEFINE a == Cardinality(Among(S, E))
             g == Cardinality(G)
             u == Cardinality(Among(S, E) \cup G)
  <2>1. u = a + g - 0 /\ a \in Nat /\ g \in Nat
    BY <1>5, <1>7, <1>8
  <2> HIDE DEF a, g, u
  <2>2. u = a + g
    BY <2>1
  <2> QED
    BY <2>2 DEF a, g, u
<1> QED
  BY <1>4, <1>6, <1>7, <1>9 DEF H, l

(* The newest of q, the newest first. *)
Newest(q) == FromEnd(q.times, q.rear)

(* q has been made of the rings of S. *)
Merged(q, S) ==
  /\ q.front = NextPos(q.rear)
  /\ \A E : IsFiniteSet(Among(S, E))
  /\ \A e : e.time > Horizon =>
       Hits(Newest(q), QUEUE_LEN - 1, {e}) <= Cardinality(Among(S, {e}))
  /\ (\A z \in S : InOrder(NewestOf(log[z]["request"]))) =>
       /\ Desc(Newest(q))
       /\ \A t \in Nat : t >= Horizon =>
            Hits(Newest(q), QUEUE_LEN - 1, Later(t)) = Fit(Cardinality(Among(S, Later(t))))

(* The horizon is a time, and later than where there is no sample. *)
LEMMA HorizonType ==
  ASSUME IInv, ClockInv
  PROVE  Horizon \in Nat
<1>1. now \in Nat /\ now > average_period /\ average_period \in Nat
  BY NodeAssumption DEF IInv, HistoryInv, ClockInv
<1> QED
  BY <1>1 DEF Horizon

(* Nothing has been merged yet. *)
LEMMA MergedStart ==
  ASSUME Horizon \in Nat
  PROVE  Merged(time_queue_init, {})
<1> DEFINE q == time_queue_init
           n == QUEUE_LEN - 1
<1>0. n \in Nat /\ QUEUE_LEN = n + 1
  BY NodeAssumption
<1>1. RingInv(q, <<>>)
  BY InitialRing
<1>2. \A m \in 1..n : Newest(q)[m] = NoSample
  <2>1. <<>> \in Seq(Samples) /\ Len(<<>>) = 0
    OBVIOUS
  <2>2. \A m \in 1..n : Newest(q)[m] = IF m > Len(<<>>) THEN NoSample ELSE <<>>[Len(<<>>) + 1 - m]
    BY <1>1, <2>1, NewestFromEnd DEF Newest
  <2> HIDE DEF q, n
  <2> QED
    BY <1>0, <2>1, <2>2
<1>3. \A E : Among({}, E) = {}
  BY DEF Among, SamplesOf
<1>4. IsFiniteSet({}) /\ Cardinality({}) = 0
  BY FS_EmptySet
<1>5. NoSample.time = 0
  BY DEF NoSample
<1> HIDE DEF q, n
<1>6. ASSUME NEW E, NoSample \notin E PROVE Hits(Newest(q), n, E) = 0
  <2>1. Hit(Newest(q), n, E) = {}
    BY <1>2, <1>6 DEF Hit
  <2> QED
    BY <1>4, <2>1 DEF Hits
<1>7. q.front = NextPos(q.rear)
  BY <1>1 DEF RingInv
<1>8. ASSUME NEW e, e.time > Horizon
      PROVE  Hits(Newest(q), n, {e}) <= Cardinality(Among({}, {e}))
  <2>1. NoSample \notin {e}
    BY <1>5, <1>8
  <2>2. Hits(Newest(q), n, {e}) = 0
    BY <1>6, <2>1
  <2> QED
    BY <1>3, <1>4, <2>2
<1>9. Desc(Newest(q))
  <2>1. \A l \in 1..n : \A m \in 1..l : m \in 1..n
    BY <1>0
  <2> QED
    BY <1>2, <1>5, <2>1 DEF Desc, n
<1>10. ASSUME NEW t \in Nat
       PROVE  Hits(Newest(q), n, Later(t)) = Fit(Cardinality(Among({}, Later(t))))
  <2>1. NoSample \notin Later(t)
    BY <1>5 DEF Later
  <2>2. Fit(0) = 0
    BY NodeAssumption DEF Fit
  <2> QED
    BY <1>3, <1>4, <1>6, <2>1, <2>2
<1> QED
  BY <1>3, <1>4, <1>7, <1>8, <1>9, <1>10 DEF Merged, q, n

(* Fitting in twice is fitting in once. *)
LEMMA FitTwice ==
  ASSUME NEW a \in Nat, NEW b \in Nat
  PROVE  Fit(Fit(a) + b) = Fit(a + b)
<1>1. QUEUE_LEN \in Nat /\ QUEUE_LEN > 1
  BY NodeAssumption
<1>2. CASE a < QUEUE_LEN
  BY <1>2 DEF Fit
<1>3. CASE ~(a < QUEUE_LEN)
  <2>1. Fit(a) = QUEUE_LEN - 1
    BY <1>3 DEF Fit
  <2>2. Fit(a + b) = QUEUE_LEN - 1
    BY <1>1, <1>3 DEF Fit
  <2>3. Fit(QUEUE_LEN - 1 + b) = QUEUE_LEN - 1
    BY <1>1 DEF Fit
  <2> QED
    BY <2>1, <2>2, <2>3
<1> QED
  BY <1>2, <1>3

(* The ring of one more zone is merged. *)
LEMMA MergedGrow ==
  ASSUME Horizon \in Nat, NEW q \in Rings, NEW S, NEW z, z \notin S, Merged(q, S),
         NEW r, log[z]["request"] \in Seq(Samples), RingInv(r, log[z]["request"])
  PROVE  Merged(time_queue_merge(q, r), S \cup {z})
<1> DEFINE n == QUEUE_LEN - 1
           l == log[z]["request"]
           c == time_queue_merge(q, r)
           In(E) == Cardinality(Among(S, E))
           Of(E) == Cardinality(HeldIn(l, E))
<1>1. /\ r \in Rings /\ r.front = NextPos(r.rear) /\ q.front = NextPos(q.rear)
  BY DEF RingInv, Merged
<1>2. c \in Rings /\ c.front = NextPos(c.rear)
  BY <1>1, MergeRing
<1>3. Newest(q) \in Lists /\ Newest(r) \in Lists /\ Newest(c) \in Lists
  <2> HIDE DEF c
  <2> QED
    BY <1>1, <1>2, FromEndIs DEF Newest, Lists
<1>4. PICK x, y :
        /\ Partial(Newest(q), Newest(r), Newest(c), x, y)
        /\ \/ x + y = QUEUE_LEN - 1
           \/ /\ x + y < QUEUE_LEN - 1
              /\ Newest(q)[x + 1].time <= Horizon /\ Newest(r)[y + 1].time <= Horizon
  BY <1>1, MergeMeans DEF Newest
<1> HIDE DEF c, l
<1>5. /\ \A e : e.time > Horizon =>
           Hits(Newest(c), n, {e}) <= Hits(Newest(q), n, {e}) + Hits(Newest(r), n, {e})
      /\ Desc(Newest(q)) /\ Desc(Newest(r)) =>
           /\ Desc(Newest(c))
           /\ \A t \in Nat : t >= Horizon =>
                Hits(Newest(c), n, Later(t))
                  = Fit(Hits(Newest(q), n, Later(t)) + Hits(Newest(r), n, Later(t)))
  BY <1>3, <1>4, MergeHits
<1>6. \A E : NoSample \notin E =>
        IsFiniteSet(HeldIn(l, E)) /\ Hits(Newest(r), n, E) = Of(E)
  BY RingHits DEF Newest, l
<1>6a. \A E : IsFiniteSet(HeldIn(l, E))
  <2>1. Len(l) \in Nat /\ DOMAIN l = 1..Len(l)
    BY DEF l
  <2>2. IsFiniteSet(1..Len(l))
    BY <2>1, FS_Interval
  <2>3. \A E : HeldIn(l, E) \subseteq 1..Len(l)
    BY <2>1 DEF HeldIn, Held
  <2> QED
    BY <2>2, <2>3, FS_Subset
<1>7. \A E : IsFiniteSet(Among(S, E))
  BY DEF Merged
<1>8. \A E : /\ IsFiniteSet(Among(S \cup {z}, E))
             /\ Cardinality(Among(S \cup {z}, E)) = In(E) + Of(E)
  BY <1>6a, <1>7, AmongGrow DEF l
<1>9. \A E : In(E) \in Nat /\ Of(E) \in Nat
  BY <1>6a, <1>7, FS_CardinalityType
<1>10. NoSample.time = 0
  BY DEF NoSample
<1>11. ASSUME NEW e, e.time > Horizon
       PROVE  Hits(Newest(c), n, {e}) <= Cardinality(Among(S \cup {z}, {e}))
  <2>1. NoSample \notin {e}
    BY <1>10, <1>11
  <2>2. Hits(Newest(q), n, {e}) <= In({e})
    BY <1>11 DEF Merged
  <2>3. Hits(Newest(r), n, {e}) = Of({e})
    BY <1>6, <2>1
  <2>4. Hits(Newest(c), n, {e}) <= Hits(Newest(q), n, {e}) + Hits(Newest(r), n, {e})
    BY <1>5, <1>11
  <2>5. Cardinality(Among(S \cup {z}, {e})) = In({e}) + Of({e})
    BY <1>8
  <2>6. n \in Nat
    BY NodeAssumption
  <2>7. Hits(Newest(c), n, {e}) \in Nat /\ Hits(Newest(q), n, {e}) \in Nat
    <3> HIDE DEF n
    <3> QED
      BY <2>6, HitsType
  <2> DEFINE hc == Hits(Newest(c), n, {e})
             hq == Hits(Newest(q), n, {e})
             hr == Hits(Newest(r), n, {e})
             i == In({e})
             o == Of({e})
  <2>8. hq <= i /\ hr = o /\ hc <= hq + hr /\ i \in Nat /\ o \in Nat /\ hc \in Nat /\ hq \in Nat
    BY <1>9, <2>2, <2>3, <2>4, <2>7
  <2>9. Cardinality(Among(S \cup {z}, {e})) = i + o
    BY <2>5
  <2> HIDE DEF hc, hq, hr, i, o
  <2>10. hc <= i + o
    BY <2>8
  <2> QED
    BY <2>9, <2>10 DEF hc
<1>12. ASSUME \A y1 \in S \cup {z} : InOrder(NewestOf(log[y1]["request"]))
       PROVE  /\ Desc(Newest(c))
              /\ \A t \in Nat : t >= Horizon =>
                   Hits(Newest(c), n, Later(t))
                     = Fit(Cardinality(Among(S \cup {z}, Later(t))))
  <2>1. Desc(Newest(q)) /\ \A t \in Nat : t >= Horizon =>
          Hits(Newest(q), n, Later(t)) = Fit(In(Later(t)))
    BY <1>12 DEF Merged
  <2>2. Desc(Newest(r))
    <3>1. InOrder(NewestOf(l))
      BY <1>12 DEF l
    <3> QED
      BY <3>1, RingDesc DEF Newest, l
  <2>3. ASSUME NEW t \in Nat, t >= Horizon
        PROVE  Hits(Newest(c), n, Later(t)) = Fit(Cardinality(Among(S \cup {z}, Later(t))))
    <3>1. NoSample \notin Later(t)
      BY <1>10 DEF Later
    <3> DEFINE L == Later(t)
               i == In(L)
               o == Of(L)
    <3>2. Hits(Newest(c), n, L) = Fit(Hits(Newest(q), n, L) + Hits(Newest(r), n, L))
      BY <1>5, <2>1, <2>2, <2>3
    <3>3. Hits(Newest(q), n, L) = Fit(i) /\ Hits(Newest(r), n, L) = o
      BY <1>6, <2>1, <2>3, <3>1
    <3>4. Cardinality(Among(S \cup {z}, L)) = i + o /\ i \in Nat /\ o \in Nat
      BY <1>8, <1>9
    <3> HIDE DEF i, o, L
    <3>5. Fit(Fit(i) + o) = Fit(i + o)
      BY <3>4, FitTwice
    <3> QED
      BY <3>2, <3>3, <3>4, <3>5 DEF L
  <2>4. Desc(Newest(c))
    BY <1>5, <2>1, <2>2
  <2> QED
    BY <2>3, <2>4
<1> HIDE DEF In, Of
<1> QED
  BY <1>2, <1>8, <1>11, <1>12 DEF Merged, c
-----------------------------------------------------------------------------
(* Adding up the zones *)

(* Adding a counter with its overflows adds what both have counted. *)
LEMMA AddCarry ==
  ASSUME NEW c, NEW x \in Nat, Counted(c, x), NEW d, NEW y \in Nat, Counted(d, y)
  PROVE  LET k == Count(c, d.n)
         IN Counted([k EXCEPT !.oc = @ + d.oc], x + y)
<1> DEFINE k == Count(c, d.n)
           e == [k EXCEPT !.oc = @ + d.oc]
<1>1. /\ d.n \in 0..(W - 1) /\ d.oc \in Nat /\ d.n + W * d.oc = y /\ W \in Nat
  BY NodeAssumption DEF Counted, Counters
<1>2. Counted(k, x + d.n)
  BY <1>1, CountExact
<1> HIDE DEF k
<1>3. /\ k \in Counters /\ k.n \in 0..(W - 1) /\ k.oc \in Nat
      /\ k.n + W * k.oc = x + d.n
  BY <1>2 DEF Counted, Counters
<1>4. e.n = k.n /\ e.oc = k.oc + d.oc /\ e \in Counters
  BY <1>1, <1>3 DEF Counters
<1>5. W * (k.oc + d.oc) = W * k.oc + W * d.oc
  BY <1>1, <1>3
<1>6. W * k.oc \in Nat /\ W * d.oc \in Nat
  BY <1>1, <1>3
<1>7. k.n + W * (k.oc + d.oc) = x + y
  <2> DEFINE v == W * k.oc
             u == W * d.oc
  <2>1. k.n + v = x + d.n /\ d.n + u = y /\ W * (k.oc + d.oc) = v + u
    BY <1>1, <1>3, <1>5
  <2>2. v \in Nat /\ u \in Nat
    BY <1>6
  <2> DEFINE kn == k.n
             dn == d.n
  <2>3. kn \in Int /\ dn \in Int /\ kn + v = x + dn /\ dn + u = y
    BY <1>1, <1>3, <2>1
  <2> HIDE DEF v, u, kn, dn
  <2>4. kn + (v + u) = x + y
    BY <2>2, <2>3
  <2> QED
    BY <2>1, <2>4 DEF kn
<1> HIDE DEF e
<1>8. Counted(e, x + y)
  BY <1>4, <1>7 DEF Counted
<1> QED
  BY <1>8 DEF e, k

(* A server zone joins the sums with all it has counted. *)
LEMMA AddStatsInv ==
  ASSUME NEW z, NEW n, NEW l, NEW c \in [requests : Nat, msec : [Series(z) -> Nat]],
         NodeInv(z, n, l, c), NEW st \in Sums
  PROVE  /\ AddStats(st, n) \in Sums
         /\ \A x \in Nat : Counted(st.requests, x) =>
              Counted(AddStats(st, n).requests, x + c.requests)
         /\ \A x \in Nat : Counted(st.total, x) =>
              Counted(AddStats(st, n).total, x + c.msec["request"])
<1> DEFINE r == "request"
           k1 == Count(st.requests, n.requests.n)
           k2 == Count(st.total, n.s[r].total.n)
           a == AddStats(st, n)
<1>1. r \in Series(z)
  BY DEF Series
<1>2. /\ Counted(n.requests, c.requests) /\ c.requests \in Nat
      /\ SeriesInv(n.s[r], l[r], c.msec[r]) /\ c.msec[r] \in Nat
  BY <1>1 DEF NodeInv
<1>3. Counted(n.s[r].total, c.msec[r]) /\ n.s[r].times \in Rings
  BY <1>2 DEF SeriesInv, RingInv
<1>4. /\ a.requests = [k1 EXCEPT !.oc = @ + n.requests.oc]
      /\ a.total = [k2 EXCEPT !.oc = @ + n.s[r].total.oc]
      /\ a.times = time_queue_merge(st.times, n.s[r].times)
      /\ a = [requests |-> a.requests, total |-> a.total, times |-> a.times]
  BY DEF AddStats
<1> HIDE DEF a, r
<1>5. ASSUME NEW x \in Nat, Counted(st.requests, x)
      PROVE  Counted(a.requests, x + c.requests)
  BY <1>2, <1>4, <1>5, AddCarry
<1>6. ASSUME NEW x \in Nat, Counted(st.total, x)
      PROVE  Counted(a.total, x + c.msec[r])
  BY <1>2, <1>3, <1>4, <1>6, AddCarry
<1>7. a \in Sums
  <2>0. st.requests \in Counters /\ st.total \in Counters /\ st.times \in Rings
    BY DEF Sums
  <2>1. \A d \in Counters : d.n + W * d.oc \in Nat
    <3>1. W \in Nat
      BY NodeAssumption
    <3>2. \A u \in 0..(W - 1), v \in Nat : u + W * v \in Nat
      BY <3>1
    <3> QED
      BY <3>2 DEF Counters
  <2>2. a.requests \in Counters
    <3>1. Counted(st.requests, st.requests.n + W * st.requests.oc)
      BY <2>0 DEF Counted
    <3> QED
      BY <1>5, <2>0, <2>1, <3>1 DEF Counted
  <2>3. a.total \in Counters
    <3>1. Counted(st.total, st.total.n + W * st.total.oc)
      BY <2>0 DEF Counted
    <3> QED
      BY <1>6, <2>0, <2>1, <3>1 DEF Counted
  <2>4. a.times \in Rings
    BY <1>3, <1>4, <2>0, MergeRing
  <2> QED
    BY <1>4, <2>2, <2>3, <2>4 DEF Sums
<1> QED
  BY <1>5, <1>6, <1>7 DEF a, r

(* FoldLeft of the display is the last value of a g with                   *)
(* g = FoldBody(nodes, g).                                                 *)
FoldBody(nodes, g) ==
  [s \in SUBSET DOMAIN nodes |->
     IF s = {} THEN NoStats
               ELSE LET x == Max(s) IN AddStats(g[s \ {x}], nodes[x])]

LEMMA FoldUnfolds ==
  ASSUME NEW nodes
  PROVE  FoldLeft(AddStats, NoStats, nodes) =
           (CHOOSE g : g = FoldBody(nodes, g))[DOMAIN nodes]
  BY DEF FoldLeft, MapThenFoldSet, FoldBody

(* A set of positions has a last one. *)
LEMMA MaxOfPositions ==
  ASSUME NEW n \in Nat, NEW s \in SUBSET (1..n), s # {}
  PROVE  Max(s) \in s
<1> DEFINE T == {m \in Nat : \E x \in s : m = n - x}
<1>1. T \in SUBSET Nat
  OBVIOUS
<1>2. T # {}
  <2>1. PICK x \in s : TRUE
    OBVIOUS
  <2>2. n - x \in Nat
    BY <2>1
  <2>3. n - x \in T
    BY <2>1, <2>2
  <2> QED
    BY <2>3
<1>3. PICK m \in T : \A k \in T : m <= k
  <2> HIDE DEF T
  <2> QED
    BY <1>1, <1>2, LeastNat
<1>4. PICK x \in s : m = n - x
  BY <1>3
<1>5. ASSUME NEW y \in s PROVE x >= y
  <2>1. n - y \in T
    OBVIOUS
  <2>2. m <= n - y
    BY <1>3, <2>1
  <2> QED
    BY <1>4, <2>2
<1> QED
  BY <1>5 DEF Max

LEMMA MaxUpTo ==
  ASSUME NEW n \in Nat, NEW k \in 1..n
  PROVE  Max(1..k) = k /\ (1..k) \ {k} = 1..(k - 1)
<1>1. 1..k \in SUBSET (1..n) /\ 1..k # {}
  OBVIOUS
<1>2. k \in 1..k /\ \A y \in 1..k : k >= y
  OBVIOUS
<1>3. \A x \in 1..k : (\A y \in 1..k : x >= y) => x = k
  BY <1>2
<1>4. Max(1..k) = k
  BY <1>2, <1>3 DEF Max
<1> QED
  BY <1>4

(* What the server zones have been requested, and how long it took.        *)
Requested == [z \in Servers |-> since[z].requests]
Spent == [z \in Servers |-> since[z].msec["request"]]

(* st are the sums of the server zones in S. *)
SumsOf(st, S) ==
  /\ st \in Sums
  /\ Counted(st.requests, SumFunctionOnSet(Requested, S))
  /\ Counted(st.total, SumFunctionOnSet(Spent, S))
  /\ Merged(st.times, S)

LEMMA SummandTypes ==
  ASSUME IInv
  PROVE  /\ IsFiniteSet(Servers)
         /\ \A z \in Servers :
              /\ Requested[z] = since[z].requests /\ Requested[z] \in Nat
              /\ Spent[z] = since[z].msec["request"] /\ Spent[z] \in Nat
              /\ since[z] \in [requests : Nat, msec : [Series(z) -> Nat]]
              /\ NodeInv(z, node[z], log[z], since[z])
<1>1. IsFiniteSet(Servers)
  <2>1. IsFiniteSet(Zones) /\ Servers \subseteq Zones
    BY NodeAssumption DEF Servers
  <2> QED
    BY <2>1, FS_Subset
<1>2. ASSUME NEW z \in Servers
      PROVE  /\ Requested[z] = since[z].requests /\ Requested[z] \in Nat
             /\ Spent[z] = since[z].msec["request"] /\ Spent[z] \in Nat
             /\ since[z] \in [requests : Nat, msec : [Series(z) -> Nat]]
             /\ NodeInv(z, node[z], log[z], since[z])
  <2>1. z \in Zones /\ node[z] # Nil /\ "request" \in Series(z)
    BY DEF Servers, Series
  <2>2. since[z] \in [requests : Nat, msec : [Series(z) -> Nat]]
    BY <2>1 DEF IInv, HistoryInv
  <2>3. since[z].requests \in Nat /\ since[z].msec["request"] \in Nat
    BY <2>1, <2>2
  <2>4. NodeInv(z, node[z], log[z], since[z])
    BY <2>1 DEF IInv, ZoneInv
  <2> QED
    BY <2>2, <2>3, <2>4 DEF Requested, Spent
<1> QED
  BY <1>1, <1>2

(* One more server zone. *)
LEMMA SumsGrow ==
  ASSUME IInv, ClockInv, NEW S \in SUBSET Servers, NEW z \in Servers, z \notin S,
         NEW st, SumsOf(st, S)
  PROVE  SumsOf(AddStats(st, node[z]), S \cup {z})
<1> DEFINE r == SumFunctionOnSet(Requested, S)
           m == SumFunctionOnSet(Spent, S)
<1>1. IsFiniteSet(S)
  BY SummandTypes, FS_Subset
<1>2. \A y \in S \cup {z} : Requested[y] \in Nat /\ Spent[y] \in Nat
  BY SummandTypes
<1>3. r \in Nat /\ m \in Nat
  BY <1>1, <1>2, SumType
<1>4. /\ SumFunctionOnSet(Requested, S \cup {z}) = r + since[z].requests
      /\ SumFunctionOnSet(Spent, S \cup {z}) = m + since[z].msec["request"]
  <2>1. SumFunctionOnSet(Requested, S \cup {z}) = r + Requested[z]
    BY <1>1, <1>2, SumAdd
  <2>2. SumFunctionOnSet(Spent, S \cup {z}) = m + Spent[z]
    BY <1>1, <1>2, SumAdd
  <2> QED
    BY <2>1, <2>2, SummandTypes
<1>5. /\ since[z] \in [requests : Nat, msec : [Series(z) -> Nat]]
      /\ NodeInv(z, node[z], log[z], since[z])
  BY SummandTypes
<1>6. st \in Sums /\ Counted(st.requests, r) /\ Counted(st.total, m)
  BY DEF SumsOf
<1> DEFINE a == AddStats(st, node[z])
<1> HIDE DEF r, m
<1>7. /\ a \in Sums
      /\ \A x \in Nat : Counted(st.requests, x) =>
           Counted(a.requests, x + since[z].requests)
      /\ \A x \in Nat : Counted(st.total, x) =>
           Counted(a.total, x + since[z].msec["request"])
  BY <1>5, <1>6, AddStatsInv
<1>8. Merged(a.times, S \cup {z})
  <2> DEFINE q == node[z].s["request"].times
             l == log[z]["request"]
  <2>1. a.times = time_queue_merge(st.times, q)
    BY DEF AddStats
  <2>2. "request" \in Series(z) /\ z \in Zones
    BY DEF Series, Servers
  <2>3. RingInv(q, l)
    BY <1>5, <2>2 DEF NodeInv, SeriesInv
  <2>4. l \in Seq(Samples)
    BY <2>2 DEF IInv, HistoryInv
  <2>5. st.times \in Rings /\ Merged(st.times, S)
    BY <1>6 DEF Sums, SumsOf
  <2>6. Horizon \in Nat
    BY HorizonType
  <2> HIDE DEF q, a
  <2>7. Merged(time_queue_merge(st.times, q), S \cup {z})
    BY <2>3, <2>4, <2>5, <2>6, MergedGrow
  <2> QED
    BY <2>1, <2>7
<1> HIDE DEF a
<1> QED
  BY <1>3, <1>4, <1>6, <1>7, <1>8 DEF SumsOf, a

(* The sums that a display starts from. *)
LEMMA NoStatsType == NoStats \in Sums
<1>1. Zero \in Counters /\ time_queue_init \in Rings
  BY ZeroCounted, InitialRing DEF Counted, RingInv
<1> QED
  BY <1>1 DEF NoStats, Sums

(* Nothing adds up to nothing. *)
LEMMA SumsStart ==
  ASSUME Horizon \in Nat
  PROVE  SumsOf(NoStats, {})
<1>1. NoStats \in Sums
  BY NoStatsType
<1>2. SumFunctionOnSet(Requested, {}) = 0 /\ SumFunctionOnSet(Spent, {}) = 0
  BY SumEmpty
<1>3. NoStats.requests = Zero /\ NoStats.total = Zero /\ NoStats.times = time_queue_init
  BY DEF NoStats
<1> QED
  BY <1>1, <1>2, <1>3, ZeroCounted, MergedStart DEF SumsOf

(* The fold over the nodes is defined. *)
LEMMA FoldExists ==
  ASSUME IInv, NEW n \in Nat, NEW order \in [1..n -> Servers]
  PROVE  LET nodes == [i \in DOMAIN order |-> node[order[i]]]
         IN \E g : g = FoldBody(nodes, g)
<1> DEFINE nodes == [i \in DOMAIN order |-> node[order[i]]]
           D == SUBSET (1..n)
           m == [s \in D |-> Cardinality(s)]
           F == [g \in [D -> Sums] |-> FoldBody(nodes, g)]
<1>1. DOMAIN nodes = 1..n /\ \A i \in 1..n : nodes[i] = node[order[i]]
  OBVIOUS
<1>2. \A s \in D : IsFiniteSet(s) /\ Cardinality(s) \in Nat
  <2>1. IsFiniteSet(1..n)
    BY FS_Interval
  <2> QED
    BY <2>1, FS_Subset, FS_CardinalityType
<1>3. m \in [D -> Nat]
  BY <1>2
<1>4. NoStats \in Sums
  BY NoStatsType
<1>5. ASSUME NEW st \in Sums, NEW i \in 1..n PROVE AddStats(st, nodes[i]) \in Sums
  <2>1. order[i] \in Servers
    OBVIOUS
  <2>2. /\ since[order[i]] \in [requests : Nat, msec : [Series(order[i]) -> Nat]]
        /\ NodeInv(order[i], node[order[i]], log[order[i]], since[order[i]])
    BY <2>1, SummandTypes
  <2> QED
    BY <1>1, <2>2, AddStatsInv
<1> HIDE DEF nodes
<1>6. ASSUME NEW g \in [D -> Sums], NEW s \in D
      PROVE  /\ s = {} => FoldBody(nodes, g)[s] = NoStats
             /\ s # {} => /\ Max(s) \in s
                          /\ FoldBody(nodes, g)[s] =
                               AddStats(g[s \ {Max(s)}], nodes[Max(s)])
             /\ FoldBody(nodes, g)[s] \in Sums
  <2>1. FoldBody(nodes, g)[s] = IF s = {} THEN NoStats
          ELSE LET x == Max(s) IN AddStats(g[s \ {x}], nodes[x])
    BY <1>1 DEF FoldBody
  <2>2. CASE s = {}
    BY <1>4, <2>1, <2>2
  <2>3. CASE s # {}
    <3>1. Max(s) \in s
      BY <2>3, MaxOfPositions
    <3>2. g[s \ {Max(s)}] \in Sums /\ Max(s) \in 1..n
      BY <3>1
    <3>3. AddStats(g[s \ {Max(s)}], nodes[Max(s)]) \in Sums
      BY <1>5, <3>2
    <3> QED
      BY <2>1, <2>3, <3>1, <3>3
  <2> QED
    BY <2>2, <2>3
<1>7. \A g \in [D -> Sums] : FoldBody(nodes, g) \in [D -> Sums]
  BY <1>1, <1>6 DEF FoldBody
<1>8. F \in [[D -> Sums] -> [D -> Sums]]
  BY <1>7
<1>9. \A g \in [D -> Sums] : F[g] = FoldBody(nodes, g)
  OBVIOUS
<1> HIDE DEF F
<1>10. ASSUME NEW g \in [D -> Sums], NEW h \in [D -> Sums], NEW s \in D,
              \A u \in D : m[u] < m[s] => g[u] = h[u]
       PROVE  F[g][s] = F[h][s]
  <2>1. F[g] = FoldBody(nodes, g) /\ F[h] = FoldBody(nodes, h)
    BY <1>9
  <2>2. CASE s = {}
    BY <1>6, <2>1, <2>2
  <2>3. CASE s # {}
    <3>1. /\ Max(s) \in s
          /\ F[g][s] = AddStats(g[s \ {Max(s)}], nodes[Max(s)])
          /\ F[h][s] = AddStats(h[s \ {Max(s)}], nodes[Max(s)])
      BY <1>6, <2>1, <2>3
    <3>2. Cardinality(s \ {Max(s)}) = Cardinality(s) - 1 /\ Cardinality(s) \in Nat
      BY <1>2, <3>1, FS_RemoveElement
    <3>3. s \ {Max(s)} \in D /\ m[s \ {Max(s)}] < m[s]
      <4> DEFINE u == s \ {Max(s)}
      <4>1. u \in D
        OBVIOUS
      <4>2. m[u] = Cardinality(u) /\ m[s] = Cardinality(s)
        BY <4>1
      <4> QED
        BY <3>2, <4>1, <4>2
    <3>4. g[s \ {Max(s)}] = h[s \ {Max(s)}]
      BY <1>10, <3>3
    <3> QED
      BY <3>1, <3>4
  <2> QED
    BY <2>2, <2>3
<1> HIDE DEF D, m
<1>11. Descends(D, Sums, m, F)
  BY <1>3, <1>8, <1>10 DEF Descends
<1>12. \E g \in [D -> Sums] : g = F[g]
  BY <1>4, <1>11, FixedPoint
<1> QED
  BY <1>9, <1>12 DEF nodes

(* In every order of the server zones, a display adds up them all.         *)
LEMMA FoldSums ==
  ASSUME IInv, ClockInv, NEW order \in SetToSeqs(Servers)
  PROVE  SumsOf(FoldLeft(AddStats, NoStats, [i \in DOMAIN order |-> node[order[i]]]),
                Servers)
<1> DEFINE nodes == [i \in DOMAIN order |-> node[order[i]]]
           n == Cardinality(Servers)
           c == CHOOSE g : g = FoldBody(nodes, g)
           Done(k) == {order[i] : i \in 1..k}
           T == {k \in 0..n : SumsOf(c[1..k], Done(k))}
<1>1. IsFiniteSet(Servers) /\ n \in Nat
  BY SummandTypes, FS_CardinalityType
<1>2. /\ order \in [1..n -> Servers]
      /\ \A i, j \in 1..n : i # j => order[i] # order[j]
  BY DEF SetToSeqs
<1>3. DOMAIN nodes = 1..n /\ \A i \in 1..n : nodes[i] = node[order[i]]
  BY <1>2
<1>4. c = FoldBody(nodes, c)
  BY <1>1, <1>2, FoldExists
<1>5. FoldLeft(AddStats, NoStats, nodes) = c[1..n]
  BY <1>3, FoldUnfolds
<1> HIDE DEF c, nodes, n
<1>6. \A s \in SUBSET (1..n) :
        c[s] = IF s = {} THEN NoStats
               ELSE LET x == Max(s) IN AddStats(c[s \ {x}], nodes[x])
  BY <1>3, <1>4 DEF FoldBody
<1>7. 0 \in T
  <2>1. 1..0 = {} /\ Done(0) = {}
    OBVIOUS
  <2>2. c[{}] = NoStats
    BY <1>6
  <2> QED
    BY <1>1, <2>1, <2>2, SumsStart, HorizonType
<1>8. ASSUME NEW k \in 1..n, k - 1 \in T PROVE k \in T
  <2>1. SumsOf(c[1..(k - 1)], Done(k - 1))
    BY <1>8
  <2>2. Max(1..k) = k /\ (1..k) \ {k} = 1..(k - 1)
    BY <1>1, MaxUpTo
  <2>3. 1..k \in SUBSET (1..n) /\ 1..k # {} /\ k \in 0..n
    BY <1>1
  <2>4. c[1..k] = AddStats(c[1..(k - 1)], node[order[k]])
    <3>1. c[1..k] = AddStats(c[(1..k) \ {Max(1..k)}], nodes[Max(1..k)])
      BY <1>6, <2>3
    <3> QED
      BY <1>3, <2>2, <3>1
  <2>5. \A i \in 1..k : i \in 1..n /\ (i \in 1..(k - 1) \/ i = k)
    BY <1>1
  <2>6. \A i \in 1..(k - 1) : i \in 1..k /\ i \in 1..n /\ i # k
    BY <1>1
  <2>7. Done(k) = Done(k - 1) \cup {order[k]}
    <3>1. k \in 1..k
      BY <1>1
    <3> QED
      BY <2>5, <2>6, <3>1
  <2>8. /\ order[k] \in Servers /\ Done(k - 1) \in SUBSET Servers
        /\ order[k] \notin Done(k - 1)
    BY <1>2, <2>6
  <2> HIDE DEF Done
  <2>9. SumsOf(AddStats(c[1..(k - 1)], node[order[k]]), Done(k - 1) \cup {order[k]})
    BY <2>1, <2>8, SumsGrow
  <2> QED
    BY <2>3, <2>4, <2>7, <2>9
<1>9. n \in T
  <2> HIDE DEF T
  <2>1. \A k \in 0..n : k \in T
    BY <1>1, <1>7, <1>8, InductionUpTo
  <2> QED
    BY <1>1, <2>1
<1>10. Done(n) = Servers
  <2>1. order \in Injection(1..n, Servers)
    BY <1>2 DEF Injection, IsInjective
  <2>2. Cardinality(1..n) = n
    BY <1>1, FS_Interval
  <2>3. order \in Surjection(1..n, Servers)
    BY <1>1, <2>1, <2>2, FS_Injection DEF n
  <2> QED
    BY <1>2, <2>3 DEF Surjection
<1> HIDE DEF Done
<1> QED
  BY <1>5, <1>9, <1>10 DEF nodes

(* The sums of the display under way are those of all server zones.        *)
StatsInv == stats = Nil \/ SumsOf(stats, Servers)

LEMMA StatsInit == Init => StatsInv
  BY DEF Init, StatsInv

LEMMA StatsNext == IInv /\ ClockInv /\ StatsInv /\ [Next]_vars => StatsInv'
<1> SUFFICES ASSUME IInv, ClockInv, StatsInv, [Next]_vars PROVE StatsInv'
  OBVIOUS
<1>1. ASSUME stats' = Nil PROVE StatsInv'
  BY <1>1 DEF StatsInv
<1>2. ASSUME NEW st, SumsOf(st, Servers), stats' = st,
             node' = node, since' = since, log' = log, now' = now
      PROVE  StatsInv'
  <2>1. Servers' = Servers
    BY <1>2 DEF Servers
  <2>2. Requested' = Requested /\ Spent' = Spent
    BY <1>2, <2>1 DEF Requested, Spent
  <2>3. SumsOf(stats, Servers)' <=>
          /\ stats' \in Sums
          /\ Counted(stats'.requests, SumFunctionOnSet(Requested', Servers'))
          /\ Counted(stats'.total, SumFunctionOnSet(Spent', Servers'))
          /\ Merged(stats.times, Servers)'
    BY DEF SumsOf, Sums, Rings, Samples, Counters, Pos
  <2>4. Horizon' = Horizon
    BY <1>2 DEF Horizon
  <2>5. \A S, E : Among(S, E)' = Among(S, E)
    BY <1>2 DEF Among, SamplesOf, At
  <2>6. Merged(stats.times, Servers)' <=> Merged(st.times, Servers)
    BY <1>2, <2>1, <2>4, <2>5 DEF Merged
  <2> QED
    BY <1>2, <2>1, <2>2, <2>3, <2>6 DEF SumsOf, StatsInv
<1>3. CASE \E z \in Zones : AddNode(z) \/ Reset(z) \/ Delete(z)
  BY <1>1, <1>3 DEF AddNode, Reset, Delete
<1>4. CASE Display
  <2>1. PICK order \in SetToSeqs(Servers) :
          stats' = FoldLeft(AddStats, NoStats, [i \in DOMAIN order |-> node[order[i]]])
    BY <1>4 DEF Display
  <2>2. node' = node /\ since' = since /\ log' = log /\ now' = now
    BY <1>4, DisplayKeepsNodes DEF Display
  <2> DEFINE st == FoldLeft(AddStats, NoStats, [i \in DOMAIN order |-> node[order[i]]])
  <2>3. SumsOf(st, Servers)
    BY FoldSums
  <2> HIDE DEF st
  <2> QED
    BY <1>2, <2>1, <2>2, <2>3 DEF st
<1>5. CASE Tick \/ SetBack
  BY <1>1, <1>5 DEF Tick, SetBack
<1>6. CASE UNCHANGED vars
  BY <1>2, <1>6 DEF vars, StatsInv
<1> QED
  BY <1>3, <1>4, <1>5, <1>6 DEF Next

(* The invariants of the clock and of the sums hold in every state.        *)
LEMMA StatsHold == Spec => []ClockInv /\ []StatsInv
<1>1. Spec => []IInv
  BY Invariant
<1>2. Spec => []ClockInv
  BY <1>1, ClockInit, ClockNext, PTL DEF Spec
<1>3. Spec => []StatsInv
  BY <1>1, <1>2, StatsInit, StatsNext, PTL DEF Spec
<1> QED
  BY <1>2, <1>3, PTL

(* For any number of zones, in every order of the tree, the sums of a page *)
(* lose no request and no millisecond, whichever of the counters of the    *)
(* zones and of the sums wrap, and wherever.                               *)
THEOREM SumsExact == Spec => []SumExact
<1>1. StatsInv => SumExact
  <2> SUFFICES ASSUME SumsOf(stats, Servers) PROVE SumExact
    BY DEF StatsInv, SumExact
  <2>1. /\ SumFunction(Requested) = SumFunctionOnSet(Requested, Servers)
        /\ SumFunction(Spent) = SumFunctionOnSet(Spent, Servers)
    <3>1. DOMAIN Requested = Servers /\ DOMAIN Spent = Servers
      BY DEF Requested, Spent
    <3> QED
      BY <3>1 DEF SumFunction
  <2>2. /\ stats.requests.n + W * stats.requests.oc = SumFunction(Requested)
        /\ stats.total.n + W * stats.total.oc = SumFunction(Spent)
    BY <2>1 DEF SumsOf, Counted
  <2> QED
    BY <2>2 DEF SumExact, Requested, Spent
<1> QED
  BY <1>1, StatsHold, PTL

(* One that is there is not among those later than it, so they all fit.    *)
LEMMA LaterFit ==
  ASSUME NEW F \in Lists, NEW m \in 1 .. (QUEUE_LEN - 1), NEW k \in Nat,
         Hits(F, QUEUE_LEN - 1, Later(F[m].time)) = Fit(k)
  PROVE  k < QUEUE_LEN - 1
<1> DEFINE n == QUEUE_LEN - 1
           E == Later(F[m].time)
<1>0. n \in Nat /\ QUEUE_LEN = n + 1 /\ n >= 1
  BY NodeAssumption
<1>1. F[m] \notin E
  <2>1. F[m].time \in Nat
    BY DEF Lists, Samples
  <2>2. ~(F[m].time > F[m].time)
    BY <2>1
  <2> QED
    BY <2>2 DEF Later
<1>2. Hit(F, n, E) \subseteq (1..n) \ {m}
  <2> HIDE DEF E
  <2> QED
    BY <1>1 DEF Hit
<1>3. IsFiniteSet(1..n) /\ Cardinality(1..n) = n
  BY <1>0, FS_Interval
<1>4. IsFiniteSet((1..n) \ {m}) /\ Cardinality((1..n) \ {m}) = n - 1
  <2> DEFINE I == 1..n
  <2>1. m \in I /\ IsFiniteSet(I) /\ Cardinality(I) = n
    BY <1>3
  <2> HIDE DEF I
  <2>2. IsFiniteSet(I \ {m}) /\ Cardinality(I \ {m}) = Cardinality(I) - 1
    BY <2>1, FS_RemoveElement, FS_Subset
  <2> QED
    BY <2>1, <2>2 DEF I
<1>5. Hits(F, n, E) <= n - 1
  BY <1>2, <1>4, FS_Subset DEF Hits
<1>6. Fit(k) <= n - 1
  BY <1>5
<1> QED
  BY <1>0, <1>6 DEF Fit

(* For any number of zones, ring length and period, in every order of the  *)
(* tree, the ring of the sums of a page holds the newest samples of all    *)
(* server zones: none twice or made up, and, while no zone has samples     *)
(* from before the clock was set back next to later ones, in order, as     *)
(* many as there are or fit, and none older than one it leaves out.        *)
THEOREM SumsNewest == Spec => []SumIsNewest
<1>1. IInv /\ ClockInv /\ StatsInv => SumIsNewest
  <2> SUFFICES ASSUME IInv, ClockInv, SumsOf(stats, Servers) PROVE SumIsNewest
    BY DEF StatsInv, SumIsNewest
  <2> DEFINE n == QUEUE_LEN - 1
             q == stats.times
             ring == Entries(q)
             F == Newest(q)
             kept == {i \in DOMAIN ring : ring[i].time > Horizon}
             samples == UNION {{<<z, i>> : i \in Held(log[z]["request"])} : z \in Servers}
             young == {p \in samples : At(p).time > Horizon}
             Size(E) == Cardinality(Among(Servers, E))
  <2>0. n \in Nat /\ QUEUE_LEN = n + 1 /\ Horizon \in Nat
    BY NodeAssumption, HorizonType
  <2>1. q \in Rings /\ Merged(q, Servers)
    BY DEF SumsOf, Sums
  <2>2. q.front = NextPos(q.rear)
    BY <2>1 DEF Merged
  <2>3. /\ F \in Lists /\ DOMAIN ring = 1..n
        /\ \A m \in 1..n : QUEUE_LEN - m \in 1..n /\ ring[QUEUE_LEN - m] = F[m]
    BY <2>1, <2>2, FromEndIs DEF Newest, Lists
  <2>4. \A E : Cardinality({i \in DOMAIN ring : ring[i] \in E}) = Hits(F, n, E)
    BY <2>1, <2>2, EntryHits DEF Newest
  <2>5. ASSUME NEW p \in samples PROVE At(p) \in Samples
    <3>1. PICK z \in Servers : \E i \in Held(log[z]["request"]) : p = <<z, i>>
      OBVIOUS
    <3>2. PICK i \in Held(log[z]["request"]) : p = <<z, i>>
      BY <3>1
    <3>3. z \in Zones /\ "request" \in Series(z)
      BY DEF Servers, Series
    <3>4. log[z]["request"] \in Seq(Samples)
      BY <3>3 DEF IInv, HistoryInv
    <3>5. i \in DOMAIN log[z]["request"] /\ At(p) = log[z]["request"][i]
      BY <3>2 DEF Held, At
    <3> QED
      BY <3>4, <3>5
  <2>6. \A E : Among(Servers, E) = {p \in samples : At(p) \in E}
    BY DEF Among, SamplesOf
  <2>7. \A E : Size(E) \in Nat
    BY <2>1, FS_CardinalityType DEF Merged
  <2> HIDE DEF q, ring, F, n, samples
  <2>8. ASSUME NEW i \in 1..n
        PROVE  ring[i] \in Samples /\ QUEUE_LEN - i \in 1..n /\ ring[i] = F[QUEUE_LEN - i]
    <3>1. QUEUE_LEN - i \in 1..n /\ QUEUE_LEN - (QUEUE_LEN - i) = i
      BY <2>0
    <3>2. ring[i] = F[QUEUE_LEN - i]
      BY <2>3, <3>1
    <3> QED
      BY <2>3, <3>1, <3>2 DEF Lists, n
  <2>9. ASSUME NEW i \in kept
        PROVE  Cardinality({j \in kept : ring[j] = ring[i]}) <=
                 Cardinality({p \in young : At(p) = ring[i]})
    <3> DEFINE e == ring[i]
    <3>1. e.time > Horizon
      OBVIOUS
    <3>2. {j \in kept : ring[j] = e} = {j \in DOMAIN ring : ring[j] \in {e}}
      BY <3>1
    <3>3. {p \in young : At(p) = e} = Among(Servers, {e})
      BY <2>6, <3>1
    <3> HIDE DEF e
    <3>4. Hits(F, n, {e}) <= Size({e})
      BY <2>1, <3>1 DEF Merged, F, n
    <3>5. Cardinality({j \in kept : ring[j] = e}) = Hits(F, n, {e})
      BY <2>4, <3>2
    <3> QED
      BY <3>3, <3>4, <3>5 DEF e
  <2>10. ASSUME \A z \in Servers : InOrder(NewestOf(log[z]["request"]))
         PROVE  /\ Cardinality(kept) = Fit(Cardinality(young))
                /\ \A i, j \in kept : i < j => ring[i].time <= ring[j].time
                /\ \A i \in kept :
                     Cardinality({p \in young : At(p).time > ring[i].time}) < QUEUE_LEN - 1
    <3>1. /\ Desc(F)
          /\ \A t \in Nat : t >= Horizon => Hits(F, n, Later(t)) = Fit(Size(Later(t)))
      BY <2>1, <2>10 DEF Merged, F, n
    <3>2. Cardinality(kept) = Fit(Cardinality(young))
      <4>1. kept = {i \in DOMAIN ring : ring[i] \in Later(Horizon)}
        BY <2>3, <2>8 DEF Later
      <4>2. young = Among(Servers, Later(Horizon))
        BY <2>5, <2>6 DEF Later
      <4>3. Hits(F, n, Later(Horizon)) = Fit(Size(Later(Horizon)))
        BY <2>0, <3>1
      <4>4. Cardinality(kept) = Hits(F, n, Later(Horizon))
        BY <2>4, <4>1
      <4> QED
        BY <4>2, <4>3, <4>4
    <3>3. ASSUME NEW i \in kept, NEW j \in kept, i < j PROVE ring[i].time <= ring[j].time
      <4>1. i \in 1..n /\ j \in 1..n
        BY <2>3
      <4> DEFINE a == QUEUE_LEN - j
                 b == QUEUE_LEN - i
      <4>2. a \in 1..n /\ b \in 1..n /\ ring[i] = F[b] /\ ring[j] = F[a]
        BY <2>8, <4>1
      <4>3. a \in 1..b
        BY <2>0, <3>3, <4>1
      <4>4. F[a].time >= F[b].time
        BY <3>1, <4>2, <4>3 DEF Desc, n
      <4>5. ring[i].time \in Nat /\ ring[j].time \in Nat
        BY <2>8, <4>1 DEF Samples
      <4> QED
        BY <4>2, <4>4, <4>5
    <3>4. ASSUME NEW i \in kept
          PROVE  Cardinality({p \in young : At(p).time > ring[i].time}) < QUEUE_LEN - 1
      <4> DEFINE t == ring[i].time
                 m == QUEUE_LEN - i
      <4>1. i \in 1..n /\ t > Horizon
        BY <2>3
      <4>2. m \in 1..n /\ ring[i] = F[m] /\ t \in Nat
        BY <2>8, <4>1 DEF Samples
      <4>3. t >= Horizon
        BY <2>0, <4>1, <4>2
      <4>4. {p \in young : At(p).time > t} = Among(Servers, Later(t))
        <5>1. ASSUME NEW p \in samples
              PROVE  (At(p).time > Horizon /\ At(p).time > t) <=> At(p) \in Later(t)
          <6>1. At(p) \in Samples /\ At(p).time \in Nat
            BY <2>5 DEF Samples
          <6> HIDE DEF t
          <6>2. At(p).time > t => At(p).time > Horizon
            BY <2>0, <4>2, <4>3, <6>1
          <6> QED
            BY <6>1, <6>2 DEF Later
        <5> HIDE DEF t
        <5> QED
          BY <2>6, <5>1
      <4>5. Hits(F, n, Later(t)) = Fit(Size(Later(t)))
        BY <3>1, <4>2, <4>3
      <4>6. Hits(F, n, Later(F[m].time)) = Fit(Size(Later(t)))
        BY <4>2, <4>5
      <4> DEFINE k == Size(Later(t))
      <4>7. k \in Nat
        BY <2>7
      <4> HIDE DEF m, t, Size
      <4>8. k < QUEUE_LEN - 1
        <5> HIDE DEF k
        <5>1. Hits(F, n, Later(F[m].time)) = Fit(k)
          BY <4>6 DEF k
        <5> QED
          BY <2>3, <4>2, <4>7, <5>1, LaterFit DEF n
      <4> QED
        BY <4>4, <4>8 DEF Size, t
    <3> QED
      BY <3>2, <3>3, <3>4
  <2> QED
    BY <2>9, <2>10 DEF SumIsNewest, kept, young, samples, ring, q, At, Held, InOrder, Fit
<1> QED
  BY <1>1, Invariant, StatsHold, PTL

(* Every variable keeps its type: each ring its shape, each counter its    *)
(* width, and every average is a number.                                   *)
THEOREM TypeCorrect == Spec => []TypeOK
<1>1. IInv /\ DurationInv /\ StatsInv => TypeOK
  <2> SUFFICES ASSUME IInv, DurationInv, StatsInv PROVE TypeOK
    OBVIOUS
  <2>1. ASSUME NEW z \in Zones, node[z] # Nil
        PROVE  node[z] \in [requests : Counters, s : [Series(z) -> Times]]
    <3>1. NodeInv(z, node[z], log[z], since[z])
      BY <2>1 DEF IInv, ZoneInv
    <3>2. ASSUME NEW s \in Series(z) PROVE node[z].s[s] \in Times
      <4> DEFINE t == node[z].s[s]
      <4>1. SeriesInv(t, log[z][s], since[z].msec[s]) /\ t.time \in Nat
        BY <2>1, <3>1 DEF NodeInv, DurationInv
      <4> HIDE DEF t
      <4>2. /\ t = [total |-> t.total, time |-> t.time,
                    times |-> t.times, buckets |-> t.buckets]
            /\ t.total \in Counters /\ t.times \in Rings /\ t.buckets \in Histograms
        BY <4>1 DEF SeriesInv, Counted, RingInv, Observed
      <4>3. t \in Times
        BY <4>1, <4>2 DEF Times, Histograms
      <4> QED
        BY <4>3 DEF t
    <3>3. node[z].s \in [Series(z) -> Times]
      BY <3>1, <3>2 DEF NodeInv
    <3> QED
      BY <3>1, <3>3 DEF NodeInv, Counted
  <2>2. now \in Nat
    BY DEF IInv, HistoryInv
  <2> QED
    BY <2>1, <2>2 DEF TypeOK, NodeTypeOK, StatsInv, SumsOf, Sums
<1>2. Spec => []IInv
  BY Invariant
<1>3. Spec => []ClockInv /\ []StatsInv
  BY StatsHold
<1>4. Spec => []DurationInv
  BY <1>2, <1>3, DurationInit, DurationNext, PTL DEF Spec
<1> QED
  BY <1>1, <1>2, <1>3, <1>4, PTL
=============================================================================
