--------------------------- MODULE VtsName_proofs ---------------------------
(***************************************************************************)
(* What the zone of a control command or of a limit is read as: the loop   *)
(* of replace_strc, which works in place and leaves its tail behind,       *)
(* yields the text with every escape replaced, for texts of any length and *)
(* any number of escapes, however near each other.                         *)
(*                                                                         *)
(* And what is read of a name that escape_json or escape_prometheus wrote: *)
(* the name, by one and by the other as UTF-8, whatever the name.          *)
(***************************************************************************)
EXTENDS VtsName, Recursion, SequenceTheorems

(* The loop of replace_strc *)

(* The function that replace_strc computes with. *)
Loop(buf, dst, c) == CHOOSE loop : loop =
  [s \in [data : [DOMAIN buf.data -> Chars], p : DOMAIN buf.data, n : Nat] |->
     IF Occurrences(s.data, s.p, dst) = {} THEN s
     ELSE LET i == Min(Occurrences(s.data, s.p, dst))
              moved == buf.len - (i - 1) - (s.n + 1) * Len(dst) + s.n
          IN  loop[[data |-> [j \in DOMAIN s.data |->
                                IF j = i THEN c
                                ELSE IF j \in i + 1 .. i + moved
                                  THEN s.data[j + Len(dst) - 1] ELSE s.data[j]],
                    p |-> i + 1, n |-> s.n + 1]]]

(* replace_strc by that function. *)
LEMMA LoopIs ==
  \A buf, dst, c :
    replace_strc(buf, dst, c) =
      IF buf.data[buf.len + 1] # "NUL" THEN buf
      ELSE LET end == Loop(buf, dst, c)[[data |-> buf.data, p |-> 1, n |-> 0]]
           IN  [data |-> end.data, len |-> buf.len - end.n * Len(dst) + end.n]
BY DEF replace_strc, Loop

(* Where [a] stands in a memory of L characters and a NUL.                 *)
At(data, i) == data[i] = "[" /\ data[i + 1] = "a" /\ data[i + 2] = "]"

(* ngx_strstrn finds [a] wherever it stands before the last character of  *)
(* the memory.                                                            *)
LEMMA OccurrencesAre ==
  ASSUME NEW L \in Nat, NEW data \in [1 .. L + 1 -> Chars], NEW p \in Nat \ {0}
  PROVE  Occurrences(data, p, alpha) = {i \in p .. L - 2 : At(data, i)}
<1>1. data \in Seq(Chars) /\ Len(data) = L + 1 /\ DOMAIN data = 1 .. L + 1
  OBVIOUS
<1>2. Len(alpha) = 3 /\ alpha[1] = "[" /\ alpha[2] = "a" /\ alpha[3] = "]" /\ alpha \in Seq(Chars)
  <2> DEFINE q == alpha
  <2>1. q = <<"[", "a", "]">>
    BY DEF alpha
  <2>2. q \in Seq(Chars)
    <3>1. "[" \in Chars /\ "a" \in Chars /\ "]" \in Chars
      BY CharAssumption
    <3> QED
      BY <2>1, <3>1
  <2>3. Len(q) = 3 /\ q[1] = "[" /\ q[2] = "a" /\ q[3] = "]"
    BY <2>1
  <2> QED
    BY <2>2, <2>3
<1>3. ASSUME NEW i \in p .. L - 2
      PROVE  SubSeq(data, i, i + 3 - 1) = alpha <=> At(data, i)
  <2> DEFINE q == SubSeq(data, i, i + 3 - 1)
  <2>1. q = [j \in 1 .. 3 |-> data[i + j - 1]]
    BY <1>1
  <2>2. alpha = [j \in 1 .. 3 |-> alpha[j]]
    BY <1>2
  <2> HIDE DEF q
  <2>3. q[1] = data[i] /\ q[2] = data[i + 1] /\ q[3] = data[i + 2]
    BY <2>1
  <2>4. q = alpha <=> q[1] = alpha[1] /\ q[2] = alpha[2] /\ q[3] = alpha[3]
    <3>1. \A j \in 1 .. 3 : j = 1 \/ j = 2 \/ j = 3
      OBVIOUS
    <3> QED
      BY <2>1, <2>2, <3>1
  <2> QED
    BY <1>2, <2>3, <2>4 DEF At, q
<1>4. p .. Len(data) - Len(alpha) = p .. L - 2
  BY <1>1, <1>2
<1> QED
  BY <1>2, <1>3, <1>4 DEF Occurrences

(* What one round of the loop makes of the memory. *)
After(L, s, i) ==
  [data |-> [j \in 1 .. L + 1 |->
               IF j = i THEN "@"
               ELSE IF j \in i + 1 .. L - 2 * s.n - 2 THEN s.data[j + 2] ELSE s.data[j]],
   p |-> i + 1, n |-> s.n + 1]

(* A state of the loop: the memory, where to go on, what was replaced. *)
Memory(L) == [data : [1 .. L + 1 -> Chars], p : 1 .. L + 1, n : Nat]

(* A round makes a memory of a memory. *)
LEMMA AfterIs ==
  ASSUME NEW L \in Nat, NEW s \in Memory(L), NEW i \in 0 .. L - 2
  PROVE  After(L, s, i) \in Memory(L)
<1>1. s.data \in [1 .. L + 1 -> Chars] /\ s.p \in 1 .. L + 1 /\ s.n \in Nat
  BY DEF Memory
<1>a. "@" \in Chars
  BY CharAssumption
<1>2. ASSUME NEW j \in 1 .. L + 1
      PROVE  (IF j = i THEN "@"
              ELSE IF j \in i + 1 .. L - 2 * s.n - 2 THEN s.data[j + 2] ELSE s.data[j]) \in Chars
  <2>1. CASE j \in i + 1 .. L - 2 * s.n - 2
    <3>1. j + 2 \in 1 .. L + 1
      BY <1>1, <2>1
    <3> QED
      BY <1>1, <1>a, <3>1
  <2>2. CASE j \notin i + 1 .. L - 2 * s.n - 2
    BY <1>1, <1>a, <2>2
  <2> QED
    BY <2>1, <2>2
<1>3. After(L, s, i).data \in [1 .. L + 1 -> Chars]
  BY <1>2 DEF After
<1>4. i + 1 \in 1 .. L + 1 /\ s.n + 1 \in Nat
  BY <1>1
<1>5. After(L, s, i) = [data |-> After(L, s, i).data, p |-> i + 1, n |-> s.n + 1]
  BY DEF After
<1> QED
  BY <1>3, <1>4, <1>5 DEF Memory

(* The round taken from s: at the first occurrence, if there is one. *)
LEMMA FirstIs ==
  ASSUME NEW L \in Nat, NEW s \in Memory(L), Occurrences(s.data, s.p, alpha) # {}
  PROVE  LET i == Min(Occurrences(s.data, s.p, alpha))
         IN  /\ i \in s.p .. L - 2 /\ At(s.data, i)
             /\ \A k \in s.p .. L - 2 : At(s.data, k) => i <= k
             /\ i \in Nat
<1> DEFINE S == Occurrences(s.data, s.p, alpha)
<1>1. s.data \in [1 .. L + 1 -> Chars] /\ s.p \in 1 .. L + 1
  BY DEF Memory
<1>2. S = {i \in s.p .. L - 2 : At(s.data, i)}
  BY <1>1, OccurrencesAre
<1>3. S \in SUBSET Nat
  BY <1>1, <1>2
<1> HIDE DEF S
<1>4. \E i \in S : \A k \in S : i <= k
  BY <1>3, LeastNat DEF S
<1>5. Min(S) \in S /\ \A k \in S : Min(S) <= k
  BY <1>4 DEF Min
<1> QED
  BY <1>2, <1>3, <1>5 DEF S

(* The loop does a round, or ends. *)
Unfolds(L, buf) ==
  \A s \in Memory(L) :
    Loop(buf, alpha, "@")[s] =
      IF Occurrences(s.data, s.p, alpha) = {} THEN s
      ELSE Loop(buf, alpha, "@")[After(L, s, Min(Occurrences(s.data, s.p, alpha)))]

(* The loop is defined, because it goes on behind what it replaced. *)
LEMMA LoopStep ==
  ASSUME NEW L \in Nat, NEW buf, buf.len = L, DOMAIN buf.data = 1 .. L + 1
  PROVE  Unfolds(L, buf)
<1> DEFINE D == Memory(L)
           Occ(s) == Occurrences(s.data, s.p, alpha)
           moved(s) == buf.len - (Min(Occ(s)) - 1) - (s.n + 1) * Len(alpha) + s.n
           then(s) == [data |-> [j \in DOMAIN s.data |->
                         IF j = Min(Occ(s)) THEN "@"
                         ELSE IF j \in Min(Occ(s)) + 1 .. Min(Occ(s)) + moved(s)
                           THEN s.data[j + Len(alpha) - 1] ELSE s.data[j]],
                       p |-> Min(Occ(s)) + 1, n |-> s.n + 1]
           Body(f, s) == IF Occ(s) = {} THEN s ELSE f[then(s)]
           F == [f \in [D -> D] |-> [s \in D |-> Body(f, s)]]
           m == [s \in D |-> L + 1 - s.p]
<1>1. m \in [D -> Nat]
  BY DEF Memory
<1>2. ASSUME NEW s \in D, Occ(s) # {}
      PROVE  /\ then(s) = After(L, s, Min(Occ(s)))
             /\ then(s) \in D /\ m[then(s)] < m[s]
  <2> DEFINE i == Min(Occ(s))
  <2>1. s.data \in [1 .. L + 1 -> Chars] /\ s.p \in 1 .. L + 1 /\ s.n \in Nat
    BY DEF Memory
  <2>2. i \in s.p .. L - 2 /\ i \in Nat
    BY <1>2, FirstIs
  <2>3. Len(alpha) = 3
    BY DEF alpha
  <2>4. i + moved(s) = L - 2 * s.n - 2
    <3> HIDE DEF i
    <3>1. \A n, k \in Nat : k + (L - (k - 1) - (n + 1) * 3 + n) = L - 2 * n - 2
      OBVIOUS
    <3>2. i + (L - (i - 1) - (s.n + 1) * 3 + s.n) = L - 2 * s.n - 2
      BY <2>1, <2>2, <3>1
    <3> QED
      BY <2>3, <3>2 DEF i
  <2>5. then(s).data = After(L, s, i).data
    <3> HIDE DEF moved, Occ
    <3>1. \A j \in 1 .. L + 1 : s.data[j + Len(alpha) - 1] = s.data[j + 2]
      BY <2>3
    <3> QED
      BY <2>1, <2>4, <3>1 DEF After
  <2>6. then(s) = After(L, s, i)
    BY <2>5 DEF After
  <2>7. i \in 0 .. L - 2
    BY <2>1, <2>2
  <2>8. After(L, s, i) \in D
    <3> HIDE DEF i
    <3> QED
      BY <2>7, AfterIs
  <2>9. m[After(L, s, i)] < m[s]
    <3>1. After(L, s, i).p = i + 1
      BY DEF After
    <3> HIDE DEF i
    <3> QED
      BY <2>1, <2>2, <2>8, <3>1
  <2> QED
    BY <2>6, <2>8, <2>9
<1> HIDE DEF Occ, then
<1>3. F \in [[D -> D] -> [D -> D]]
  BY <1>2
<1>4. ASSUME NEW g \in [D -> D], NEW h \in [D -> D], NEW s \in D,
             \A y \in D : m[y] < m[s] => g[y] = h[y]
      PROVE  F[g][s] = F[h][s]
  <2>1. Body(g, s) = Body(h, s)
    <3> HIDE DEF m
    <3> QED
      BY <1>2, <1>4
  <2> QED
    BY <2>1
<1>5. Descends(D, D, m, F)
  BY <1>1, <1>3, <1>4 DEF Descends
<1>6. \E f \in [D -> D] : f = F[f]
  <2>1. \E t : t \in D
    <3>1. [data |-> [j \in 1 .. L + 1 |-> "@"], p |-> 1, n |-> 0] \in D
      BY CharAssumption DEF Memory
    <3> QED
      BY <3>1
  <2> HIDE DEF F, m, D
  <2> QED
    BY <2>1, <1>5, FixedPoint
<1>7. \E f : f = [s \in D |-> Body(f, s)]
  BY <1>6
<1> DEFINE f == Loop(buf, alpha, "@")
<1>8. f = [s \in D |-> Body(f, s)]
  <2>1. f = CHOOSE g : g = [s \in D |-> Body(g, s)]
    BY DEF Loop, Memory, Occ, then
  <2> HIDE DEF f, D
  <2> QED
    BY <1>7, <2>1
<1> HIDE DEF f
<1>9. \A s \in D : f[s] = IF Occ(s) = {} THEN s ELSE f[After(L, s, Min(Occ(s)))]
  BY <1>2, <1>8
<1> QED
  BY <1>9 DEF f, Occ, Unfolds
-----------------------------------------------------------------------------
(* The text it is meant to yield *)

(* What is meant by a text, piece by piece. *)
Starts(t) == {i \in 1 .. Len(t) - 2 : At(t, i)}

(* What character i of a text becomes. *)
Piece(t, i) ==
  IF i \in Starts(t) THEN <<"@">>
  ELSE IF \E j \in Starts(t) : i \in j + 1 .. j + 2 THEN <<>> ELSE <<t[i]>>

(* The function that FlattenSeq computes with. *)
Flatten(seqs) == CHOOSE flatten : flatten =
  [i \in 1 .. Len(seqs) |-> IF i = 1 THEN seqs[i] ELSE flatten[i - 1] \o seqs[i]]

(* FlattenSeq adds one sequence after the other. *)
LEMMA FlattenIs ==
  ASSUME NEW C, NEW L \in Nat, NEW seqs \in [1 .. L -> Seq(C)]
  PROVE  \E out \in [0 .. L -> Seq(C)] :
           /\ out[0] = <<>>
           /\ \A k \in 0 .. L - 1 : out[k + 1] = out[k] \o seqs[k + 1]
           /\ FlattenSeq(seqs) = out[L]
<1>1. Len(seqs) = L /\ seqs \in Seq(Seq(C))
  OBVIOUS
<1>2. CASE L = 0
  <2>1. seqs = <<>> /\ FlattenSeq(seqs) = <<>>
    BY <1>1, <1>2 DEF FlattenSeq
  <2> DEFINE out == [i \in 0 .. L |-> <<>>]
  <2>2. out \in [0 .. L -> Seq(C)]
    OBVIOUS
  <2>3. out[0] = <<>> /\ out[L] = <<>>
    BY <1>2
  <2>4. 0 .. L - 1 = {}
    BY <1>2
  <2> HIDE DEF out
  <2> QED
    BY <2>1, <2>2, <2>3, <2>4
<1>3. CASE L # 0
  <2> DEFINE N == 1 .. L
             T == Seq(C)
             D == [N -> T]
             Body(f, i) == IF i = 1 THEN seqs[i] ELSE f[i - 1] \o seqs[i]
             F == [f \in D |-> [i \in N |-> Body(f, i)]]
             m == [i \in N |-> i]
  <2>1. m \in [N -> Nat] /\ <<>> \in T
    OBVIOUS
  <2>2. ASSUME NEW f \in D, NEW i \in N PROVE Body(f, i) \in T
    <3>1. CASE i = 1
      BY <3>1
    <3>2. CASE i # 1
      <4>1. i - 1 \in N
        BY <3>2
      <4>2. f[i - 1] \in Seq(C) /\ seqs[i] \in Seq(C)
        BY <4>1
      <4>3. f[i - 1] \o seqs[i] \in Seq(C)
        BY <4>2
      <4> QED
        BY <3>2, <4>3
    <3> QED
      BY <3>1, <3>2
  <2>3. F \in [D -> D]
    <3> HIDE DEF T
    <3> SUFFICES ASSUME NEW f \in D PROVE [i \in N |-> Body(f, i)] \in D
      OBVIOUS
    <3> QED
      BY <2>2
  <2>4. ASSUME NEW g \in D, NEW h \in D, NEW i \in N,
               \A j \in N : m[j] < m[i] => g[j] = h[j]
        PROVE  F[g][i] = F[h][i]
    <3>1. i = 1 \/ (i - 1 \in N /\ m[i - 1] < m[i])
      OBVIOUS
    <3>2. Body(g, i) = Body(h, i)
      BY <2>4, <3>1
    <3> QED
      BY <3>2
  <2>5. Descends(N, T, m, F)
    BY <2>1, <2>3, <2>4 DEF Descends
  <2>6. \E f \in D : f = F[f]
    <3> HIDE DEF F, m, T, N
    <3> QED
      BY <2>1, <2>5, FixedPoint
  <2> DEFINE f == Flatten(seqs)
  <2>7. f = [i \in N |-> Body(f, i)] /\ f \in D
    <3>1. f = CHOOSE g : g = [i \in N |-> Body(g, i)]
      BY <1>1 DEF Flatten
    <3>2. PICK g \in D : g = [i \in N |-> Body(g, i)]
      BY <2>6
    <3>a. f = [i \in N |-> Body(f, i)]
      <4> HIDE DEF f, N
      <4> QED
        BY <3>1, <3>2
    <3>3. \A i \in N : f[i] \in T
      <4> DEFINE U == {i \in Nat : i \in N => f[i] \in T}
      <4> HIDE DEF f, T
      <4>1. 0 \in U
        OBVIOUS
      <4>2. ASSUME NEW i \in U PROVE i + 1 \in U
        <5>1. CASE i + 1 \in N
          <6>1. i = 0 \/ i \in N
            BY <5>1
          <6>2. f[i + 1] = Body(f, i + 1)
            BY <3>a, <5>1
          <6>3. CASE i = 0
            BY <5>1, <6>2, <6>3 DEF T
          <6>4. CASE i # 0
            <7>1. f[i] \in Seq(C) /\ seqs[i + 1] \in Seq(C)
              BY <5>1, <6>1, <6>4 DEF T
            <7>2. f[i] \o seqs[i + 1] \in Seq(C)
              BY <7>1
            <7>3. f[i + 1] = f[i] \o seqs[i + 1]
              <8>1. (i + 1) - 1 = i /\ i + 1 # 1
                BY <6>4
              <8> QED
                BY <6>2, <8>1
            <7>4. f[i + 1] \in T
              BY <7>2, <7>3 DEF T
            <7> QED
              BY <7>4
          <6> QED
            BY <6>3, <6>4
        <5>2. CASE i + 1 \notin N
          BY <5>2
        <5> QED
          BY <5>1, <5>2
      <4>3. U \in SUBSET Nat
        OBVIOUS
      <4> HIDE DEF U
      <4>4. U = Nat
        BY <4>1, <4>2, <4>3, InductionNat
      <4> QED
        BY <4>4 DEF U
    <3> HIDE DEF f, T
    <3> QED
      BY <3>a, <3>3
  <2>8. FlattenSeq(seqs) = f[L]
    BY <1>1, <1>3 DEF FlattenSeq, Flatten
  <2> DEFINE out == [k \in 0 .. L |-> IF k = 0 THEN <<>> ELSE f[k]]
  <2> HIDE DEF f
  <2>9. out \in [0 .. L -> Seq(C)]
    BY <2>7
  <2>10. \A k \in 0 .. L - 1 : out[k + 1] = out[k] \o seqs[k + 1]
    <3> SUFFICES ASSUME NEW k \in 0 .. L - 1 PROVE out[k + 1] = out[k] \o seqs[k + 1]
      OBVIOUS
    <3>0. k + 1 \in N /\ k + 1 \in 0 .. L /\ k + 1 # 0 /\ k \in 0 .. L
      OBVIOUS
    <3>1. out[k + 1] = Body(f, k + 1)
      <4>1. out[k + 1] = f[k + 1]
        BY <3>0
      <4>2. f[k + 1] = Body(f, k + 1)
        <5> HIDE DEF N
        <5> QED
          BY <2>7, <3>0
      <4> QED
        BY <4>1, <4>2
    <3>2. CASE k = 0
      <4>1. seqs[1] \in Seq(C) /\ out[k + 1] = seqs[1] /\ out[k] = <<>>
        BY <1>3, <3>1, <3>2
      <4>2. <<>> \o seqs[1] = seqs[1]
        BY <4>1
      <4> HIDE DEF out
      <4> QED
        BY <3>2, <4>1, <4>2
    <3>3. CASE k # 0
      <4>1. out[k] = f[k] /\ (k + 1) - 1 = k /\ k + 1 # 1
        BY <3>0, <3>3
      <4> HIDE DEF out
      <4> QED
        BY <3>1, <4>1
    <3> QED
      BY <3>2, <3>3
  <2>11. out[0] = <<>> /\ FlattenSeq(seqs) = out[L]
    BY <1>3, <2>8
  <2> HIDE DEF out
  <2> QED
    BY <2>9, <2>10, <2>11
<1> QED
  BY <1>2, <1>3

(* Replaced puts the pieces of a text together. *)
LEMMA PieceIs ==
  ASSUME NEW L \in Nat, NEW t \in [1 .. L -> Chars], NEW i \in 1 .. L
  PROVE  /\ Len(t) = L
         /\ Piece(t, i) \in Seq(Chars)
         /\ Replaced(t, alpha, "@") = FlattenSeq([j \in 1 .. L |-> Piece(t, j)])
<1>1. Len(t) = L /\ t \in Seq(Chars) /\ DOMAIN t = 1 .. L
  OBVIOUS
<1>2. Piece(t, i) \in Seq(Chars)
  BY CharAssumption DEF Piece
<1> DEFINE data == Append(t, "NUL")
<1>3. data \in [1 .. L + 1 -> Chars] /\ \A j \in 1 .. L : data[j] = t[j]
  <2>1. "NUL" \in Chars
    BY CharAssumption
  <2>2. data \in Seq(Chars) /\ Len(data) = L + 1
    BY <1>1, <2>1
  <2>3. \A j \in 1 .. L : data[j] = t[j]
    BY <1>1
  <2> HIDE DEF data
  <2> QED
    BY <2>2, <2>3
<1> HIDE DEF data
<1>4. Occurrences(data, 1, alpha) = Starts(t)
  <2>1. Occurrences(data, 1, alpha) = {j \in 1 .. L - 2 : At(data, j)}
    BY <1>3, OccurrencesAre
  <2>2. \A j \in 1 .. L - 2 : At(data, j) <=> At(t, j)
    BY <1>3 DEF At
  <2> QED
    BY <1>1, <2>1, <2>2 DEF Starts
<1>5. Len(alpha) = 3
  BY DEF alpha
<1>6. \A j \in Starts(t) : j + Len(alpha) - 1 = j + 2
  BY <1>5 DEF Starts
<1> QED
  BY <1>1, <1>2, <1>4, <1>6 DEF Replaced, Piece, data

(* out[k] is what is meant by the first k characters of t.                 *)
OutIs(t, out) ==
  /\ out \in [0 .. Len(t) -> Seq(Chars)]
  /\ out[0] = <<>>
  /\ \A k \in 0 .. Len(t) - 1 : out[k + 1] = out[k] \o Piece(t, k + 1)

(* Whether characters k + 1 .. m of t stand for themselves. *)
Plain(t, k, m) ==
  \A j \in k + 1 .. m : j \notin Starts(t) /\ \A i \in Starts(t) : j \notin i + 1 .. i + 2

(* One character more. *)
Grows(out, k, c) ==
  /\ Len(out[k]) \in Nat
  /\ out[k + 1] \in Seq(Chars)
  /\ Len(out[k + 1]) = Len(out[k]) + 1
  /\ out[k + 1][Len(out[k]) + 1] = c
  /\ \A j \in 1 .. Len(out[k]) : out[k + 1][j] = out[k][j]

(* What the next character of the text adds. *)
LEMMA OutNext ==
  ASSUME NEW L \in Nat, NEW t \in [1 .. L -> Chars], NEW out, OutIs(t, out),
         NEW k \in 0 .. L - 1
  PROVE  /\ Plain(t, k, k + 1) => Grows(out, k, t[k + 1])
         /\ k + 1 \in Starts(t) => Grows(out, k, "@")
         /\ k + 1 \notin Starts(t) /\ (\E i \in Starts(t) : k + 1 \in i + 1 .. i + 2) =>
              out[k + 1] = out[k]
<1>1. Len(t) = L
  OBVIOUS
<1>2. /\ out[k] \in Seq(Chars) /\ out[k + 1] \in Seq(Chars)
      /\ out[k + 1] = out[k] \o Piece(t, k + 1)
  <2>1. k \in 0 .. L /\ k + 1 \in 0 .. L
    OBVIOUS
  <2>2. /\ out \in [0 .. L -> Seq(Chars)]
        /\ \A l \in 0 .. L - 1 : out[l + 1] = out[l] \o Piece(t, l + 1)
    BY <1>1 DEF OutIs
  <2> QED
    BY <2>1, <2>2
<1> DEFINE q == out[k]
           r == out[k + 1]
<1>3. \A c \in Chars : LET w == q \o <<c>> IN
        /\ Len(w) = Len(q) + 1 /\ w[Len(q) + 1] = c
        /\ \A j \in 1 .. Len(q) : w[j] = q[j]
  BY <1>2
<1>4. q \o <<>> = q
  BY <1>2
<1>5. /\ Len(q) \in Nat /\ DOMAIN q = 1 .. Len(q)
      /\ DOMAIN r = 1 .. Len(r)
  BY <1>2
<1>6. t[k + 1] \in Chars /\ "@" \in Chars
  BY CharAssumption
<1>7. Plain(t, k, k + 1) => Piece(t, k + 1) = <<t[k + 1]>>
  <2>1. k + 1 \in k + 1 .. k + 1
    OBVIOUS
  <2> QED
    BY <2>1 DEF Plain, Piece
<1>8. k + 1 \in Starts(t) => Piece(t, k + 1) = <<"@">>
  BY DEF Piece
<1>9. k + 1 \notin Starts(t) /\ (\E i \in Starts(t) : k + 1 \in i + 1 .. i + 2)
        => Piece(t, k + 1) = <<>>
  BY DEF Piece
<1> HIDE DEF q, r
<1>10. r = q \o Piece(t, k + 1)
  BY <1>2 DEF q, r
<1>11. /\ Plain(t, k, k + 1) =>
            /\ Len(r) = Len(q) + 1 /\ r[Len(q) + 1] = t[k + 1]
            /\ \A j \in 1 .. Len(q) : r[j] = q[j]
       /\ k + 1 \in Starts(t) =>
            /\ Len(r) = Len(q) + 1 /\ r[Len(q) + 1] = "@"
            /\ \A j \in 1 .. Len(q) : r[j] = q[j]
  BY <1>3, <1>6, <1>7, <1>8, <1>10
<1> QED
  BY <1>2, <1>4, <1>5, <1>9, <1>10, <1>11 DEF q, r, Grows

(* What out holds at m: that of k, and the characters between.             *)
Extends(t, out, k, m) ==
  /\ out[m] \in Seq(Chars)
  /\ Len(out[m]) = Len(out[k]) + m - k
  /\ \A j \in 1 .. Len(out[k]) : out[m][j] = out[k][j]
  /\ \A j \in 1 .. m - k : out[m][Len(out[k]) + j] = t[k + j]

(* A run of characters that stand for themselves. *)
LEMMA PlainRun ==
  ASSUME NEW L \in Nat, NEW t \in [1 .. L -> Chars], NEW out, OutIs(t, out),
         NEW k \in 0 .. L, NEW m \in k .. L, Plain(t, k, m)
  PROVE  Extends(t, out, k, m)
<1> DEFINE Good(n) == Extends(t, out, k, n)
           T == {n \in Nat : k + n <= m => Good(k + n)}
<1>1. k \in Nat /\ out[k] \in Seq(Chars) /\ Len(out[k]) \in Nat
  <2>1. Len(t) = L
    OBVIOUS
  <2>2. out[k] \in Seq(Chars)
    BY <2>1 DEF OutIs
  <2> QED
    BY <2>2
<1>2. 0 \in T
  <2>1. Good(k)
    BY <1>1 DEF Extends
  <2>2. k + 0 = k
    BY <1>1
  <2> HIDE DEF Good
  <2> QED
    BY <2>1, <2>2
<1>3. ASSUME NEW n \in T PROVE n + 1 \in T
  <2> SUFFICES ASSUME k + (n + 1) <= m PROVE Good(k + (n + 1))
    BY <1>3
  <2> DEFINE l == k + n
  <2>1. /\ n \in Nat /\ l \in 0 .. L - 1 /\ l \in k .. m /\ l + 1 \in k .. m
        /\ k + (n + 1) = l + 1
    BY <1>1
  <2>a. Good(l)
    <3>1. k + n <= m
      BY <1>1, <2>1
    <3> HIDE DEF Good
    <3> QED
      BY <1>3, <3>1
  <2>2. Plain(t, l, l + 1)
    BY <2>1 DEF Plain
  <2>3. /\ Len(out[l + 1]) = Len(out[l]) + 1
        /\ out[l + 1] \in Seq(Chars)
        /\ out[l + 1][Len(out[l]) + 1] = t[l + 1]
        /\ \A j \in 1 .. Len(out[l]) : out[l + 1][j] = out[l][j]
        /\ Len(out[l]) \in Nat
    <3>1. l \in 0 .. L - 1
      BY <2>1
    <3> HIDE DEF l
    <3>2. Grows(out, l, t[l + 1])
      BY <2>2, <3>1, OutNext
    <3> QED
      BY <3>2 DEF Grows
  <2> HIDE DEF l
  <2> DEFINE a == Len(out[k])
             b == Len(out[l])
  <2>b. a \in Nat /\ b \in Nat /\ l \in Nat /\ k \in Nat /\ l >= k /\ b = a + l - k
    BY <1>1, <2>1, <2>3, <2>a DEF Extends
  <2>5. Len(out[l + 1]) = a + (l + 1) - k
    <3> HIDE DEF a
    <3>1. Len(out[l + 1]) = b + 1
      BY <2>3
    <3> HIDE DEF b
    <3> QED
      BY <2>b, <3>1
  <2>c. /\ \A j \in 1 .. a : out[l][j] = out[k][j]
        /\ \A j \in 1 .. l - k : out[l][a + j] = t[k + j]
        /\ \A j \in 1 .. b : out[l + 1][j] = out[l][j]
        /\ out[l + 1][b + 1] = t[l + 1]
    BY <2>3, <2>a DEF Extends
  <2> HIDE DEF a, b
  <2>6. \A j \in 1 .. a : out[l + 1][j] = out[k][j]
    <3>1. \A j \in 1 .. a : j \in 1 .. b
      BY <2>b
    <3> QED
      BY <2>c, <3>1
  <2>7. ASSUME NEW j \in 1 .. (l + 1) - k
        PROVE  out[l + 1][a + j] = t[k + j]
    <3>1. CASE j = (l + 1) - k
      <4>1. a + j = b + 1 /\ k + j = l + 1
        BY <2>b, <3>1
      <4> QED
        BY <2>c, <4>1
    <3>2. CASE j # (l + 1) - k
      <4>1. j \in 1 .. l - k /\ a + j \in 1 .. b
        BY <2>b, <3>2
      <4> QED
        BY <2>c, <4>1
    <3> QED
      BY <3>1, <3>2
  <2>8. Good(l + 1)
    BY <2>3, <2>5, <2>6, <2>7 DEF a, Extends
  <2> HIDE DEF Good
  <2> QED
    BY <2>1, <2>8
<1>4. T = Nat
  <2> HIDE DEF Good
  <2>1. T \in SUBSET Nat
    OBVIOUS
  <2> HIDE DEF T
  <2> QED
    BY <1>2, <1>3, <2>1, InductionNat
<1>5. Good(m)
  <2>1. m - k \in T /\ k + (m - k) = m
    <3> HIDE DEF T
    <3> QED
      BY <1>1, <1>4
  <2> HIDE DEF Good
  <2> QED
    BY <1>1, <2>1
<1> QED
  BY <1>5
-----------------------------------------------------------------------------
(* The loop yields it *)

(* The characters of t that have been read when the memory is s.           *)
Done(s) == s.p - 1 + 2 * s.n

(* What stands before p has been written, what stands behind it is still   *)
(* to be read, and behind the end of that the last two characters repeat,  *)
(* so that no [a] stands there.                                            *)
RoundInv(t, out, s) ==
  LET L == Len(t) IN
  /\ s \in Memory(L)
  /\ Done(s) <= L
  /\ Len(out[Done(s)]) = s.p - 1
  /\ \A j \in 1 .. s.p - 1 : s.data[j] = out[Done(s)][j]
  /\ \A j \in s.p .. L - 2 * s.n : s.data[j] = t[j + 2 * s.n]
  /\ \A j \in s.p .. L - 2 : j >= L - 2 * s.n - 1 => s.data[j] = s.data[j + 2]
  /\ \A j \in Starts(t) : j <= Done(s) => j + 2 <= Done(s)

(* An [a] in what is still to be read is one in t, and the other way round.*)
LEMMA AtMeans ==
  ASSUME NEW L \in Nat, NEW t \in [1 .. L -> Chars], NEW out, NEW s, RoundInv(t, out, s)
  PROVE  /\ \A i \in s.p .. L - 2 : At(s.data, i) => i <= L - 2 * s.n - 2
         /\ \A i \in s.p .. L - 2 * s.n - 2 : At(s.data, i) <=> i + 2 * s.n \in Starts(t)
<1> DEFINE p == s.p
           n == s.n
           d == s.data
<1>1. Len(t) = L /\ p \in Nat \ {0} /\ n \in Nat
  <2>1. Len(t) = L
    OBVIOUS
  <2> QED
    BY <2>1 DEF RoundInv, Memory
<1>2. /\ \A j \in p .. L - 2 * n : d[j] = t[j + 2 * n]
      /\ \A j \in p .. L - 2 : j >= L - 2 * n - 1 => d[j] = d[j + 2]
  BY <1>1 DEF RoundInv
<1> HIDE DEF p, n, d
<1>3. ASSUME NEW i \in p .. L - 2, At(d, i) PROVE i <= L - 2 * n - 2
  <2>1. d[i] # d[i + 2]
    BY <1>3 DEF At
  <2> QED
    BY <1>1, <1>2, <2>1
<1>4. ASSUME NEW i \in p .. L - 2 * n - 2
      PROVE  At(d, i) <=> i + 2 * n \in Starts(t)
  <2> DEFINE k == i + 2 * n
  <2>1. /\ i \in p .. L - 2 * n /\ i + 1 \in p .. L - 2 * n /\ i + 2 \in p .. L - 2 * n
        /\ (i + 1) + 2 * n = k + 1 /\ (i + 2) + 2 * n = k + 2
        /\ k \in 1 .. L - 2
    BY <1>1
  <2> HIDE DEF k
  <2>2. d[i] = t[k] /\ d[i + 1] = t[k + 1] /\ d[i + 2] = t[k + 2]
    BY <1>2, <2>1 DEF k
  <2> QED
    BY <1>1, <2>1, <2>2 DEF At, Starts, k
<1> QED
  BY <1>3, <1>4 DEF p, n, d

(* No character stands in two [a].                                         *)
LEMMA StartsApart ==
  ASSUME NEW L \in Nat, NEW t \in [1 .. L -> Chars], NEW j \in Starts(t)
  PROVE  j \in 1 .. L - 2 /\ j + 1 \notin Starts(t) /\ j + 2 \notin Starts(t)
<1>1. Len(t) = L
  OBVIOUS
<1>2. j \in 1 .. L - 2 /\ t[j + 1] = "a" /\ t[j + 2] = "]"
  BY <1>1 DEF Starts, At
<1> QED
  BY <1>2 DEF Starts, At

(* Without an escape before m, the text up to m is plain. *)
LEMMA PlainUpTo ==
  ASSUME NEW L \in Nat, NEW t \in [1 .. L -> Chars], NEW out, NEW s, RoundInv(t, out, s),
         NEW m \in Done(s) .. L, \A j \in Done(s) + 1 .. m : j \notin Starts(t)
  PROVE  Plain(t, Done(s), m)
<1>1. Len(t) = L
  OBVIOUS
<1>2. Done(s) \in Nat
  BY <1>1 DEF RoundInv, Memory, Done
<1> SUFFICES ASSUME NEW j \in Done(s) + 1 .. m, NEW i \in Starts(t), j \in i + 1 .. i + 2
             PROVE  FALSE
  BY DEF Plain
<1>3. i \in Nat /\ (i <= Done(s) => i + 2 <= Done(s))
  BY <1>1 DEF Starts, RoundInv
<1> QED
  BY <1>2, <1>3

(* The loop ends: the rest stands for itself.                              *)
LEMMA RoundEnds ==
  ASSUME NEW L \in Nat, NEW t \in [1 .. L -> Chars], NEW out, OutIs(t, out),
         NEW s, RoundInv(t, out, s), Occurrences(s.data, s.p, alpha) = {}
  PROVE  L - 2 * s.n \in Nat /\ SubSeq(s.data, 1, L - 2 * s.n) = out[L]
<1> DEFINE p == s.p
           n == s.n
           d == s.data
           k == Done(s)
<1>1. /\ Len(t) = L /\ p \in 1 .. L + 1 /\ n \in Nat /\ d \in [1 .. L + 1 -> Chars]
      /\ k = p - 1 + 2 * n /\ k <= L /\ Len(out[k]) = p - 1
      /\ \A j \in 1 .. p - 1 : d[j] = out[k][j]
      /\ \A j \in p .. L - 2 * n : d[j] = t[j + 2 * n]
  <2>1. Len(t) = L
    OBVIOUS
  <2> QED
    BY <2>1 DEF RoundInv, Memory, Done
<1>2. \A i \in p .. L - 2 : ~At(d, i)
  <2>1. p \in Nat \ {0}
    BY <1>1
  <2>2. Occurrences(d, p, alpha) = {i \in p .. L - 2 : At(d, i)}
    BY <1>1, <2>1, OccurrencesAre
  <2> QED
    BY <2>2
<1>3. \A j \in k + 1 .. L : j \notin Starts(t)
  <2> SUFFICES ASSUME NEW j \in k + 1 .. L, j \in Starts(t) PROVE FALSE
    OBVIOUS
  <2>1. j \in 1 .. L - 2
    BY StartsApart
  <2> DEFINE i == j - 2 * n
  <2>2. i \in p .. L - 2 * n - 2 /\ i \in p .. L - 2 /\ i + 2 * n = j
    <3> HIDE DEF p, n, k
    <3>1. p \in Nat /\ n \in Nat /\ k = p - 1 + 2 * n /\ j >= k + 1 /\ j <= L - 2 /\ j \in Nat
      BY <1>1, <2>1
    <3> QED
      BY <3>1
  <2> HIDE DEF i
  <2>3. At(d, i)
    BY <2>2, AtMeans
  <2> QED
    BY <1>2, <2>2, <2>3
<1>4. k \in 0 .. L /\ L \in k .. L
  BY <1>1
<1>5. Plain(t, k, L)
  BY <1>3, <1>4, PlainUpTo
<1>6. Extends(t, out, k, L)
  <2> HIDE DEF k
  <2> QED
    BY <1>4, <1>5, PlainRun
<1> HIDE DEF p, n, d, k
<1> DEFINE e == L - 2 * n
           q == out[L]
<1>7. e \in Nat /\ e <= L /\ Len(q) = e
  BY <1>1, <1>6 DEF Extends
<1>8. ASSUME NEW j \in 1 .. e PROVE d[j] = q[j]
  <2>1. CASE j < p
    BY <1>1, <1>6, <2>1 DEF Extends
  <2>2. CASE j >= p
    <3>1. /\ j - (p - 1) \in 1 .. L - k /\ k + (j - (p - 1)) = j + 2 * n
          /\ Len(out[k]) + (j - (p - 1)) = j
      BY <1>1, <2>2
    <3>2. d[j] = t[j + 2 * n]
      BY <1>1, <2>2
    <3> QED
      BY <1>6, <3>1, <3>2 DEF Extends
  <2> QED
    BY <1>1, <2>1, <2>2
<1> HIDE DEF q, e
<1>9. q = [j \in 1 .. e |-> q[j]]
  BY <1>6, <1>7 DEF q, Extends
<1>10. SubSeq(d, 1, e) = [j \in 1 .. e |-> d[j]]
  <2>1. d \in Seq(Chars) /\ Len(d) = L + 1
    BY <1>1
  <2> QED
    BY <1>7, <2>1
<1> QED
  BY <1>7, <1>8, <1>9, <1>10 DEF p, n, d, e, q

(* A round: the first [a] becomes @ and what follows moves up.             *)
LEMMA RoundKeeps ==
  ASSUME NEW L \in Nat, NEW t \in [1 .. L -> Chars], NEW out, OutIs(t, out),
         NEW s, RoundInv(t, out, s), Occurrences(s.data, s.p, alpha) # {},
         NEW i, i = Min(Occurrences(s.data, s.p, alpha))
  PROVE  RoundInv(t, out, After(L, s, i)) /\ i >= s.p
<1> DEFINE p == s.p
           n == s.n
           d == s.data
           k == Done(s)
           r == After(L, s, i)
           b == i + 2 * n
<1>1. /\ Len(t) = L /\ s \in Memory(L)
      /\ p \in 1 .. L + 1 /\ n \in Nat /\ d \in [1 .. L + 1 -> Chars]
      /\ k = p - 1 + 2 * n /\ k <= L /\ Len(out[k]) = p - 1
      /\ \A j \in 1 .. p - 1 : d[j] = out[k][j]
      /\ \A j \in p .. L - 2 * n : d[j] = t[j + 2 * n]
      /\ \A j \in p .. L - 2 : j >= L - 2 * n - 1 => d[j] = d[j + 2]
      /\ \A j \in Starts(t) : j <= k => j + 2 <= k
  <2>1. Len(t) = L
    OBVIOUS
  <2> QED
    BY <2>1 DEF RoundInv, Memory, Done
<1>2. i \in p .. L - 2 /\ At(d, i) /\ \A j \in p .. L - 2 : At(d, j) => i <= j
  <2>1. s \in Memory(L)
    BY <1>1
  <2> QED
    BY <2>1, FirstIs
<1>3. i <= L - 2 * n - 2
  BY <1>2, AtMeans
<1> HIDE DEF p, n, d, k, r
<1>a. /\ p \in Nat /\ n \in Nat /\ k \in Nat /\ i \in Nat /\ L \in Nat
      /\ k = p - 1 + 2 * n /\ p >= 1 /\ i >= p /\ i <= L - 2 * n - 2 /\ i <= L - 2
      /\ p <= L + 1 /\ k <= L
  BY <1>1, <1>2, <1>3
<1>4. b \in Nat /\ b >= k + 1 /\ b <= L - 2 /\ b = i + 2 * n
  BY <1>a
<1>5. b \in Starts(t)
  <2>1. i \in p .. L - 2 * n - 2
    BY <1>a
  <2> QED
    BY <1>2, <2>1, AtMeans DEF p, n, d
<1> HIDE DEF b
<1>6. \A j \in k + 1 .. b - 1 : j \notin Starts(t)
  <2> SUFFICES ASSUME NEW j \in k + 1 .. b - 1, j \in Starts(t) PROVE FALSE
    OBVIOUS
  <2> DEFINE h == j - 2 * n
  <2>1. h \in p .. L - 2 * n - 2 /\ h \in p .. L - 2 /\ h + 2 * n = j /\ h < i
    BY <1>a, <1>4
  <2> HIDE DEF h
  <2>2. At(d, h)
    BY <2>1, AtMeans DEF p, n, d
  <2> QED
    BY <1>2, <1>a, <2>1, <2>2
<1>7. Extends(t, out, k, b - 1)
  <2>1. k \in 0 .. L /\ b - 1 \in k .. L
    BY <1>a, <1>4
  <2>2. Plain(t, k, b - 1)
    BY <1>6, <2>1, PlainUpTo DEF k
  <2> QED
    BY <2>1, <2>2, PlainRun
<1>8. b + 1 \notin Starts(t) /\ b + 2 \notin Starts(t)
  BY <1>5, StartsApart
<1>9. /\ Len(out[b]) = i
      /\ out[b][i] = "@"
      /\ \A j \in 1 .. i - 1 : out[b][j] = out[b - 1][j]
      /\ out[b] \in Seq(Chars)
      /\ Len(out[b - 1]) = i - 1
  <2> DEFINE c == b - 1
  <2>1. c \in 0 .. L - 1 /\ c + 1 = b
    BY <1>a, <1>4
  <2>2. /\ Len(out[c]) \in Nat
        /\ Len(out[b]) = Len(out[c]) + 1
        /\ out[b][Len(out[c]) + 1] = "@"
        /\ \A j \in 1 .. Len(out[c]) : out[b][j] = out[c][j]
        /\ out[b] \in Seq(Chars)
    <3> HIDE DEF c
    <3>1. c + 1 \in Starts(t)
      BY <1>5, <2>1
    <3>2. Grows(out, c, "@")
      BY <2>1, <3>1, OutNext
    <3> QED
      BY <2>1, <3>2 DEF Grows
  <2>3. Len(out[c]) = p - 1 + c - k
    BY <1>1, <1>7 DEF Extends
  <2>4. Len(out[c]) = i - 1 /\ Len(out[c]) + 1 = i
    <3>1. p - 1 + (b - 1) - k = i - 1 /\ (i - 1) + 1 = i
      BY <1>a, <1>4
    <3> QED
      BY <2>3, <3>1
  <2> HIDE DEF c
  <2>5. Len(out[b]) = i /\ out[b][i] = "@" /\ \A j \in 1 .. i - 1 : out[b][j] = out[c][j]
    BY <2>2, <2>4
  <2> QED
    BY <2>2, <2>4, <2>5 DEF c
<1>10. out[b + 2] = out[b]
  <2> DEFINE e == b + 1
  <2>1. /\ b \in 0 .. L - 1 /\ e \in 0 .. L - 1 /\ e + 1 = b + 2 /\ e = b + 1
        /\ b + 1 \in b + 1 .. b + 2 /\ b + 2 \in b + 1 .. b + 2
    BY <1>a, <1>4
  <2>2. out[b + 1] = out[b]
    BY <1>5, <1>8, <2>1, OutNext
  <2> HIDE DEF e
  <2>3. e + 1 \notin Starts(t) /\ e + 1 \in b + 1 .. b + 2
    BY <1>8, <2>1
  <2>4. out[e + 1] = out[e]
    BY <1>5, <2>1, <2>3, OutNext
  <2> QED
    BY <2>1, <2>2, <2>4
<1>11. /\ r.p = i + 1 /\ r.n = n + 1 /\ r \in Memory(L)
       /\ \A j \in 1 .. L + 1 : r.data[j] =
            IF j = i THEN "@" ELSE IF j \in i + 1 .. L - 2 * n - 2 THEN d[j + 2] ELSE d[j]
  <2>1. i \in 0 .. L - 2
    BY <1>a
  <2>2. r \in Memory(L)
    BY <1>1, <2>1, AfterIs DEF r
  <2> QED
    BY <2>2 DEF After, n, d, r
<1>12. Done(r) = b + 2
  <2>1. Done(r) = r.p - 1 + 2 * r.n
    BY DEF Done
  <2>2. \A x, y \in Nat : (x + 1) - 1 + 2 * (y + 1) = x + 2 * y + 2
    OBVIOUS
  <2> QED
    BY <1>a, <1>4, <1>11, <2>1, <2>2
<1> DEFINE e == r.data
<1>b. \A j \in 1 .. L + 1 : e[j] =
        IF j = i THEN "@" ELSE IF j \in i + 1 .. L - 2 * n - 2 THEN d[j + 2] ELSE d[j]
  BY <1>11
<1> HIDE DEF e
<1>c. /\ Len(out[k]) = p - 1
      /\ \A j \in 1 .. p - 1 : out[b - 1][j] = out[k][j]
      /\ \A j \in 1 .. (b - 1) - k : out[b - 1][(p - 1) + j] = t[k + j]
  BY <1>1, <1>7 DEF Extends
<1>13. ASSUME NEW j \in 1 .. i PROVE e[j] = out[b + 2][j]
  <2>1. j \in 1 .. L + 1 /\ j \in Nat /\ (j = i \/ j < i)
    BY <1>a
  <2>2. CASE j = i
    BY <1>9, <1>10, <1>b, <2>1, <2>2
  <2>3. CASE j < i
    <3>1. e[j] = d[j]
      BY <1>a, <1>b, <2>1, <2>3
    <3>2. out[b + 2][j] = out[b - 1][j]
      <4>1. j \in 1 .. i - 1
        BY <1>a, <2>1, <2>3
      <4> QED
        BY <1>9, <1>10, <4>1
    <3>3. CASE j < p
      <4>1. j \in 1 .. p - 1
        BY <1>a, <2>1, <3>3
      <4>2. d[j] = out[k][j]
        BY <1>1, <4>1
      <4> QED
        BY <1>c, <3>1, <3>2, <4>1, <4>2
    <3>4. CASE j >= p
      <4> DEFINE h == j - (p - 1)
      <4>1. /\ j \in p .. L - 2 * n
            /\ h \in 1 .. (b - 1) - k /\ (p - 1) + h = j /\ k + h = j + 2 * n
        BY <1>a, <1>4, <2>1, <2>3, <3>4
      <4>2. d[j] = t[j + 2 * n]
        BY <1>1, <4>1
      <4>3. out[b - 1][(p - 1) + h] = t[k + h]
        <5> HIDE DEF h
        <5> QED
          BY <1>c, <4>1
      <4> QED
        BY <3>1, <3>2, <4>1, <4>2, <4>3
    <3> QED
      BY <1>a, <2>1, <3>3, <3>4
  <2> QED
    BY <2>1, <2>2, <2>3
<1>14. ASSUME NEW j \in i + 1 .. L - 2 * (n + 1)
       PROVE  e[j] = t[j + 2 * (n + 1)]
  <2>1. j \in 1 .. L + 1 /\ j # i /\ j \in i + 1 .. L - 2 * n - 2
        /\ j + 2 \in p .. L - 2 * n /\ (j + 2) + 2 * n = j + 2 * (n + 1)
    BY <1>a
  <2>2. e[j] = d[j + 2]
    BY <1>b, <2>1
  <2>3. d[j + 2] = t[(j + 2) + 2 * n]
    BY <1>1, <2>1
  <2> QED
    BY <2>1, <2>2, <2>3
<1>15. ASSUME NEW j \in i + 1 .. L - 2, j >= L - 2 * (n + 1) - 1
       PROVE  e[j] = e[j + 2]
  <2>1. j \in 1 .. L + 1 /\ j # i /\ j + 2 \in 1 .. L + 1 /\ j + 2 # i /\ j >= p
        /\ j \in Nat /\ j >= L - 2 * n - 3 /\ j > i
    <3>1. L - 2 * (n + 1) - 1 = L - 2 * n - 3
      BY <1>a
    <3> QED
      BY <1>a, <1>15, <3>1
  <2>2. e[j + 2] = d[j + 2]
    <3>1. j + 2 \notin i + 1 .. L - 2 * n - 2
      BY <1>a, <2>1
    <3> QED
      BY <1>b, <2>1, <3>1
  <2>3. CASE j <= L - 2 * n - 2
    <3>1. j \in i + 1 .. L - 2 * n - 2
      BY <1>a, <2>1, <2>3
    <3> QED
      BY <1>b, <2>1, <2>2, <3>1
  <2>4. CASE j > L - 2 * n - 2
    <3>1. j \notin i + 1 .. L - 2 * n - 2
      BY <1>a, <2>1, <2>4
    <3>2. e[j] = d[j]
      BY <1>b, <2>1, <3>1
    <3>3. j \in p .. L - 2 /\ j >= L - 2 * n - 1
      BY <1>a, <2>1, <2>4
    <3> QED
      BY <1>1, <2>2, <3>2, <3>3
  <2> QED
    BY <1>a, <2>1, <2>3, <2>4
<1>16. ASSUME NEW j \in Starts(t), j <= b + 2 PROVE j + 2 <= b + 2
  <2>1. j \in Nat /\ j # b + 1 /\ j # b + 2
    <3>1. j \in 1 .. L - 2
      BY StartsApart
    <3> QED
      BY <1>8, <3>1
  <2>2. j <= b
    BY <1>4, <1>16, <2>1
  <2> QED
    BY <1>4, <2>1, <2>2
<1>17. RoundInv(t, out, r)
  <2>1. b + 2 <= L /\ (i + 1) - 1 = i
    BY <1>4, <1>a
  <2>2. Len(out[b + 2]) = (i + 1) - 1
    BY <1>9, <1>10, <2>1
  <2> QED
    BY <1>1, <1>11, <1>12, <1>13, <1>14, <1>15, <1>16, <2>1, <2>2 DEF RoundInv, e
<1> QED
  BY <1>a, <1>17 DEF r, p

(* The loop leaves what is meant by the text. *)
LEMMA LoopMeans ==
  ASSUME NEW L \in Nat, NEW t \in [1 .. L -> Chars], NEW out, OutIs(t, out),
         NEW buf, buf.len = L, DOMAIN buf.data = 1 .. L + 1
  PROVE  \A s \in Memory(L) : RoundInv(t, out, s) =>
           LET end == Loop(buf, alpha, "@")[s]
           IN  /\ L - 2 * end.n \in Nat /\ end.n \in Nat
               /\ SubSeq(end.data, 1, L - 2 * end.n) = out[L]
<1>0. Unfolds(L, buf)
  BY LoopStep
<1> DEFINE f == Loop(buf, alpha, "@")
           D == Memory(L)
           m == [s \in D |-> L + 1 - s.p]
           Good(s) == /\ L - 2 * f[s].n \in Nat /\ f[s].n \in Nat
                      /\ SubSeq(f[s].data, 1, L - 2 * f[s].n) = out[L]
           T == {s \in D : RoundInv(t, out, s) => Good(s)}
<1>1. m \in [D -> Nat]
  BY DEF Memory
<1>2. \A s \in D :
        f[s] = IF Occurrences(s.data, s.p, alpha) = {} THEN s
               ELSE f[After(L, s, Min(Occurrences(s.data, s.p, alpha)))]
  BY <1>0 DEF Unfolds
<1> HIDE DEF f
<1>3. ASSUME NEW s \in D, \A y \in D : m[y] < m[s] => y \in T PROVE s \in T
  <2> SUFFICES ASSUME RoundInv(t, out, s) PROVE Good(s)
    OBVIOUS
  <2>0. s.n \in Nat /\ s.p \in 1 .. L + 1
    BY DEF Memory
  <2>1. CASE Occurrences(s.data, s.p, alpha) = {}
    <3>1. f[s] = s
      BY <1>2, <2>1
    <3>2. L - 2 * s.n \in Nat /\ SubSeq(s.data, 1, L - 2 * s.n) = out[L]
      BY <2>1, RoundEnds
    <3> QED
      BY <2>0, <3>1, <3>2
  <2>2. CASE Occurrences(s.data, s.p, alpha) # {}
    <3> DEFINE i == Min(Occurrences(s.data, s.p, alpha))
               r == After(L, s, i)
    <3>1. RoundInv(t, out, r) /\ i >= s.p
      BY <2>2, RoundKeeps
    <3>2. i \in Nat
      BY <2>2, FirstIs
    <3>3. r \in D
      <4>1. Len(t) = L
        OBVIOUS
      <4> HIDE DEF r
      <4> QED
        BY <3>1, <4>1 DEF RoundInv
    <3>4. m[r] < m[s]
      <4>1. r.p = i + 1
        BY DEF After
      <4> HIDE DEF r, i
      <4>2. r.p \in 1 .. L + 1
        BY <3>3 DEF Memory
      <4> QED
        BY <2>0, <3>1, <3>2, <3>3, <4>1, <4>2
    <3>5. f[s] = f[r]
      BY <1>2, <2>2
    <3> HIDE DEF r, m
    <3>6. Good(r)
      BY <1>3, <3>1, <3>3, <3>4
    <3> QED
      BY <3>5, <3>6
  <2> QED
    BY <2>1, <2>2
<1>4. \A s \in D : s \in T
  <2> HIDE DEF D, m, T
  <2> QED
    BY <1>1, <1>3, InductionMeasure
<1> QED
  BY <1>4 DEF f

(* The argument of a control command and the zone of a limit are read as   *)
(* they are meant, however many escapes they hold and whatever is next to  *)
(* them (replace_chrc, replace_strc).                                      *)
THEOREM ZoneRead ==
  ASSUME NEW text \in Seq(Chars)
  PROVE  control_zone(text) = Meant(text)
<1> DEFINE L == Len(text)
           t == [i \in DOMAIN text |-> IF text[i] = "@" THEN "US" ELSE text[i]]
           buf == replace_chrc(copy_str(text), "@", "US")
<1>1. L \in Nat /\ DOMAIN text = 1 .. L /\ text \in [1 .. L -> Chars]
  OBVIOUS
<1>2. t \in [1 .. L -> Chars] /\ Len(t) = L
  <2>1. "US" \in Chars
    BY CharAssumption
  <2>2. t \in [1 .. L -> Chars]
    BY <1>1, <2>1
  <2> HIDE DEF t
  <2> QED
    BY <1>1, <2>2
<1>3. /\ buf.len = L /\ DOMAIN buf.data = 1 .. L + 1
      /\ buf.data \in [1 .. L + 1 -> Chars]
      /\ buf.data[L + 1] = "NUL"
      /\ \A j \in 1 .. L : buf.data[j] = t[j]
  <2> DEFINE a == Append(text, "NUL")
  <2>1. "US" \in Chars /\ "NUL" \in Chars
    BY CharAssumption
  <2>2. a \in [1 .. L + 1 -> Chars] /\ DOMAIN a = 1 .. L + 1
        /\ a[L + 1] = "NUL" /\ \A j \in 1 .. L : a[j] = text[j]
    <3>1. a \in Seq(Chars) /\ Len(a) = L + 1
      BY <2>1
    <3>2. a[L + 1] = "NUL" /\ \A j \in 1 .. L : a[j] = text[j]
      OBVIOUS
    <3> HIDE DEF a
    <3> QED
      BY <3>1, <3>2
  <2>3. buf = [data |-> [i \in DOMAIN a |->
                 IF i <= L /\ a[i] = "@" THEN "US" ELSE a[i]], len |-> L]
    <3>1. copy_str(text) = [data |-> a, len |-> L]
      BY DEF copy_str
    <3> HIDE DEF a, L
    <3> QED
      BY <3>1 DEF replace_chrc
  <2> HIDE DEF a, L, buf
  <2>4. buf.len = L /\ buf.data = [i \in 1 .. L + 1 |->
                 IF i <= L /\ a[i] = "@" THEN "US" ELSE a[i]]
    BY <2>2, <2>3
  <2>5. DOMAIN buf.data = 1 .. L + 1 /\ buf.data \in [1 .. L + 1 -> Chars]
    BY <2>1, <2>2, <2>4
  <2>6. buf.data[L + 1] = "NUL"
    BY <1>1, <2>2, <2>4
  <2>7. \A j \in 1 .. L : buf.data[j] = t[j]
    BY <1>1, <2>2, <2>4
  <2> QED
    BY <2>4, <2>5, <2>6, <2>7
<1> DEFINE s == [data |-> buf.data, p |-> 1, n |-> 0]
           end == Loop(buf, alpha, "@")[s]
           seqs == [j \in 1 .. L |-> Piece(t, j)]
<1> HIDE DEF L, t, buf
<1>4. control_zone(text) = SubSeq(end.data, 1, L - end.n * 3 + end.n)
  <2>1. Len(alpha) = 3
    BY DEF alpha
  <2>2. replace_strc(buf, alpha, "@")
          = [data |-> end.data, len |-> L - end.n * 3 + end.n]
    BY <1>3, <2>1, LoopIs
  <2>3. control_zone(text) = TextOf(replace_strc(buf, alpha, "@"))
    BY DEF control_zone, buf
  <2> DEFINE w == replace_strc(buf, alpha, "@")
  <2> HIDE DEF end
  <2>4. w.data = end.data /\ w.len = L - end.n * 3 + end.n
    BY <2>2
  <2>5. control_zone(text) = SubSeq(w.data, 1, w.len)
    BY <2>3 DEF TextOf
  <2> HIDE DEF w
  <2> QED
    BY <2>4, <2>5
<1>5. Meant(text) = FlattenSeq(seqs) /\ seqs \in [1 .. L -> Seq(Chars)]
  <2>1. Meant(text) = Replaced(t, alpha, "@")
    BY DEF Meant, t
  <2>2. CASE L = 0
    <3>1. t = <<>>
      BY <1>2, <2>2
    <3>2. seqs = <<>>
      BY <2>2
    <3>3. FlattenSeq(<<>>) = <<>>
      BY DEF FlattenSeq
    <3>4. Replaced(<<>>, alpha, "@") = <<>>
      BY <3>3 DEF Replaced
    <3> QED
      BY <2>1, <2>2, <3>1, <3>2, <3>3, <3>4
  <2>3. CASE L # 0
    BY <1>1, <1>2, <2>1, <2>3, PieceIs
  <2> QED
    BY <2>2, <2>3
<1>6. PICK out \in [0 .. L -> Seq(Chars)] :
        /\ out[0] = <<>>
        /\ \A k \in 0 .. L - 1 : out[k + 1] = out[k] \o seqs[k + 1]
        /\ FlattenSeq(seqs) = out[L]
  <2> HIDE DEF seqs
  <2> QED
    BY <1>1, <1>5, FlattenIs
<1>7. OutIs(t, out)
  <2>1. \A k \in 0 .. L - 1 : k + 1 \in 1 .. L
    BY <1>1
  <2> QED
    BY <1>2, <1>6, <2>1 DEF OutIs
<1>8. s \in Memory(L) /\ RoundInv(t, out, s)
  <2>1. s.data = buf.data /\ s.p = 1 /\ s.n = 0 /\ Done(s) = 0
    BY DEF Done
  <2>2. s \in Memory(L)
    BY <1>1, <1>3 DEF Memory
  <2>3. \A j \in Starts(t) : ~(j <= 0)
    <3> SUFFICES ASSUME NEW j \in Starts(t) PROVE ~(j <= 0)
      OBVIOUS
    <3>1. j \in 1 .. L - 2
      BY <1>1, <1>2, StartsApart
    <3> QED
      BY <1>1, <3>1
  <2>4. \A j \in 1 .. L : j + 2 * 0 = j
    BY <1>1
  <2> HIDE DEF s
  <2>5. /\ Done(s) <= L /\ Len(out[Done(s)]) = s.p - 1
        /\ \A j \in 1 .. s.p - 1 : s.data[j] = out[Done(s)][j]
    BY <1>1, <1>6, <2>1
  <2>6. \A j \in s.p .. L - 2 * s.n : s.data[j] = t[j + 2 * s.n]
    BY <1>1, <1>3, <2>1, <2>4
  <2>7. \A j \in s.p .. L - 2 : j >= L - 2 * s.n - 1 => s.data[j] = s.data[j + 2]
    BY <1>1, <2>1
  <2>8. \A j \in Starts(t) : j <= Done(s) => j + 2 <= Done(s)
    BY <2>1, <2>3
  <2> QED
    BY <1>2, <2>2, <2>5, <2>6, <2>7, <2>8 DEF RoundInv
<1>9. L - 2 * end.n \in Nat /\ end.n \in Nat /\ SubSeq(end.data, 1, L - 2 * end.n) = out[L]
  <2> HIDE DEF s
  <2> QED
    BY <1>1, <1>2, <1>3, <1>7, <1>8, LoopMeans
<1>10. L - end.n * 3 + end.n = L - 2 * end.n
  <2>1. \A x, y \in Nat : x - y * 3 + y = x - 2 * y
    OBVIOUS
  <2> HIDE DEF end
  <2> QED
    BY <1>1, <1>9, <2>1
<1> HIDE DEF end, seqs
<1> QED
  BY <1>4, <1>5, <1>6, <1>9, <1>10
-----------------------------------------------------------------------------
(* Unquoted: what is read, character by character *)

(* The quote, by a name: the prover cannot spell it. *)
Quote == "\""

(* It is no other character that the proofs compare it with. *)
LEMMA QuoteIs == Quote # "\\" /\ Quote # "nl" /\ Quote # "u" /\ Quote # "n"
BY Zenon DEF Quote

(* A character before a text. *)
Cat(x, s) == <<x>> \o s

(* What Unquoted reads at i of a text, if it reads r behind it. *)
ReadAt(text, r, i) ==
  CASE i > Len(text) -> <<>>
    [] i <= Len(text) /\ text[i] \in {Quote, "nl"} -> <<"end">>
    [] i < Len(text) /\ text[i] = "\\" /\ text[i + 1] = "u" -> Cat("nl", r[i + 6])
    [] i < Len(text) /\ text[i] = "\\" /\ text[i + 1] = "n" -> Cat("nl", r[i + 2])
    [] i < Len(text) /\ text[i] = "\\" /\ text[i + 1] \notin {"u", "n"} ->
         Cat(text[i + 1], r[i + 2])
    [] OTHER -> Cat(text[i], r[i + 1])

(* Whether a backslash at i begins an escape. *)
Esc(text, i) == i < Len(text) /\ text[i] = "\\"

(* The cases of ReadAt. *)
LEMMA ReadAtIs ==
  ASSUME NEW text, NEW r, NEW i \in Nat, Len(text) \in Nat
  PROVE  /\ i > Len(text) => ReadAt(text, r, i) = <<>>
         /\ i <= Len(text) /\ text[i] \in {Quote, "nl"} => ReadAt(text, r, i) = <<"end">>
         /\ Esc(text, i) /\ text[i + 1] = "u" => ReadAt(text, r, i) = Cat("nl", r[i + 6])
         /\ Esc(text, i) /\ text[i + 1] = "n" => ReadAt(text, r, i) = Cat("nl", r[i + 2])
         /\ Esc(text, i) /\ text[i + 1] \notin {"u", "n"} =>
              ReadAt(text, r, i) = Cat(text[i + 1], r[i + 2])
         /\ i <= Len(text) /\ ~Esc(text, i) /\ text[i] \notin {Quote, "nl"} =>
              ReadAt(text, r, i) = Cat(text[i], r[i + 1])
<1> DEFINE L == Len(text)
<1>0. (i > L <=> ~(i <= L)) /\ (i < L => i <= L)
  OBVIOUS
<1> HIDE DEF L
<1>1. CASE i > L
  BY <1>0, <1>1, Zenon DEF ReadAt, Esc, L
<1>2. CASE i <= L /\ text[i] \in {Quote, "nl"}
  BY <1>0, <1>2, QuoteIs, Zenon DEF ReadAt, Esc, L
<1>3. CASE Esc(text, i) /\ text[i + 1] = "u"
  BY <1>0, <1>3, QuoteIs, Zenon DEF ReadAt, Esc, L
<1>4. CASE Esc(text, i) /\ text[i + 1] = "n"
  BY <1>0, <1>4, QuoteIs, Zenon DEF ReadAt, Esc, L
<1>5. CASE Esc(text, i) /\ text[i + 1] \notin {"u", "n"}
  BY <1>0, <1>5, QuoteIs, Zenon DEF ReadAt, Esc, L
<1>6. CASE i <= L /\ ~Esc(text, i) /\ text[i] \notin {Quote, "nl"}
  BY <1>0, <1>6, QuoteIs, Zenon DEF ReadAt, Esc, L
<1> QED
  BY <1>0, <1>1, <1>2, <1>3, <1>4, <1>5, <1>6, Zenon DEF Esc, L

(* The function it reads with. *)
Read(text) == CHOOSE r : r = [i \in Nat |-> ReadAt(text, r, i)]

(* Unquoted by that function. *)
LEMMA UnquotedIs == \A text : Unquoted(text) = Read(text)[1]
BY DEF Unquoted, Read, ReadAt, Cat, Quote

(* What it reads are characters, if the text is of characters. *)
LEMMA ReadAtType ==
  ASSUME NEW C, "nl" \in C, "end" \in C, NEW text, Len(text) \in Nat, NEW i \in Nat, NEW r,
         i <= Len(text) => text[i] \in C, i < Len(text) => text[i + 1] \in C,
         r[i + 1] \in Seq(C), r[i + 2] \in Seq(C), r[i + 6] \in Seq(C)
  PROVE  ReadAt(text, r, i) \in Seq(C)
<1> DEFINE L == Len(text)
<1>1. L \in Nat
  OBVIOUS
<1>3. /\ r[i + 1] \in Seq(C) /\ r[i + 2] \in Seq(C) /\ r[i + 6] \in Seq(C)
  OBVIOUS
<1>4. /\ i <= L => text[i] \in C
      /\ i < L => text[i + 1] \in C
      /\ "nl" \in C /\ "end" \in C
  OBVIOUS
<1> HIDE DEF L
<1>5. ASSUME NEW x \in C, NEW s \in Seq(C) PROVE Cat(x, s) \in Seq(C)
  <2>1. <<x>> \in Seq(C)
    OBVIOUS
  <2> QED
    BY <2>1, ConcatProperties DEF Cat
<1>6. <<>> \in Seq(C) /\ <<"end">> \in Seq(C)
  BY <1>4
<1>7. Cat("nl", r[i + 6]) \in Seq(C) /\ Cat("nl", r[i + 2]) \in Seq(C)
  BY <1>3, <1>4, <1>5
<1>8. CASE i > L
  BY <1>1, <1>6, <1>8, ReadAtIs DEF L
<1>9. CASE i <= L /\ text[i] \in {Quote, "nl"}
  BY <1>1, <1>6, <1>9, ReadAtIs DEF L
<1>10. CASE Esc(text, i)
  <2>1. Cat(text[i + 1], r[i + 2]) \in Seq(C)
    BY <1>3, <1>4, <1>5, <1>10 DEF Esc, L
  <2> QED
    BY <1>1, <1>7, <1>10, <2>1, ReadAtIs DEF L
<1>11. CASE i <= L /\ ~Esc(text, i) /\ text[i] \notin {Quote, "nl"}
  <2>1. Cat(text[i], r[i + 1]) \in Seq(C)
    BY <1>3, <1>4, <1>5, <1>11
  <2> QED
    BY <1>1, <1>11, <2>1, ReadAtIs DEF L
<1> QED
  BY <1>1, <1>8, <1>9, <1>10, <1>11

(* The same is at i of text and at j of s, and is read behind them.        *)
Alike(text, q, i, s, r, j) ==
  /\ Len(text) \in Nat /\ Len(s) \in Nat /\ i \in Nat /\ j \in Nat
  /\ i <= Len(text) /\ j <= Len(s) /\ (i < Len(text) <=> j < Len(s))
  /\ text[i] = s[j] /\ (i < Len(text) => text[i + 1] = s[j + 1])
  /\ q[i + 1] = r[j + 1] /\ q[i + 2] = r[j + 2] /\ q[i + 6] = r[j + 6]

(* Then the same is read there. *)
LEMMA ReadAtSame ==
  ASSUME NEW text, NEW s, NEW i, NEW j, NEW q, NEW r, Alike(text, q, i, s, r, j)
  PROVE  ReadAt(text, q, i) = ReadAt(s, r, j)
<1>0. /\ Len(text) \in Nat /\ Len(s) \in Nat /\ i \in Nat /\ j \in Nat
      /\ i <= Len(text) /\ j <= Len(s) /\ (i < Len(text) <=> j < Len(s))
      /\ text[i] = s[j] /\ (i < Len(text) => text[i + 1] = s[j + 1])
      /\ q[i + 1] = r[j + 1] /\ q[i + 2] = r[j + 2] /\ q[i + 6] = r[j + 6]
  BY DEF Alike
<1>1. Esc(text, i) <=> Esc(s, j)
  BY <1>0 DEF Esc
<1>2. CASE text[i] \in {Quote, "nl"}
  BY <1>0, <1>2, ReadAtIs
<1>3. CASE ~Esc(text, i) /\ text[i] \notin {Quote, "nl"}
  BY <1>0, <1>1, <1>3, ReadAtIs
<1>4. CASE Esc(text, i)
  <2>1. text[i + 1] = s[j + 1] /\ Esc(s, j)
    BY <1>0, <1>1, <1>4 DEF Esc
  <2>2. CASE text[i + 1] = "u"
    <3>1. ReadAt(text, q, i) = Cat("nl", q[i + 6])
      BY <1>0, <1>4, <2>2, ReadAtIs
    <3>2. ReadAt(s, r, j) = Cat("nl", r[j + 6])
      BY <1>0, <2>1, <2>2, ReadAtIs
    <3> QED
      BY <1>0, <3>1, <3>2
  <2>3. CASE text[i + 1] = "n"
    <3>1. ReadAt(text, q, i) = Cat("nl", q[i + 2])
      BY <1>0, <1>4, <2>3, ReadAtIs
    <3>2. ReadAt(s, r, j) = Cat("nl", r[j + 2])
      BY <1>0, <2>1, <2>3, ReadAtIs
    <3> QED
      BY <1>0, <3>1, <3>2
  <2>4. CASE text[i + 1] \notin {"u", "n"}
    BY <1>0, <1>4, <2>1, <2>4, ReadAtIs
  <2> QED
    BY <1>0, <2>2, <2>3, <2>4
<1> QED
  BY <1>2, <1>3, <1>4

(* What it can read of a text of T. *)
ReadFrom(T, text) == T \cup {"nl", "end", text[0]}

(* It reads with what it has read behind. *)
LEMMA ReadIs ==
  ASSUME NEW T, NEW text \in Seq(T)
  PROVE  /\ \A i \in Nat : Read(text)[i] = ReadAt(text, Read(text), i)
         /\ \A i \in Nat \ {0} : Read(text)[i] \in Seq(T \cup {"nl", "end"})
<1> DEFINE C == Seq(ReadFrom(T, text))
           D == Nat
           L == Len(text)
           F == [r \in [Nat -> C] |-> [i \in Nat |-> ReadAt(text, r, i)]]
           m == [i \in Nat |-> IF i > L THEN 0 ELSE L + 1 - i]
           R == Read(text)
<1>1. L \in Nat /\ m \in [Nat -> Nat]
  OBVIOUS
<1>2. F \in [[Nat -> C] -> [Nat -> C]]
  <2>1. ASSUME NEW r \in [Nat -> C], NEW i \in Nat PROVE ReadAt(text, r, i) \in C
    <3> DEFINE V == ReadFrom(T, text)
    <3>1. /\ "nl" \in V /\ "end" \in V /\ (i <= L => text[i] \in V) /\ (i < L => text[i + 1] \in V)
      <4>1. text[0] \in V /\ T \subseteq V /\ "nl" \in V /\ "end" \in V
        BY DEF ReadFrom
      <4>2. (i <= L => i = 0 \/ text[i] \in T) /\ (i < L => text[i + 1] \in T)
        BY <1>1
      <4> HIDE DEF V, L
      <4> QED
        BY <4>1, <4>2
    <3>2. r[i + 1] \in Seq(V) /\ r[i + 2] \in Seq(V) /\ r[i + 6] \in Seq(V)
      <4> HIDE DEF V
      <4>1. i + 1 \in Nat /\ i + 2 \in Nat /\ i + 6 \in Nat
        OBVIOUS
      <4> QED
        BY <4>1 DEF V
    <3> HIDE DEF V
    <3>3. ReadAt(text, r, i) \in Seq(V)
      BY <1>1, <3>1, <3>2, ReadAtType
    <3> QED
      BY <3>3 DEF V
  <2> HIDE DEF C
  <2> QED
    BY <2>1
<1>3. ASSUME NEW i \in Nat, i <= L
      PROVE  m[i + 1] < m[i] /\ m[i + 2] < m[i] /\ m[i + 6] < m[i]
  BY <1>1, <1>3
<1>4. ASSUME NEW g \in [Nat -> C], NEW h \in [Nat -> C], NEW i \in Nat,
             \A j \in Nat : m[j] < m[i] => g[j] = h[j]
      PROVE  F[g][i] = F[h][i]
  <2>1. ReadAt(text, g, i) = ReadAt(text, h, i)
    <3>1. CASE i > L
      BY <1>1, <3>1, ReadAtIs
    <3>2. CASE i <= L
      <4>1. g[i + 1] = h[i + 1] /\ g[i + 2] = h[i + 2] /\ g[i + 6] = h[i + 6]
        <5> HIDE DEF m
        <5> QED
          BY <1>3, <1>4, <3>2
      <4>2. Alike(text, g, i, text, h, i)
        BY <1>1, <3>2, <4>1 DEF Alike
      <4> QED
        BY <4>2, ReadAtSame
    <3> QED
      BY <1>1, <3>1, <3>2
  <2> HIDE DEF C, m
  <2> QED
    BY <2>1
<1>5. Descends(D, C, m, F)
  <2> HIDE DEF F, m, C
  <2> QED
    BY <1>1, <1>2, <1>4 DEF Descends
<1>6. \E f \in [D -> C] : f = F[f]
  <2>1. \E t : t \in C
    <3>1. <<>> \in C
      OBVIOUS
    <3> QED
      BY <3>1
  <2> HIDE DEF F, m, C, D
  <2> QED
    BY <2>1, <1>5, FixedPoint
<1>7. \E f : f = [i \in Nat |-> ReadAt(text, f, i)]
  <2> HIDE DEF C
  <2> QED
    BY <1>6
<1>8. R = [i \in Nat |-> ReadAt(text, R, i)]
  BY <1>7 DEF Read
<1> HIDE DEF R
<1>9. \A i \in Nat : R[i] = ReadAt(text, R, i)
  BY <1>8
<1> DEFINE V == T \cup {"nl", "end"}
           D1 == Nat \ {0}
           m1 == [i \in D1 |-> m[i]]
           U == {k \in D1 : R[k] \in Seq(V)}
<1>12. m1 \in [D1 -> Nat]
  BY <1>1
<1>10. ASSUME NEW i \in D1, \A j \in D1 : m1[j] < m1[i] => j \in U
       PROVE  i \in U
  <2>1. CASE i > L
    <3>1. R[i] = <<>>
      BY <1>1, <1>9, <2>1, ReadAtIs
    <3>2. <<>> \in Seq(V)
      OBVIOUS
    <3> QED
      BY <3>1, <3>2
  <2>2. CASE i <= L
    <3>1. m1[i + 1] < m1[i] /\ m1[i + 2] < m1[i] /\ m1[i + 6] < m1[i]
      BY <1>3, <2>2
    <3>2. i + 1 \in D1 /\ i + 2 \in D1 /\ i + 6 \in D1
      OBVIOUS
    <3>3. R[i + 1] \in Seq(V) /\ R[i + 2] \in Seq(V) /\ R[i + 6] \in Seq(V)
      <4> HIDE DEF m1, D1, V
      <4> QED
        BY <1>10, <3>1, <3>2
    <3>4. /\ "nl" \in V /\ "end" \in V /\ (i <= L => text[i] \in V) /\ (i < L => text[i + 1] \in V)
      BY <1>1
    <3> HIDE DEF V
    <3>5. ReadAt(text, R, i) \in Seq(V)
      BY <1>1, <3>3, <3>4, ReadAtType
    <3> QED
      BY <1>9, <3>5
  <2> QED
    BY <1>1, <2>1, <2>2
<1>11. \A i \in D1 : i \in U
  <2> HIDE DEF m1, D1, U
  <2> QED
    BY <1>12, <1>10, InductionMeasure
<1> QED
  BY <1>9, <1>11 DEF R

(* What is read of a text does not depend on what is before it. *)
LEMMA ReadShift ==
  ASSUME NEW T, NEW c \in Seq(T), NEW s \in Seq(T)
  PROVE  \A i \in Nat \ {0} : Read(c \o s)[Len(c) + i] = Read(s)[i]
<1> DEFINE D == Nat \ {0}
           n == Len(c)
           L == Len(s)
           t == c \o s
           P == Read(t)
           Q == Read(s)
           m == [i \in D |-> IF i > L THEN 0 ELSE L + 1 - i]
           U == {k \in D : P[n + k] = Q[k]}
<1>1. n \in Nat /\ L \in Nat /\ m \in [D -> Nat]
  OBVIOUS
<1>2. t \in Seq(T) /\ Len(t) = n + L /\ \A i \in 1 .. L : t[n + i] = s[i]
  <2>1. \A i \in 1 .. n + L : t[i] = IF i <= n THEN c[i] ELSE s[i - n]
    BY ConcatProperties
  <2>2. ASSUME NEW i \in 1 .. L PROVE n + i \in 1 .. n + L /\ ~(n + i <= n) /\ (n + i) - n = i
    BY <1>1
  <2> HIDE DEF t
  <2>3. \A i \in 1 .. L : t[n + i] = s[i]
    BY <2>1, <2>2
  <2> QED
    BY <2>3, ConcatProperties DEF t
<1>3. /\ \A i \in Nat : P[i] = ReadAt(t, P, i)
      /\ \A i \in Nat : Q[i] = ReadAt(s, Q, i)
  BY <1>2, ReadIs
<1> HIDE DEF P, Q, t
<1>4. ASSUME NEW i \in D, \A j \in D : m[j] < m[i] => j \in U
      PROVE  i \in U
  <2>1. P[n + i] = ReadAt(t, P, n + i) /\ Q[i] = ReadAt(s, Q, i)
    BY <1>1, <1>3
  <2>2. CASE i > L
    <3>1. n + i > Len(t)
      BY <1>1, <1>2, <2>2
    <3> QED
      BY <1>1, <1>2, <2>1, <2>2, <3>1, ReadAtIs
  <2>3. CASE i <= L
    <3>1. m[i + 1] < m[i] /\ m[i + 2] < m[i] /\ m[i + 6] < m[i]
      BY <1>1, <2>3
    <3>2. P[n + (i + 1)] = Q[i + 1] /\ P[n + (i + 2)] = Q[i + 2] /\ P[n + (i + 6)] = Q[i + 6]
      <4> HIDE DEF m
      <4> QED
        BY <1>4, <3>1
    <3>3. /\ n + (i + 1) = (n + i) + 1 /\ n + (i + 2) = (n + i) + 2 /\ n + (i + 6) = (n + i) + 6
          /\ n + i <= Len(t) /\ (n + i < Len(t) <=> i < L) /\ n + i \in Nat
      BY <1>1, <1>2, <2>3
    <3>4. t[n + i] = s[i] /\ (i < L => t[(n + i) + 1] = s[i + 1])
      BY <1>1, <1>2, <2>3, <3>3
    <3> DEFINE o == n + i
    <3> HIDE DEF o
    <3>5. ReadAt(t, P, o) = ReadAt(s, Q, i)
      <4>0. Len(t) \in Nat /\ Len(s) \in Nat
        BY <1>1, <1>2
      <4>1. P[o + 1] = Q[i + 1] /\ P[o + 2] = Q[i + 2] /\ P[o + 6] = Q[i + 6]
        BY <3>2, <3>3 DEF o
      <4>2. o <= Len(t) /\ (o < Len(t) <=> i < Len(s)) /\ o \in Nat /\ i <= Len(s) /\ i \in Nat
        BY <2>3, <3>3 DEF o
      <4>3. t[o] = s[i] /\ (i < Len(s) => t[o + 1] = s[i + 1])
        BY <3>4 DEF o
      <4>4. Alike(t, P, o, s, Q, i)
        BY <4>0, <4>1, <4>2, <4>3 DEF Alike
      <4> QED
        BY <4>4, ReadAtSame
    <3> QED
      BY <2>1, <3>5 DEF o
  <2> QED
    BY <1>1, <2>2, <2>3
<1>5. \A i \in D : i \in U
  <2> HIDE DEF m, D, U
  <2> QED
    BY <1>1, <1>4, InductionMeasure
<1> QED
  BY <1>5 DEF t, P, Q
-----------------------------------------------------------------------------
(* Unquoted: what is read at the beginning of a text *)

(* Characters that names, and what is written for them, are of.            *)
Letters(T) ==
  {"nl", "end", "\\", Quote, "u", "n", "0", "A", "x", "?", "C2", "80", "FF"} \subseteq T

(* What is read is of those characters too. *)
LEMMA UnquotedType ==
  ASSUME NEW T, Letters(T), NEW s \in Seq(T)
  PROVE  Unquoted(s) \in Seq(T)
<1>1. T \cup {"nl", "end"} = T
  BY DEF Letters
<1> QED
  BY <1>1, ReadIs, UnquotedIs

(* Nothing is read of nothing. *)
LEMMA UnquotedEmpty == Unquoted(<<>>) = <<>>
<1>1. Read(<<>>)[1] = ReadAt(<<>>, Read(<<>>), 1)
  <2>1. <<>> \in Seq({})
    OBVIOUS
  <2> QED
    BY <2>1, ReadIs
<1>2. Len(<<>>) = 0
  OBVIOUS
<1>3. ReadAt(<<>>, Read(<<>>), 1) = <<>>
  BY <1>2, ReadAtIs
<1> QED
  BY <1>1, <1>3, UnquotedIs

(* What is read of c followed by s begins at c and goes on with s. *)
Begins(c, s) ==
  /\ Unquoted(c \o s) = ReadAt(c \o s, Read(c \o s), 1)
  /\ Read(c \o s)[1 + Len(c)] = Unquoted(s)
  /\ Len(c \o s) \in Nat /\ Len(c \o s) >= Len(c)
  /\ \A i \in 1 .. Len(c) : (c \o s)[i] = c[i]

(* What is read of a text that begins with c: at its beginning, and then   *)
(* what is read of the rest.                                               *)
LEMMA UnquotedBegin ==
  ASSUME NEW T, Letters(T), NEW c \in Seq(T), NEW s \in Seq(T)
  PROVE  Begins(c, s)
<1> DEFINE t == c \o s
<1>1. /\ t \in Seq(T) /\ Len(t) = Len(c) + Len(s) /\ Len(c) \in Nat /\ Len(s) \in Nat
      /\ \A i \in 1 .. Len(c) + Len(s) : t[i] = IF i <= Len(c) THEN c[i] ELSE s[i - Len(c)]
  BY ConcatProperties
<1>2. Len(t) >= Len(c) /\ \A i \in 1 .. Len(c) : t[i] = c[i]
  BY <1>1
<1>3. Read(t)[Len(c) + 1] = Read(s)[1]
  BY ReadShift
<1> HIDE DEF t
<1>4. Read(t)[1] = ReadAt(t, Read(t), 1)
  BY <1>1, ReadIs
<1>5. Len(c) + 1 = 1 + Len(c)
  BY <1>1
<1> QED
  BY <1>1, <1>2, <1>3, <1>4, <1>5, UnquotedIs DEF t, Begins

(* A character that stands for itself. *)
LEMMA UnquotedSame ==
  ASSUME NEW T, Letters(T), NEW x \in T, x \notin {"\\", Quote, "nl"}, NEW s \in Seq(T)
  PROVE  Unquoted(<<x>> \o s) = <<x>> \o Unquoted(s)
<1> DEFINE c == <<x>>
           t == c \o s
<1>1. c \in Seq(T) /\ Len(c) = 1 /\ c[1] = x /\ 1 \in 1 .. Len(c)
  OBVIOUS
<1> HIDE DEF c
<1>2. /\ Unquoted(t) = ReadAt(t, Read(t), 1) /\ Read(t)[1 + 1] = Unquoted(s)
      /\ Len(t) \in Nat /\ Len(t) >= 1 /\ t[1] = x
  <2>1. Begins(c, s)
    BY <1>1, UnquotedBegin
  <2> QED
    BY <1>1, <2>1 DEF Begins
<1> HIDE DEF t
<1>3. 1 <= Len(t) /\ ~Esc(t, 1) /\ t[1] \notin {Quote, "nl"}
  BY <1>2 DEF Esc
<1>4. ReadAt(t, Read(t), 1) = Cat(x, Unquoted(s))
  BY <1>2, <1>3, ReadAtIs
<1> QED
  BY <1>2, <1>4 DEF Cat, c, t

(* A backslash and the character that it escapes. *)
LEMMA UnquotedEscape ==
  ASSUME NEW T, Letters(T), NEW x \in T, NEW s \in Seq(T)
  PROVE  /\ x \notin {"u", "n"} => Unquoted(<<"\\", x>> \o s) = <<x>> \o Unquoted(s)
         /\ Unquoted(<<"\\", "n">> \o s) = <<"nl">> \o Unquoted(s)
<1>1. ASSUME NEW y \in T
      PROVE  /\ y \notin {"u", "n"} => Unquoted(<<"\\", y>> \o s) = Cat(y, Unquoted(s))
             /\ y = "n" => Unquoted(<<"\\", y>> \o s) = Cat("nl", Unquoted(s))
  <2> DEFINE c == <<"\\", y>>
             t == c \o s
  <2>1. c \in Seq(T) /\ Len(c) = 2 /\ c[1] = "\\" /\ c[2] = y /\ 1 \in 1 .. Len(c) /\ 2 \in 1 .. Len(c)
    BY DEF Letters
  <2> HIDE DEF c
  <2>2. /\ Unquoted(t) = ReadAt(t, Read(t), 1) /\ Read(t)[1 + 2] = Unquoted(s)
        /\ Len(t) \in Nat /\ Len(t) >= 2 /\ t[1] = "\\" /\ t[2] = y
    <3>1. Begins(c, s)
      BY <2>1, UnquotedBegin
    <3> QED
      BY <2>1, <3>1 DEF Begins
  <2> HIDE DEF t
  <2>3. Esc(t, 1) /\ t[1 + 1] = y
    BY <2>2 DEF Esc
  <2>4. y \notin {"u", "n"} => ReadAt(t, Read(t), 1) = Cat(y, Read(t)[1 + 2])
    BY <2>2, <2>3, ReadAtIs
  <2>5. y = "n" => ReadAt(t, Read(t), 1) = Cat("nl", Read(t)[1 + 2])
    BY <2>2, <2>3, ReadAtIs
  <2> QED
    BY <2>2, <2>4, <2>5 DEF c, t
<1>2. "n" \in T
  BY DEF Letters
<1>3. Cat(x, Unquoted(s)) = <<x>> \o Unquoted(s) /\ Cat("nl", Unquoted(s)) = <<"nl">> \o Unquoted(s)
  BY DEF Cat
<1> QED
  BY <1>1, <1>2, <1>3

(* A control character in JSON. *)
LEMMA UnquotedHex ==
  ASSUME NEW T, Letters(T), NEW s \in Seq(T)
  PROVE  Unquoted(<<"\\", "u", "0", "0", "0", "A">> \o s) = <<"nl">> \o Unquoted(s)
<1> DEFINE c == <<"\\", "u", "0", "0", "0", "A">>
           t == c \o s
<1>1. /\ c \in Seq(T) /\ Len(c) = 6 /\ c[1] = "\\" /\ c[2] = "u"
      /\ 1 \in 1 .. Len(c) /\ 2 \in 1 .. Len(c)
  BY DEF Letters
<1> HIDE DEF c
<1>2. /\ Unquoted(t) = ReadAt(t, Read(t), 1) /\ Read(t)[1 + 6] = Unquoted(s)
      /\ Len(t) \in Nat /\ Len(t) >= 6 /\ t[1] = "\\" /\ t[2] = "u"
  <2>1. Begins(c, s)
    BY <1>1, UnquotedBegin
  <2> QED
    BY <1>1, <2>1 DEF Begins
<1> HIDE DEF t
<1>3. Esc(t, 1) /\ t[1 + 1] = "u"
  BY <1>2 DEF Esc
<1>4. ReadAt(t, Read(t), 1) = Cat("nl", Unquoted(s))
  BY <1>2, <1>3, ReadAtIs
<1> QED
  BY <1>2, <1>4 DEF Cat, c, t
-----------------------------------------------------------------------------
(* The JSON page *)

(* What is written in JSON for a character. *)
JsonPiece(x) ==
  IF x \in {"\\", Quote} THEN <<"\\", x>>
  ELSE IF x = "nl" THEN <<"\\", "u", "0", "0", "0", "A">> ELSE <<x>>

(* escape_json writes a text piece by piece. *)
LEMMA JsonPieces ==
  ASSUME NEW text
  PROVE  escape_json(text) = FlattenSeq([i \in DOMAIN text |-> JsonPiece(text[i])])
<1> DEFINE old(x) == CASE x \in {"\\", Quote} -> <<"\\", x>>
                      [] x = "nl" -> <<"\\", "u", "0", "0", "0", "A">>
                      [] OTHER -> <<x>>
<1>1. ASSUME NEW x PROVE JsonPiece(x) = old(x)
  BY QuoteIs, Zenon DEF JsonPiece
<1>2. escape_json(text) = FlattenSeq([i \in DOMAIN text |-> old(text[i])])
  BY Zenon DEF escape_json, Quote
<1> HIDE DEF old
<1>3. [i \in DOMAIN text |-> JsonPiece(text[i])] = [i \in DOMAIN text |-> old(text[i])]
  BY <1>1
<1> QED
  BY <1>2, <1>3, Zenon

(* It is read back, and only control characters take all of six bytes. *)
LEMMA JsonPieceRead ==
  ASSUME NEW T, Letters(T), NEW x \in T
  PROVE  /\ JsonPiece(x) \in Seq(T) /\ Len(JsonPiece(x)) \in 1 .. 6
         /\ x # "nl" => Len(JsonPiece(x)) < 6
         /\ \A s \in Seq(T) : Unquoted(JsonPiece(x) \o s) = <<x>> \o Unquoted(s)
<1>1. CASE x \in {"\\", Quote}
  <2> DEFINE c == <<"\\", x>>
  <2>1. JsonPiece(x) = c
    BY <1>1 DEF JsonPiece
  <2>2. "\\" \in T
    BY DEF Letters
  <2>3. c \in Seq(T) /\ Len(c) = 2
    BY <2>2
  <2>4. x \notin {"u", "n"}
    BY <1>1, QuoteIs
  <2>5. \A s \in Seq(T) : Unquoted(c \o s) = <<x>> \o Unquoted(s)
    BY <2>4, UnquotedEscape
  <2> HIDE DEF c
  <2> QED
    BY <2>1, <2>3, <2>5
<1>2. CASE x = "nl"
  <2> DEFINE c == <<"\\", "u", "0", "0", "0", "A">>
  <2>1. JsonPiece(x) = c
    BY <1>2, QuoteIs DEF JsonPiece
  <2>2. c \in Seq(T) /\ Len(c) = 6
    BY DEF Letters
  <2>3. \A s \in Seq(T) : Unquoted(c \o s) = <<"nl">> \o Unquoted(s)
    BY UnquotedHex
  <2> HIDE DEF c
  <2> QED
    BY <1>2, <2>1, <2>2, <2>3
<1>3. CASE x \notin {"\\", Quote, "nl"}
  <2>1. JsonPiece(x) = <<x>>
    BY <1>3 DEF JsonPiece
  <2>2. <<x>> \in Seq(T) /\ Len(<<x>>) = 1
    OBVIOUS
  <2> QED
    BY <1>3, <2>1, <2>2, UnquotedSame
<1> QED
  BY <1>1, <1>2, <1>3

(* A text of one character. *)
LEMMA SubSeqOne ==
  ASSUME NEW T, NEW text \in Seq(T), NEW i \in 1 .. Len(text)
  PROVE  SubSeq(text, i, i) = <<text[i]>>
<1> DEFINE s == SubSeq(text, i, i)
<1>1. s \in Seq(T) /\ Len(s) = 1 /\ s[1] = text[i]
  OBVIOUS
<1> HIDE DEF s
<1>2. s = <<s[1]>>
  BY <1>1
<1> QED
  BY <1>1, <1>2 DEF s

(* Sequences can be put together in either order. *)
Assoc(a, b, c) == (a \o b) \o c = a \o (b \o c)

(* For texts, where the prover can use it. *)
LEMMA AssocIs ==
  ASSUME NEW T, NEW a \in Seq(T), NEW b \in Seq(T), NEW c \in Seq(T)
  PROVE  Assoc(a, b, c)
BY ConcatAssociative DEF Assoc

(* What is written for the first k characters of a text. *)
JsonRead(T, text, out, k) ==
  /\ Len(out[k]) \in Nat /\ Len(out[k]) <= 6 * k
  /\ (\E i \in 1 .. k : text[i] # "nl") => Len(out[k]) < 6 * k
  /\ \A s \in Seq(T) : Unquoted(out[k] \o s) = SubSeq(text, 1, k) \o Unquoted(s)

(* So is a text of any length, by induction on what has been written. *)
LEMMA JsonReads ==
  ASSUME NEW T, Letters(T), NEW text \in Seq(T),
         NEW out \in [0 .. Len(text) -> Seq(T)], out[0] = <<>>,
         \A k \in 0 .. Len(text) - 1 : out[k + 1] = out[k] \o JsonPiece(text[k + 1])
  PROVE  JsonRead(T, text, out, Len(text))
<1> DEFINE L == Len(text)
           G == {k \in Nat : JsonRead(T, text, out, k)}
<1>1. L \in Nat /\ text \in [1 .. L -> T]
  OBVIOUS
<1>2. 0 \in G
  <2>1. Len(out[0]) = 0 /\ SubSeq(text, 1, 0) = <<>>
    OBVIOUS
  <2>2. ASSUME NEW s \in Seq(T) PROVE Unquoted(out[0] \o s) = SubSeq(text, 1, 0) \o Unquoted(s)
    <3>1. out[0] \o s = s
      BY ConcatEmptySeq
    <3>2. <<>> \o Unquoted(s) = Unquoted(s)
      BY ConcatEmptySeq, UnquotedType
    <3> QED
      BY <2>1, <3>1, <3>2
  <2>3. ~ \E i \in 1 .. 0 : text[i] # "nl"
    OBVIOUS
  <2>4. JsonRead(T, text, out, 0)
    BY <2>1, <2>2, <2>3 DEF JsonRead
  <2> QED
    BY <2>4
<1>3. ASSUME NEW i \in 1 .. L, i - 1 \in G PROVE i \in G
  <2> DEFINE k == i - 1
             a == out[k]
             p == JsonPiece(text[i])
  <2>1. k \in 0 .. L - 1 /\ k + 1 = i /\ k \in Nat /\ text[i] \in T /\ k \in 0 .. L
    BY <1>1
  <2>2. a \in Seq(T) /\ out[i] = a \o p
    <3> HIDE DEF k, p, L
    <3>1. out[k + 1] = out[k] \o JsonPiece(text[k + 1])
      BY <2>1 DEF L
    <3> QED
      BY <2>1, <3>1 DEF p, L
  <2>3. JsonRead(T, text, out, k)
    BY <1>3
  <2> HIDE DEF k
  <2>4. /\ p \in Seq(T) /\ Len(p) \in 1 .. 6 /\ (text[i] # "nl" => Len(p) < 6)
        /\ \A s \in Seq(T) : Unquoted(p \o s) = <<text[i]>> \o Unquoted(s)
    BY <2>1, JsonPieceRead
  <2> HIDE DEF p, a
  <2>5. Len(out[i]) = Len(a) + Len(p)
    BY <2>2, <2>4, ConcatProperties
  <2>6. Len(a) \in Nat /\ Len(a) <= 6 * k /\ ((\E j \in 1 .. k : text[j] # "nl") => Len(a) < 6 * k)
    BY <2>3 DEF JsonRead, a
  <2> DEFINE n == Len(a)
             q == Len(p)
  <2> HIDE DEF n, q, G
  <2>11. 6 * i = 6 * k + 6 /\ n \in Nat /\ n <= 6 * k /\ q \in 1 .. 6 /\ Len(out[i]) = n + q
    BY <2>1, <2>4, <2>5, <2>6 DEF n, q
  <2>7. Len(out[i]) \in Nat /\ Len(out[i]) <= 6 * i
    BY <2>1, <2>11
  <2>8. ASSUME NEW j \in 1 .. i, text[j] # "nl" PROVE Len(out[i]) < 6 * i
    <3>1. CASE j = i
      <4>1. q < 6
        BY <2>4, <2>8, <3>1 DEF q
      <4> QED
        BY <2>1, <2>11, <4>1
    <3>2. CASE j \in 1 .. k
      <4>1. n < 6 * k
        BY <2>6, <2>8, <3>2 DEF n
      <4> QED
        BY <2>1, <2>11, <4>1
    <3> QED
      BY <2>1, <3>1, <3>2
  <2>9. ASSUME NEW s \in Seq(T) PROVE Unquoted(out[i] \o s) = SubSeq(text, 1, i) \o Unquoted(s)
    <3> DEFINE u == Unquoted(s)
               x == <<text[i]>>
               b == SubSeq(text, 1, k)
    <3>1. u \in Seq(T) /\ x \in Seq(T)
      BY <2>1, UnquotedType
    <3>2. b \in Seq(T) /\ SubSeq(text, 1, i) = b \o x
      <4>1. b \in Seq(T)
        BY <1>1, <2>1
      <4>2. SubSeq(text, 1, k) \o SubSeq(text, k + 1, i) = SubSeq(text, 1, i)
        BY <1>1, <2>1, ConcatAdjacentSubSeq
      <4>3. SubSeq(text, i, i) = x
        BY <1>1, <2>1, SubSeqOne
      <4> HIDE DEF x
      <4> QED
        BY <2>1, <4>1, <4>2, <4>3
    <3>3. p \in Seq(T) /\ a \in Seq(T)
      BY <2>2, <2>4
    <3>4. p \o s \in Seq(T)
      BY <3>3, ConcatProperties
    <3>5. Unquoted(a \o (p \o s)) = b \o Unquoted(p \o s)
      BY <2>3, <3>4 DEF JsonRead, a
    <3>6. Unquoted(p \o s) = x \o u
      BY <2>4
    <3> HIDE DEF u, x, b
    <3>7. Assoc(a, p, s) /\ Assoc(b, x, u)
      <4>1. b \in Seq(T)
        BY <3>2
      <4> QED
        BY <3>1, <3>3, <4>1, AssocIs
    <3>8. Unquoted((a \o p) \o s) = (b \o x) \o u
      <4> HIDE DEF L
      <4> QED
        BY <3>5, <3>6, <3>7 DEF Assoc
    <3> QED
      BY <2>2, <3>2, <3>8 DEF u
  <2>10. JsonRead(T, text, out, i)
    BY <2>7, <2>8, <2>9 DEF JsonRead
  <2> QED
    BY <2>1, <2>10 DEF G
<1>4. \A i \in 0 .. L : i \in G
  <2> HIDE DEF G
  <2> QED
    BY <1>1, <1>2, <1>3, InductionUpTo
<1> QED
  BY <1>1, <1>4

(* A name that is not all control characters is read back from the JSON.   *)
LEMMA JsonReadBack ==
  ASSUME NEW T, Letters(T), NEW name \in Seq(T), \E i \in DOMAIN name : name[i] # "nl",
         NEW dst \in escape_json_pool(name)
  PROVE  Unquoted(dst) = name
<1> DEFINE L == Len(name)
           seqs == [i \in 1 .. L |-> JsonPiece(name[i])]
<1>1. L \in Nat /\ name \in [1 .. L -> T] /\ DOMAIN name = 1 .. L
  OBVIOUS
<1>2. seqs \in [1 .. L -> Seq(T)]
  BY <1>1, JsonPieceRead
<1>3. PICK out \in [0 .. L -> Seq(T)] :
        /\ out[0] = <<>>
        /\ \A k \in 0 .. L - 1 : out[k + 1] = out[k] \o seqs[k + 1]
        /\ FlattenSeq(seqs) = out[L]
  <2> HIDE DEF seqs, L
  <2> QED
    BY <1>1, <1>2, FlattenIs
<1>4. \A k \in 0 .. L - 1 : out[k + 1] = out[k] \o JsonPiece(name[k + 1])
  <2>1. \A k \in 0 .. L - 1 : seqs[k + 1] = JsonPiece(name[k + 1])
    BY <1>1
  <2> QED
    BY <1>3, <2>1
<1>5. escape_json(name) = out[L]
  BY <1>1, <1>3, JsonPieces
<1> HIDE DEF seqs
<1>6. JsonRead(T, name, out, L)
  BY <1>3, <1>4, JsonReads
<1>7. Len(escape_json(name)) < 6 * Len(name)
  BY <1>1, <1>5, <1>6 DEF JsonRead
<1>8. dst = out[L]
  BY <1>5, <1>7 DEF escape_json_pool
<1>9. out[L] \in Seq(T)
  BY <1>1, <1>3
<1>10. Unquoted(out[L] \o <<>>) = SubSeq(name, 1, L) \o Unquoted(<<>>)
  <2>1. <<>> \in Seq(T)
    OBVIOUS
  <2> QED
    BY <1>6, <2>1 DEF JsonRead
<1>11. out[L] \o <<>> = out[L]
  BY <1>9, ConcatEmptySeq
<1>12. SubSeq(name, 1, L) = name
  BY <1>1
<1>13. name \o <<>> = name
  BY ConcatEmptySeq
<1> QED
  BY <1>8, <1>10, <1>11, <1>12, <1>13, UnquotedEmpty
-----------------------------------------------------------------------------
(* The Prometheus page: the pieces *)

(* Two bytes of UTF-8 at i. *)
Two(text, i) == text[i] = "C2" /\ i < Len(text) /\ text[i + 1] = "80"

(* The bytes that are not ASCII. *)
Bytes == {"C2", "80", "FF"}

(* What Escaped makes of what stands at i. *)
LEMMA EscapedIs ==
  ASSUME NEW text, NEW i \in Nat, Len(text) \in Nat
  PROVE  /\ text[i] \in {"\\", Quote} =>
              Escaped(text, i) = [out |-> <<"\\", text[i]>>, next |-> i + 1]
         /\ text[i] = "nl" => Escaped(text, i) = [out |-> <<"\\", "n">>, next |-> i + 1]
         /\ text[i] \notin {"\\", Quote, "nl"} \cup Bytes =>
              Escaped(text, i) = [out |-> SubSeq(text, i, i + 1 - 1), next |-> i + 1]
         /\ Two(text, i) =>
              Escaped(text, i) = [out |-> SubSeq(text, i, i + 2 - 1), next |-> i + 2]
         /\ text[i] \in Bytes /\ ~Two(text, i) =>
              Escaped(text, i) = [out |-> <<"\\", "\\", "x", text[i]>>, next |-> i + 1]
<1>1. Ascii(text[i]) <=> text[i] \notin Bytes
  BY Zenon DEF Ascii, Bytes
<1>2. utf8_decode(text, i) = IF Two(text, i) THEN 2 ELSE 0
  BY DEF utf8_decode, Two
<1>3. /\ {"\\", Quote, "nl"} \cap Bytes = {} /\ (Two(text, i) => text[i] \in Bytes)
      /\ 2 # 0
  <2>1. Quote \notin Bytes
    BY Zenon DEF Quote, Bytes
  <2>2. "\\" \notin Bytes /\ "nl" \notin Bytes /\ "C2" \in Bytes
    BY Zenon DEF Bytes
  <2> QED
    BY <2>1, <2>2 DEF Two
<1>4. /\ utf8_decode(text, i) # 0 <=> Two(text, i)
      /\ Two(text, i) => utf8_decode(text, i) = 2
  BY <1>2, <1>3
<1>5. CASE text[i] \in {"\\", Quote}
  <2>1. text[i] # "nl" /\ text[i] \notin Bytes /\ ~Two(text, i)
    BY <1>3, <1>5, QuoteIs
  <2>2. Escaped(text, i) = [out |-> <<"\\", text[i]>>, next |-> i + 1]
    BY <1>1, <1>5, <2>1, Zenon DEF Escaped, Quote
  <2> QED
    BY <1>5, <2>1, <2>2
<1>6. CASE text[i] = "nl"
  <2>1. text[i] \notin {"\\", Quote} /\ text[i] \notin Bytes /\ ~Two(text, i)
    BY <1>3, <1>6, QuoteIs
  <2>2. Escaped(text, i) = [out |-> <<"\\", "n">>, next |-> i + 1]
    BY <1>1, <1>6, <2>1, Zenon DEF Escaped, Quote
  <2> QED
    BY <1>6, <2>1, <2>2
<1>7. CASE text[i] \notin {"\\", Quote, "nl"} \cup Bytes
  <2>1. text[i] \notin {"\\", Quote} /\ text[i] # "nl" /\ text[i] \notin Bytes
    BY <1>7
  <2>2. Escaped(text, i) = [out |-> SubSeq(text, i, i + 1 - 1), next |-> i + 1]
    BY <1>1, <2>1, Zenon DEF Escaped, Quote
  <2> QED
    BY <1>3, <2>1, <2>2
<1>8. CASE Two(text, i)
  <2>1. text[i] \notin {"\\", Quote} /\ text[i] # "nl" /\ text[i] \in Bytes
    BY <1>3, <1>8
  <2>2. Escaped(text, i) = [out |-> SubSeq(text, i, i + 2 - 1), next |-> i + 2]
    BY <1>1, <1>4, <1>8, <2>1, Zenon DEF Escaped, Quote
  <2> QED
    BY <1>8, <2>1, <2>2
<1>9. CASE text[i] \in Bytes /\ ~Two(text, i)
  <2>1. text[i] \notin {"\\", Quote} /\ text[i] # "nl"
    BY <1>3, <1>9
  <2>2. Escaped(text, i) = [out |-> <<"\\", "\\", "x", text[i]>>, next |-> i + 1]
    BY <1>1, <1>4, <1>9, <2>1, Zenon DEF Escaped, Quote
  <2> QED
    BY <1>9, <2>1, <2>2
<1> QED
  BY <1>5, <1>6, <1>7, <1>8, <1>9

(* It goes on, by one or two, and not past the end. *)
LEMMA EscapedNext ==
  ASSUME NEW text, NEW i \in Nat, Len(text) \in Nat
  PROVE  /\ Escaped(text, i).next \in {i + 1, i + 2}
         /\ i <= Len(text) => Escaped(text, i).next <= Len(text) + 1
<1>1. CASE Two(text, i)
  <2>1. Escaped(text, i).next = i + 2
    BY <1>1, EscapedIs
  <2> QED
    BY <1>1, <2>1 DEF Two
<1>2. CASE ~Two(text, i)
  <2>1. Escaped(text, i).next = i + 1
    <3>1. CASE text[i] \in {"\\", Quote}
      BY <3>1, EscapedIs
    <3>2. CASE text[i] = "nl"
      BY <3>2, EscapedIs
    <3>3. CASE text[i] \in Bytes
      BY <1>2, <3>3, EscapedIs
    <3>4. CASE text[i] \notin {"\\", Quote, "nl"} \cup Bytes
      BY <3>4, EscapedIs
    <3> QED
      BY <3>1, <3>2, <3>3, <3>4
  <2> QED
    BY <2>1
<1> QED
  BY <1>1, <1>2

(* Where the first escape is, from i on, if f says where it is behind i.  *)
CleanAt(text, f, i) ==
  IF /\ i <= Len(text)
     /\ Escaped(text, i).out = SubSeq(text, i, Escaped(text, i).next - 1)
    THEN f[Escaped(text, i).next] ELSE i

(* What is written from i on, if r is what is written behind it. *)
WrittenAt(text, r, i) ==
  IF i > Len(text) THEN <<>> ELSE Escaped(text, i).out \o r[Escaped(text, i).next]

(* The functions that escape_prometheus computes with. *)
Clean(text) == CHOOSE f : f = [i \in Nat |-> CleanAt(text, f, i)]
WrittenFrom(text) == CHOOSE r : r = [i \in Nat |-> WrittenAt(text, r, i)]

(* escape_prometheus by those functions. *)
LEMMA PrometheusEscape ==
  \A text : escape_prometheus(text) =
              SubSeq(text, 1, Clean(text)[1] - 1) \o WrittenFrom(text)[Clean(text)[1]]
BY DEF escape_prometheus, Clean, WrittenFrom, CleanAt, WrittenAt

(* The search for the first escape is well defined: it moves forward. *)
LEMMA CleanIs ==
  ASSUME NEW text, Len(text) \in Nat
  PROVE  \A i \in Nat : Clean(text)[i] = CleanAt(text, Clean(text), i)
<1> DEFINE L == Len(text)
           D == Nat
           C == Nat
           F == [f \in [D -> C] |-> [i \in D |-> CleanAt(text, f, i)]]
           m == [i \in D |-> IF i > L THEN 0 ELSE L + 1 - i]
           n(i) == Escaped(text, i).next
           same(i) == Escaped(text, i).out = SubSeq(text, i, n(i) - 1)
<1>0. \A i \in D : i > L \/ i <= L
  OBVIOUS
<1>1. m \in [D -> Nat]
  OBVIOUS
<1>2. ASSUME NEW i \in D PROVE n(i) \in D /\ (i <= L => m[n(i)] < m[i])
  BY EscapedNext
<1>3. ASSUME NEW f, NEW i \in D
      PROVE  /\ i > L \/ ~same(i) => CleanAt(text, f, i) = i
             /\ i <= L /\ same(i) => CleanAt(text, f, i) = f[n(i)]
  <2>1. i > L <=> ~(i <= L)
    OBVIOUS
  <2> HIDE DEF D, L
  <2>2. i > Len(text) <=> ~(i <= Len(text))
    BY <2>1 DEF L
  <2> QED
    BY <2>2 DEF CleanAt, L
<1> HIDE DEF n, same
<1>4. F \in [[D -> C] -> [D -> C]]
  <2>1. ASSUME NEW f \in [D -> C], NEW i \in D PROVE CleanAt(text, f, i) \in C
    <3>1. i \in Nat /\ (i <= L => f[n(i)] \in C)
      BY <1>2
    <3>2. i > L \/ i <= L
      BY <1>0
    <3> QED
      BY <1>3, <3>1, <3>2
  <2> QED
    BY <2>1
<1>5. ASSUME NEW g \in [D -> C], NEW h \in [D -> C], NEW i \in D,
             \A j \in D : m[j] < m[i] => g[j] = h[j]
      PROVE  F[g][i] = F[h][i]
  <2>1. CleanAt(text, g, i) = CleanAt(text, h, i)
    <3>1. i <= L => g[n(i)] = h[n(i)]
      <4> HIDE DEF m, D
      <4> QED
        BY <1>2, <1>5
    <3>2. i > L \/ i <= L
      BY <1>0
    <3> QED
      BY <1>3, <3>1, <3>2
  <2> QED
    BY <2>1
<1>6. Descends(D, C, m, F)
  <2> HIDE DEF F, m, C, D
  <2> QED
    BY <1>1, <1>4, <1>5 DEF Descends
<1>7. \E f \in [D -> C] : f = F[f]
  <2>1. \E t : t \in C
    BY 0 \in Nat
  <2> HIDE DEF F, m, C, D
  <2> QED
    BY <2>1, <1>6, FixedPoint
<1>8. \E f : f = [i \in Nat |-> CleanAt(text, f, i)]
  BY <1>7
<1>9. Clean(text) = [i \in Nat |-> CleanAt(text, Clean(text), i)]
  BY <1>8, Zenon DEF Clean
<1> QED
  BY <1>9

(* A character of a text, and two bytes of it, copied. *)
LEMMA Copied ==
  ASSUME NEW text, NEW i \in Nat
  PROVE  /\ SubSeq(text, i, i + 1 - 1) = <<text[i]>>
         /\ Two(text, i) => SubSeq(text, i, i + 2 - 1) = <<"C2", "80">>
<1> DEFINE S == {text[i], text[i + 1]}
           j == i + 1 - 1
           k == i + 2 - 1
           a == SubSeq(text, i, j)
           b == SubSeq(text, i, k)
<1>1. i \in Int /\ j \in Int /\ k \in Int /\ j = i /\ k = i + 1
  OBVIOUS
<1>2. (\A n \in i .. j : text[n] \in S) /\ (\A n \in i .. k : text[n] \in S)
  BY <1>1
<1> HIDE DEF S, j, k
<1>3. /\ a \in Seq(S) /\ Len(a) = (IF i <= j THEN j - i + 1 ELSE 0)
      /\ \A n \in 1 .. j - i + 1 : a[n] = text[i + n - 1]
  BY <1>1, <1>2, SubSeqProperties
<1>4. /\ b \in Seq(S) /\ Len(b) = (IF i <= k THEN k - i + 1 ELSE 0)
      /\ \A n \in 1 .. k - i + 1 : b[n] = text[i + n - 1]
  BY <1>1, <1>2, SubSeqProperties
<1> HIDE DEF a, b
<1>5. Len(a) = 1 /\ a[1] = text[i]
  <2>1. 1 \in 1 .. j - i + 1 /\ i + 1 - 1 = i /\ i <= j /\ j - i + 1 = 1
    BY <1>1
  <2> QED
    BY <1>3, <2>1
<1>6. Len(b) = 2 /\ b[1] = text[i] /\ b[2] = text[i + 1]
  <2>1. /\ 1 \in 1 .. k - i + 1 /\ 2 \in 1 .. k - i + 1 /\ i + 1 - 1 = i /\ i + 2 - 1 = i + 1
        /\ i <= k /\ k - i + 1 = 2
    BY <1>1
  <2> QED
    BY <1>4, <2>1
<1>7. a = <<text[i]>>
  BY <1>3, <1>5
<1>8. b = <<text[i], text[i + 1]>>
  BY <1>4, <1>6
<1> QED
  BY <1>7, <1>8 DEF Two, a, b, j, k

(* The pieces that escape_prometheus writes. *)
LEMMA EscapedOut ==
  ASSUME NEW text, NEW i \in Nat, Len(text) \in Nat
  PROVE  /\ text[i] \in {"\\", Quote} => Escaped(text, i).out = <<"\\", text[i]>>
         /\ text[i] = "nl" => Escaped(text, i).out = <<"\\", "n">>
         /\ text[i] \notin {"\\", Quote, "nl"} \cup Bytes => Escaped(text, i).out = <<text[i]>>
         /\ Two(text, i) => Escaped(text, i).out = <<"C2", "80">>
         /\ text[i] \in Bytes /\ ~Two(text, i) =>
              Escaped(text, i).out = <<"\\", "\\", "x", text[i]>>
<1>1. CASE text[i] \in {"\\", Quote}
  <2>1. text[i] # "nl" /\ text[i] \notin Bytes /\ ~Two(text, i)
    BY <1>1, QuoteIs, Zenon DEF Quote, Bytes, Two
  <2> QED
    BY <1>1, <2>1, EscapedIs
<1>2. CASE text[i] = "nl"
  <2>1. text[i] \notin {"\\", Quote} /\ text[i] \notin Bytes /\ ~Two(text, i)
    BY <1>2, QuoteIs DEF Bytes, Two
  <2> QED
    BY <1>2, <2>1, EscapedIs
<1>3. CASE text[i] \notin {"\\", Quote, "nl"} \cup Bytes
  <2>1. ~Two(text, i)
    BY <1>3 DEF Bytes, Two
  <2>2. Escaped(text, i) = [out |-> SubSeq(text, i, i + 1 - 1), next |-> i + 1]
    BY <1>3, EscapedIs
  <2> QED
    BY <1>3, <2>1, <2>2, Copied
<1>4. CASE text[i] \in Bytes
  <2>1. text[i] \notin {"\\", Quote, "nl"}
    BY <1>4, Zenon DEF Bytes, Quote
  <2>2. Two(text, i) => Escaped(text, i) = [out |-> SubSeq(text, i, i + 2 - 1), next |-> i + 2]
    BY EscapedIs
  <2> DEFINE c == SubSeq(text, i, i + 2 - 1)
  <2>5. Two(text, i) => c = <<"C2", "80">>
    BY Copied
  <2>6. Two(text, i) => Escaped(text, i) = [out |-> c, next |-> i + 2]
    BY <2>2
  <2> HIDE DEF c
  <2>3. Two(text, i) => Escaped(text, i).out = <<"C2", "80">>
    BY <2>5, <2>6
  <2>4. ~Two(text, i) =>
          Escaped(text, i) = [out |-> <<"\\", "\\", "x", text[i]>>, next |-> i + 1]
    BY <1>4, EscapedIs
  <2> QED
    BY <1>4, <2>1, <2>3, <2>4
<1> QED
  BY <1>1, <1>2, <1>3, <1>4

(* They are of the characters that names and escapes are of. *)
LEMMA EscapedType ==
  ASSUME NEW T, Letters(T), NEW text, NEW i \in Nat, Len(text) \in Nat, text[i] \in T
  PROVE  Escaped(text, i).out \in Seq(T)
<1>1. "\\" \in T /\ "n" \in T /\ "x" \in T /\ "C2" \in T /\ "80" \in T
  BY DEF Letters
<1> DEFINE x == text[i]
           e == Escaped(text, i).out
<1>2. x \in T
  OBVIOUS
<1>3. \/ e = <<"\\", x>> \/ e = <<"\\", "n">> \/ e = <<x>> \/ e = <<"C2", "80">>
      \/ e = <<"\\", "\\", "x", x>>
  <2> HIDE DEF e
  <2> QED
    BY EscapedOut DEF e
<1> HIDE DEF x, e
<1>5. <<"\\", x>> \in Seq(T) /\ <<"\\", "n">> \in Seq(T)
  BY <1>1, <1>2
<1>6. <<x>> \in Seq(T) /\ <<"C2", "80">> \in Seq(T)
  BY <1>1, <1>2
<1>7. <<"\\", "\\", "x", x>> \in Seq(T)
  BY <1>1, <1>2
<1>4. e \in Seq(T)
  BY <1>3, <1>5, <1>6, <1>7, Zenon
<1> QED
  BY <1>4 DEF e

(* What is written from i on: of characters, what stands at i and the rest. *)
LEMMA WrittenFromIs ==
  ASSUME NEW T, Letters(T), NEW text \in Seq(T)
  PROVE  /\ \A i \in Nat : WrittenFrom(text)[i] = WrittenAt(text, WrittenFrom(text), i)
         /\ \A i \in Nat \ {0} : WrittenFrom(text)[i] \in Seq(T)
<1> DEFINE V == T \cup {text[0]}
           L == Len(text)
           D == Nat
           C == Seq(V)
           F == [r \in [D -> C] |-> [i \in D |-> WrittenAt(text, r, i)]]
           m == [i \in D |-> IF i > L THEN 0 ELSE L + 1 - i]
           n(i) == Escaped(text, i).next
           e(i) == Escaped(text, i).out
           R == WrittenFrom(text)
<1>0. L \in Nat /\ \A i \in D : i > L \/ i <= L
  OBVIOUS
<1>1. m \in [D -> Nat]
  OBVIOUS
<1>2. ASSUME NEW i \in D PROVE n(i) \in D \ {0} /\ (i <= L => m[n(i)] < m[i])
  BY <1>0, EscapedNext
<1>a. /\ \A i \in D : i <= L => e(i) \in Seq(V)
      /\ \A i \in D \ {0} : i <= L => e(i) \in Seq(T)
  <2>1. Letters(V)
    BY DEF Letters
  <2>2. \A i \in D : i <= L => text[i] \in V
    BY <1>0
  <2>3. \A i \in D \ {0} : i <= L => text[i] \in T
    BY <1>0
  <2> HIDE DEF V, L
  <2>4. ASSUME NEW i \in D, i <= L PROVE e(i) \in Seq(V)
    <3>1. Len(text) \in Nat /\ text[i] \in V
      BY <1>0, <2>2, <2>4 DEF L
    <3> QED
      BY <2>1, <3>1, EscapedType
  <2>5. ASSUME NEW i \in D \ {0}, i <= L PROVE e(i) \in Seq(T)
    <3>1. Len(text) \in Nat /\ text[i] \in T
      BY <1>0, <2>3, <2>5 DEF L
    <3> QED
      BY <3>1, EscapedType
  <2> QED
    BY <2>4, <2>5
<1>3. ASSUME NEW r, NEW i \in D
      PROVE  /\ i > L => WrittenAt(text, r, i) = <<>>
             /\ i <= L => WrittenAt(text, r, i) = e(i) \o r[n(i)]
  <2> DEFINE s == e(i) \o r[n(i)]
  <2>1. WrittenAt(text, r, i) = IF i > L THEN <<>> ELSE s
    BY Zenon DEF WrittenAt
  <2> HIDE DEF s
  <2>2. /\ i > L => WrittenAt(text, r, i) = <<>>
        /\ i <= L => WrittenAt(text, r, i) = s
    BY <1>0, <2>1
  <2> QED
    BY <2>2 DEF s
<1>b. \A r : \A i \in D : /\ i > L => WrittenAt(text, r, i) = <<>>
                          /\ i <= L => WrittenAt(text, r, i) = e(i) \o r[n(i)]
  BY <1>3
<1> HIDE DEF n, e, L
<1>4. F \in [[D -> C] -> [D -> C]]
  <2>1. ASSUME NEW r \in [D -> C], NEW i \in D PROVE WrittenAt(text, r, i) \in C
    <3>1. CASE i > L
      <4>1. <<>> \in C
        OBVIOUS
      <4> HIDE DEF C
      <4> QED
        BY <1>b, <3>1, <4>1
    <3>2. CASE i <= L
      <4> HIDE DEF V
      <4>1. e(i) \in Seq(V) /\ r[n(i)] \in Seq(V)
        BY <1>2, <1>a, <3>2
      <4>2. e(i) \o r[n(i)] \in Seq(V)
        BY <4>1, ConcatProperties
      <4> HIDE DEF C
      <4>3. WrittenAt(text, r, i) = e(i) \o r[n(i)]
        BY <1>b, <3>2
      <4> QED
        BY <4>2, <4>3 DEF C
    <3> QED
      BY <1>0, <3>1, <3>2
  <2> HIDE DEF C
  <2> QED
    BY <2>1
<1>5. ASSUME NEW g \in [D -> C], NEW h \in [D -> C], NEW i \in D,
             \A j \in D : m[j] < m[i] => g[j] = h[j]
      PROVE  F[g][i] = F[h][i]
  <2>1. WrittenAt(text, g, i) = WrittenAt(text, h, i)
    <3>1. i <= L => g[n(i)] = h[n(i)]
      <4> HIDE DEF m, D, C
      <4> QED
        BY <1>2, <1>5
    <3> HIDE DEF C, m
    <3> QED
      BY <1>0, <1>b, <3>1
  <2> HIDE DEF C, m
  <2> QED
    BY <2>1
<1>6. Descends(D, C, m, F)
  <2> HIDE DEF F, m, C, D
  <2> QED
    BY <1>1, <1>4, <1>5 DEF Descends
<1>7. \E f \in [D -> C] : f = F[f]
  <2>1. \E t : t \in C
    <3>1. <<>> \in C
      OBVIOUS
    <3> QED
      BY <3>1
  <2> HIDE DEF F, m, C, D
  <2> QED
    BY <2>1, <1>6, FixedPoint
<1>8. \E f : f = [i \in Nat |-> WrittenAt(text, f, i)]
  <2> HIDE DEF C
  <2> QED
    BY <1>7
<1>9. R = [i \in Nat |-> WrittenAt(text, R, i)]
  BY <1>8, Zenon DEF WrittenFrom
<1> HIDE DEF R
<1>10. \A i \in Nat : R[i] = WrittenAt(text, R, i)
  BY <1>9
<1> DEFINE D1 == Nat \ {0}
           m1 == [i \in D1 |-> m[i]]
           U == {k \in D1 : R[k] \in Seq(T)}
<1>11. m1 \in [D1 -> Nat]
  BY <1>1
<1>12. ASSUME NEW i \in D1, \A j \in D1 : m1[j] < m1[i] => j \in U
       PROVE  i \in U
  <2>1. CASE i > L
    <3>1. R[i] = <<>>
      BY <1>b, <1>10, <2>1
    <3>2. <<>> \in Seq(T)
      OBVIOUS
    <3> QED
      BY <3>1, <3>2
  <2>2. CASE i <= L
    <3>1. m1[n(i)] < m1[i] /\ n(i) \in D1
      <4> HIDE DEF m
      <4> QED
        BY <1>2, <2>2
    <3>2. R[n(i)] \in Seq(T)
      <4> HIDE DEF m1, D1
      <4> QED
        BY <1>12, <3>1
    <3>3. e(i) \in Seq(T)
      BY <1>a, <2>2
    <3>4. e(i) \o R[n(i)] \in Seq(T)
      BY <3>2, <3>3, ConcatProperties
    <3>5. R[i] = e(i) \o R[n(i)]
      BY <1>b, <1>10, <2>2
    <3> QED
      BY <3>4, <3>5
  <2> QED
    BY <1>0, <2>1, <2>2
<1>13. \A i \in D1 : i \in U
  <2> HIDE DEF m1, D1, U
  <2> QED
    BY <1>11, <1>12, InductionMeasure
<1> QED
  BY <1>10, <1>13 DEF R
-----------------------------------------------------------------------------
(* The Prometheus page: what is read of the pieces *)

(* What is copied before the first escape is what the pieces are. *)
CleanFrom(text, i) ==
  /\ Clean(text)[i] \in i .. Len(text) + 1
  /\ WrittenFrom(text)[i]
       = SubSeq(text, i, Clean(text)[i] - 1) \o WrittenFrom(text)[Clean(text)[i]]

(* By induction from the end of the text. *)
LEMMA CleanWrites ==
  ASSUME NEW T, Letters(T), NEW text \in Seq(T)
  PROVE  \A i \in 1 .. Len(text) + 1 : CleanFrom(text, i)
<1> DEFINE L == Len(text)
           D == 1 .. L + 1
           m == [i \in D |-> L + 1 - i]
           U == {k \in D : CleanFrom(text, k)}
           R == WrittenFrom(text)
           K == Clean(text)
           n(i) == Escaped(text, i).next
           e(i) == Escaped(text, i).out
<1>1. L \in Nat /\ m \in [D -> Nat]
  OBVIOUS
<1>2. ASSUME NEW i \in D PROVE n(i) \in {i + 1, i + 2} /\ (i <= L => n(i) <= L + 1)
  BY <1>1, EscapedNext
<1>3. /\ \A i \in D : /\ K[i] = CleanAt(text, K, i)
                      /\ R[i] = WrittenAt(text, R, i)
                      /\ R[i] \in Seq(T)
  BY <1>1, CleanIs, WrittenFromIs
<1> HIDE DEF n, K, R
<1>4. ASSUME NEW i \in D
      PROVE  /\ ~(i <= L /\ e(i) = SubSeq(text, i, n(i) - 1)) => K[i] = i
             /\ i <= L /\ e(i) = SubSeq(text, i, n(i) - 1) => K[i] = K[n(i)]
             /\ i <= L => R[i] = e(i) \o R[n(i)]
  <2>1. /\ ~(i <= L /\ e(i) = SubSeq(text, i, n(i) - 1)) => K[i] = i
        /\ i <= L /\ e(i) = SubSeq(text, i, n(i) - 1) => K[i] = K[n(i)]
    BY <1>3, Zenon DEF CleanAt, n
  <2> DEFINE s == e(i) \o R[n(i)]
  <2>2. R[i] = IF i > L THEN <<>> ELSE s
    BY <1>3, Zenon DEF WrittenAt, n
  <2> HIDE DEF s
  <2>3. i <= L => R[i] = s
    BY <1>1, <2>2
  <2> QED
    BY <2>1, <2>3 DEF s
<1> HIDE DEF e
<1>5. ASSUME NEW i \in D, \A j \in D : m[j] < m[i] => j \in U
      PROVE  i \in U
  <2>1. CASE ~(i <= L /\ e(i) = SubSeq(text, i, n(i) - 1))
    <3>1. K[i] = i /\ K[i] \in i .. L + 1
      BY <1>1, <1>4, <2>1
    <3>2. SubSeq(text, i, i - 1) = <<>>
      BY <1>1, SubSeqEmpty
    <3>3. <<>> \o R[i] = R[i]
      BY <1>3, ConcatEmptySeq
    <3> QED
      BY <3>1, <3>2, <3>3 DEF CleanFrom, K, R
  <2>2. CASE i <= L /\ e(i) = SubSeq(text, i, n(i) - 1)
    <3> DEFINE k == n(i)
               c == K[k]
    <3>1. k \in D /\ i < k /\ m[k] < m[i]
      <4>1. (k = i + 1 \/ k = i + 2) /\ k <= L + 1
        BY <1>2, <2>2
      <4> HIDE DEF k, L
      <4>2. k \in D /\ i < k
        BY <1>1, <4>1
      <4>3. m[k] = L + 1 - k /\ m[i] = L + 1 - i
        BY <4>2
      <4>4. L + 1 - k < L + 1 - i
        BY <1>1, <4>2
      <4> QED
        BY <4>2, <4>3, <4>4
    <3>2. CleanFrom(text, k)
      <4> HIDE DEF m, D
      <4> QED
        BY <1>5, <3>1
    <3>3. c \in k .. L + 1 /\ R[k] = SubSeq(text, k, c - 1) \o R[c]
      BY <3>2 DEF CleanFrom, K, R
    <3>4. K[i] = c /\ R[i] = SubSeq(text, i, k - 1) \o R[k]
      BY <1>4, <2>2
    <3> HIDE DEF c, k
    <3> DEFINE x == SubSeq(text, i, k - 1)
               y == SubSeq(text, k, c - 1)
               z == R[c]
    <3>5. c \in D /\ c \in i .. L + 1 /\ i \in 1 .. L + 1 /\ k - 1 \in i - 1 .. L /\ c - 1 \in k - 1 .. L
          /\ (k - 1) + 1 = k
      BY <1>1, <3>1, <3>3
    <3>6. x \o y = SubSeq(text, i, c - 1)
      <4>1. SubSeq(text, i, k - 1) \o SubSeq(text, (k - 1) + 1, c - 1) = SubSeq(text, i, c - 1)
        BY <3>5, ConcatAdjacentSubSeq
      <4> QED
        BY <3>5, <4>1
    <3>7. x \in Seq(T) /\ y \in Seq(T) /\ z \in Seq(T)
      <4>1. z \in Seq(T)
        BY <1>3, <3>5
      <4>2. \A j \in 1 .. L : text[j] \in T
        BY <1>1
      <4>3. \A j \in i .. k - 1 : text[j] \in T
        BY <1>1, <3>5, <4>2
      <4>4. \A j \in k .. c - 1 : text[j] \in T
        BY <1>1, <3>1, <3>5, <4>2
      <4> HIDE DEF z
      <4>5. x \in Seq(T)
        BY <3>5, <4>3, SubSeqProperties
      <4>6. k \in Int /\ c - 1 \in Int
        BY <3>1, <3>5
      <4>7. y \in Seq(T)
        BY <4>6, <4>4, SubSeqProperties
      <4> QED
        BY <4>1, <4>5, <4>7
    <3> HIDE DEF x, y, z
    <3>8. Assoc(x, y, z)
      BY <3>7, AssocIs
    <3>9. R[i] = SubSeq(text, i, c - 1) \o z
      BY <3>3, <3>4, <3>6, <3>8 DEF Assoc, x, y, z
    <3> QED
      BY <3>4, <3>5, <3>9 DEF CleanFrom, K, R, z
  <2> QED
    BY <2>1, <2>2
<1>6. \A i \in D : i \in U
  <2> HIDE DEF m, D, U
  <2> QED
    BY <1>1, <1>5, InductionMeasure
<1> QED
  BY <1>6

(* The Prometheus page writes a name piece by piece. *)
LEMMA PrometheusWrites ==
  ASSUME NEW T, Letters(T), NEW text \in Seq(T)
  PROVE  escape_prometheus(text) = WrittenFrom(text)[1]
<1>1. 1 \in 1 .. Len(text) + 1
  OBVIOUS
<1>2. CleanFrom(text, 1)
  BY <1>1, CleanWrites
<1> QED
  BY <1>2, PrometheusEscape, Zenon DEF CleanFrom

(* A byte that belongs to no UTF-8 sequence. *)
Bad(text, i) ==
  \/ text[i] = "FF"
  \/ text[i] = "C2" /\ ~(i < Len(text) /\ text[i + 1] = "80")
  \/ text[i] = "80" /\ ~(i > 1 /\ text[i - 1] = "C2")

(* A byte in hexadecimal. *)
Hex(x) == <<"\\", "x", x>>

(* What Utf8 makes of what stands at i. *)
Utf8Piece(text, i) == IF Bad(text, i) THEN Hex(text[i]) ELSE <<text[i]>>

(* Utf8 piece by piece. *)
LEMMA Utf8Is ==
  \A text : Utf8(text) = FlattenSeq([i \in DOMAIN text |-> Utf8Piece(text, i)])
BY DEF Utf8, Utf8Piece, Bad, Hex

(* Where a piece may begin: not at the second byte of two. *)
Start(text, i) ==
  ~(i > 1 /\ i <= Len(text) /\ text[i - 1] = "C2" /\ text[i] = "80")

(* Four characters for a byte that belongs to no UTF-8 sequence. *)
LEMMA UnquotedByte ==
  ASSUME NEW T, Letters(T), NEW x \in T, x \notin {"\\", Quote, "nl"}, NEW s \in Seq(T)
  PROVE  Unquoted(<<"\\", "\\", "x", x>> \o s) = Hex(x) \o Unquoted(s)
<1> DEFINE a == <<"\\">>
           b == <<"x">>
           c == <<x>>
           d == <<"\\", "\\">>
           u == Unquoted(s)
           v == c \o s
           w == b \o v
<1>1. "\\" \in T /\ "x" \in T
  BY DEF Letters
<1>2. a \in Seq(T) /\ b \in Seq(T) /\ c \in Seq(T) /\ d \in Seq(T) /\ u \in Seq(T)
  BY <1>1, UnquotedType
<1>3. Hex(x) = (a \o b) \o c
  BY DEF Hex
<1>4. <<"\\", "\\", "x", x>> = (d \o b) \o c
  OBVIOUS
<1>5. "x" \notin {"\\", Quote, "nl"} /\ "\\" \notin {"u", "n"}
  BY Zenon DEF Quote
<1>6. Unquoted(v) = c \o u
  BY UnquotedSame
<1>7. v \in Seq(T)
  BY <1>2, ConcatProperties
<1> HIDE DEF v
<1>8. Unquoted(w) = b \o (c \o u)
  BY <1>1, <1>5, <1>6, <1>7, UnquotedSame
<1>9. w \in Seq(T)
  BY <1>2, <1>7, ConcatProperties
<1> HIDE DEF w, u
<1>10. Unquoted(d \o w) = a \o (b \o (c \o u))
  BY <1>1, <1>5, <1>8, <1>9, UnquotedEscape
<1> HIDE DEF a, b, c, d
<1>11. a \o b \in Seq(T) /\ c \o u \in Seq(T) /\ d \o b \in Seq(T)
  BY <1>2, ConcatProperties
<1>12. /\ Assoc(a, b, c \o u) /\ Assoc(a \o b, c, u) /\ Assoc(d, b, v) /\ Assoc(d \o b, c, s)
  BY <1>2, <1>7, <1>11, AssocIs
<1> QED
  BY <1>3, <1>4, <1>10, <1>12, Zenon DEF Assoc, v, w, u

(* What is read of a piece is what Utf8 makes of it. *)
LEMMA PieceRead ==
  ASSUME NEW T, Letters(T), NEW text \in Seq(T), NEW i \in 1 .. Len(text), Start(text, i)
  PROVE  /\ Two(text, i) =>
              /\ Utf8Piece(text, i) = <<"C2">> /\ Utf8Piece(text, i + 1) = <<"80">>
              /\ \A s \in Seq(T) : Unquoted(Escaped(text, i).out \o s)
                                     = <<"C2">> \o (<<"80">> \o Unquoted(s))
         /\ ~Two(text, i) =>
              \A s \in Seq(T) : Unquoted(Escaped(text, i).out \o s)
                                  = Utf8Piece(text, i) \o Unquoted(s)
<1> DEFINE x == text[i]
           e == Escaped(text, i).out
<1>1. x \in T /\ Len(text) \in Nat /\ i \in Nat
  OBVIOUS
<1>2. CASE Two(text, i)
  <2>1. x = "C2" /\ text[i + 1] = "80" /\ i < Len(text) /\ i + 1 > 1 /\ (i + 1) - 1 = i
    BY <1>2 DEF Two
  <2>2. ~Bad(text, i) /\ ~Bad(text, i + 1)
    BY <2>1 DEF Bad
  <2>3. Utf8Piece(text, i) = <<"C2">> /\ Utf8Piece(text, i + 1) = <<"80">>
    BY <2>1, <2>2 DEF Utf8Piece
  <2>4. e = <<"C2", "80">>
    BY <1>1, <1>2, EscapedOut
  <2>5. ASSUME NEW s \in Seq(T)
        PROVE  Unquoted(e \o s) = <<"C2">> \o (<<"80">> \o Unquoted(s))
    <3> DEFINE a == <<"C2">>
               b == <<"80">>
               v == b \o s
    <3>1. "C2" \in T /\ "80" \in T
      BY DEF Letters
    <3>2. a \in Seq(T) /\ b \in Seq(T)
      BY <3>1
    <3>3. "C2" \notin {"\\", Quote, "nl"} /\ "80" \notin {"\\", Quote, "nl"}
      BY Zenon DEF Quote
    <3>4. Unquoted(v) = b \o Unquoted(s)
      BY <3>1, <3>3, UnquotedSame
    <3>5. v \in Seq(T)
      BY <3>2, ConcatProperties
    <3>6. <<"C2", "80">> = a \o b
      OBVIOUS
    <3> HIDE DEF v
    <3>7. Unquoted(a \o v) = a \o Unquoted(v)
      BY <3>1, <3>3, <3>5, UnquotedSame
    <3> HIDE DEF a, b
    <3>8. Assoc(a, b, s)
      BY <3>2, AssocIs
    <3> QED
      BY <2>4, <3>4, <3>6, <3>7, <3>8, Zenon DEF Assoc, v, a, b
  <2> QED
    BY <1>2, <2>3, <2>5
<1>3. CASE ~Two(text, i) /\ x \in Bytes
  <2>1. Bad(text, i)
    BY <1>1, <1>3 DEF Bad, Bytes, Two, Start
  <2>2. Utf8Piece(text, i) = Hex(x)
    BY <2>1 DEF Utf8Piece
  <2>3. x \notin {"\\", Quote, "nl"}
    BY <1>3, Zenon DEF Bytes, Quote
  <2> DEFINE c == <<"\\", "\\", "x", x>>
  <2>4. e = c
    BY <1>1, <1>3, EscapedOut
  <2>5. \A s \in Seq(T) : Unquoted(c \o s) = Hex(x) \o Unquoted(s)
    BY <1>1, <2>3, UnquotedByte
  <2> HIDE DEF c, e
  <2> QED
    BY <1>3, <2>2, <2>4, <2>5 DEF e
<1>4. CASE x \notin Bytes
  <2>1. ~Two(text, i) /\ ~Bad(text, i)
    BY <1>4 DEF Bad, Bytes, Two
  <2>2. Utf8Piece(text, i) = <<x>>
    BY <2>1 DEF Utf8Piece
  <2>3. \A s \in Seq(T) : Unquoted(e \o s) = <<x>> \o Unquoted(s)
    <3>1. CASE x \in {"\\", Quote}
      <4>1. x \notin {"u", "n"}
        BY <3>1, QuoteIs
      <4> DEFINE c == <<"\\", x>>
      <4>2. e = c
        BY <1>1, <3>1, EscapedOut
      <4>3. \A s \in Seq(T) : Unquoted(c \o s) = <<x>> \o Unquoted(s)
        BY <1>1, <4>1, UnquotedEscape
      <4> HIDE DEF c, e
      <4> QED
        BY <4>2, <4>3
    <3>2. CASE x = "nl"
      <4> DEFINE c == <<"\\", "n">>
      <4>1. e = c
        BY <1>1, <3>2, EscapedOut
      <4>2. \A s \in Seq(T) : Unquoted(c \o s) = <<"nl">> \o Unquoted(s)
        BY <1>1, UnquotedEscape
      <4> HIDE DEF c, e
      <4> QED
        BY <3>2, <4>1, <4>2
    <3>3. CASE x \notin {"\\", Quote, "nl"}
      <4> DEFINE c == <<x>>
      <4>1. e = c
        BY <1>1, <1>4, <3>3, EscapedOut
      <4>2. \A s \in Seq(T) : Unquoted(c \o s) = <<x>> \o Unquoted(s)
        BY <1>1, <3>3, UnquotedSame
      <4> HIDE DEF c, e
      <4> QED
        BY <4>1, <4>2
    <3> QED
      BY <3>1, <3>2, <3>3
  <2> QED
    BY <2>1, <2>2, <2>3
<1> QED
  BY <1>2, <1>3, <1>4
-----------------------------------------------------------------------------
(* Names are read back *)

(* What is left to read at the beginning of a piece. *)
ReadsOn(text, flat, i) ==
  Start(text, i) => flat[i - 1] \o Unquoted(WrittenFrom(text)[i]) = flat[Len(text)]

(* A name is read back from the Prometheus page as UTF-8.                  *)
LEMMA PrometheusReadBack ==
  ASSUME NEW T, Letters(T), NEW text \in Seq(T)
  PROVE  Unquoted(escape_prometheus(text)) = Utf8(text)
<1> DEFINE L == Len(text)
           seqs == [i \in 1 .. L |-> Utf8Piece(text, i)]
           R == WrittenFrom(text)
           n(i) == Escaped(text, i).next
           e(i) == Escaped(text, i).out
<1>1. L \in Nat /\ text \in [1 .. L -> T] /\ DOMAIN text = 1 .. L
  OBVIOUS
<1>2. seqs \in [1 .. L -> Seq(T)]
  <2>1. ASSUME NEW x \in T PROVE <<x>> \in Seq(T) /\ Hex(x) \in Seq(T)
    <3>1. "\\" \in T /\ "x" \in T
      BY DEF Letters
    <3> QED
      BY <3>1 DEF Hex
  <2>2. ASSUME NEW i \in 1 .. L PROVE Utf8Piece(text, i) \in Seq(T)
    BY <1>1, <2>1 DEF Utf8Piece
  <2> QED
    BY <2>2
<1>3. PICK flat \in [0 .. L -> Seq(T)] :
        /\ flat[0] = <<>>
        /\ \A k \in 0 .. L - 1 : flat[k + 1] = flat[k] \o seqs[k + 1]
        /\ FlattenSeq(seqs) = flat[L]
  <2> HIDE DEF seqs, L
  <2> QED
    BY <1>1, <1>2, FlattenIs
<1>4. \A k \in 0 .. L - 1 : flat[k + 1] = flat[k] \o Utf8Piece(text, k + 1)
  <2>1. \A k \in 0 .. L - 1 : seqs[k + 1] = Utf8Piece(text, k + 1)
    BY <1>1
  <2> QED
    BY <1>3, <2>1
<1>5. Utf8(text) = flat[L]
  BY <1>1, <1>3, Utf8Is
<1> HIDE DEF seqs
<1>a. \A i \in 1 .. L : flat[i] = flat[i - 1] \o Utf8Piece(text, i)
  <2>1. ASSUME NEW i \in 1 .. L PROVE flat[i] = flat[i - 1] \o Utf8Piece(text, i)
    <3>1. i - 1 \in 0 .. L - 1 /\ (i - 1) + 1 = i
      BY <1>1
    <3> QED
      BY <1>4, <3>1
  <2> QED
    BY <2>1
<1> DEFINE D == 1 .. L + 1
           m == [i \in D |-> L + 1 - i]
           U == {k \in D : ReadsOn(text, flat, k)}
<1>6. m \in [D -> Nat]
  BY <1>1
<1>7. \A i \in D : R[i] = WrittenAt(text, R, i) /\ R[i] \in Seq(T)
  BY <1>1, WrittenFromIs
<1> HIDE DEF R, n, e
<1>8. ASSUME NEW i \in D, \A j \in D : m[j] < m[i] => j \in U
      PROVE  i \in U
  <2> SUFFICES ASSUME Start(text, i)
               PROVE  flat[i - 1] \o Unquoted(R[i]) = flat[L]
    BY DEF ReadsOn, R
  <2>1. CASE i = L + 1
    <3>1. R[i] = <<>>
      <4>1. i > L
        BY <1>1, <2>1
      <4> QED
        BY <1>7, <4>1 DEF WrittenAt
    <3>2. i - 1 = L /\ flat[L] \in Seq(T)
      BY <1>1, <1>3, <2>1
    <3>3. flat[L] \o <<>> = flat[L]
      BY <3>2, ConcatEmptySeq
    <3> QED
      BY <3>1, <3>2, <3>3, UnquotedEmpty
  <2>2. CASE i \in 1 .. L
    <3> DEFINE k == n(i)
               x == e(i)
               r == R[k]
               f == flat[i - 1]
               u == Unquoted(r)
    <3>1. R[i] = x \o r
      <4>1. ~(i > L)
        BY <1>1, <2>2
      <4> QED
        BY <1>7, <4>1, Zenon DEF WrittenAt, n, e
    <3>2. (Two(text, i) => k = i + 2) /\ (~Two(text, i) => k = i + 1) /\ k <= L + 1
      <4>1. (Two(text, i) => Escaped(text, i).next = i + 2) /\ i \in Nat
        BY <1>1, EscapedIs
      <4>2. ~Two(text, i) => Escaped(text, i).next = i + 1
        <5>1. CASE text[i] \in {"\\", Quote}
          BY <1>1, <5>1, EscapedIs
        <5>2. CASE text[i] = "nl"
          BY <1>1, <5>2, EscapedIs
        <5>3. CASE text[i] \in Bytes
          BY <1>1, <5>3, EscapedIs
        <5>4. CASE text[i] \notin {"\\", Quote, "nl"} \cup Bytes
          BY <1>1, <5>4, EscapedIs
        <5> QED
          BY <5>1, <5>2, <5>3, <5>4
      <4>3. Escaped(text, i).next <= L + 1
        BY <1>1, <2>2, EscapedNext
      <4> QED
        BY <4>1, <4>2, <4>3 DEF n
    <3> HIDE DEF k, x
    <3>3. k \in D /\ m[k] < m[i]
      <4>1. k \in D /\ i < k
        BY <1>1, <3>2
      <4>2. m[k] = L + 1 - k /\ m[i] = L + 1 - i
        BY <4>1
      <4> HIDE DEF m, L
      <4>3. L + 1 - k < L + 1 - i
        BY <1>1, <4>1
      <4> QED
        BY <4>1, <4>2, <4>3
    <3>4. ReadsOn(text, flat, k)
      <4> HIDE DEF m, D
      <4> QED
        BY <1>8, <3>3
    <3>5. Start(text, k)
      <4>1. CASE Two(text, i)
        <5>1. k - 1 = i + 1 /\ text[i + 1] = "80"
          BY <1>1, <3>2, <4>1 DEF Two
        <5> QED
          BY <5>1 DEF Start
      <4>2. CASE ~Two(text, i)
        <5>1. k = i + 1 /\ k - 1 = i
          BY <1>1, <3>2, <4>2
        <5>2. CASE i < L
          BY <4>2, <5>1, <5>2 DEF Start, Two
        <5>3. CASE i = L
          <6>1. ~(k <= Len(text))
            BY <1>1, <5>1, <5>3
          <6> QED
            BY <6>1 DEF Start
        <5>4. i < L \/ i = L
          <6> HIDE DEF L
          <6> QED
            BY <1>1, <2>2
        <5> QED
          BY <5>2, <5>3, <5>4
      <4> QED
        BY <4>1, <4>2
    <3>6. flat[k - 1] \o Unquoted(r) = flat[L]
      BY <3>4, <3>5 DEF ReadsOn, R
    <3>7. r \in Seq(T) /\ f \in Seq(T) /\ u \in Seq(T)
      <4>1. R[k] \in Seq(T)
        <5> HIDE DEF D
        <5> QED
          BY <1>7, <3>3
      <4>2. i - 1 \in 0 .. L
        BY <1>1
      <4> QED
        BY <1>3, <4>1, <4>2, UnquotedType
    <3> HIDE DEF r
    <3>8. CASE Two(text, i)
      <4> DEFINE a == <<"C2">>
                 b == <<"80">>
      <4>1. "C2" \in T /\ "80" \in T
        BY DEF Letters
      <4>2. a \in Seq(T) /\ b \in Seq(T)
        BY <4>1
      <4>3. /\ Utf8Piece(text, i) = a /\ Utf8Piece(text, i + 1) = b
            /\ Unquoted(x \o r) = a \o (b \o Unquoted(r))
        BY <2>2, <3>7, <3>8, PieceRead DEF x, e
      <4>4. i + 1 \in 1 .. L /\ (i + 1) - 1 = i /\ k - 1 = i + 1
        BY <1>1, <3>2, <3>8 DEF Two
      <4> HIDE DEF a, b
      <4>5. flat[k - 1] = (f \o a) \o b
        <5>1. flat[i] = f \o a
          BY <1>a, <2>2, <4>3
        <5>2. flat[i + 1] = flat[i] \o b
          <6>1. flat[i + 1] = flat[(i + 1) - 1] \o Utf8Piece(text, i + 1)
            BY <1>a, <4>4
          <6> QED
            BY <4>3, <4>4, <6>1
        <5> QED
          BY <4>4, <5>1, <5>2
      <4> HIDE DEF f, u
      <4>6. f \o a \in Seq(T) /\ b \o u \in Seq(T)
        BY <3>7, <4>2, ConcatProperties
      <4>7. Assoc(f \o a, b, u) /\ Assoc(f, a, b \o u)
        BY <3>7, <4>2, <4>6, AssocIs
      <4>8. f \o Unquoted(x \o r) = flat[L]
        BY <3>6, <4>3, <4>5, <4>7, Zenon DEF Assoc, u
      <4> QED
        BY <3>1, <4>8, Zenon DEF f, r
    <3>9. CASE ~Two(text, i)
      <4> DEFINE a == Utf8Piece(text, i)
      <4>1. a \in Seq(T)
        BY <1>2, <2>2 DEF seqs
      <4>2. Unquoted(x \o r) = a \o Unquoted(r)
        BY <2>2, <3>7, <3>9, PieceRead DEF x, e
      <4>3. flat[k - 1] = f \o a
        <5>1. k - 1 = i
          BY <1>1, <3>2, <3>9
        <5> QED
          BY <1>a, <2>2, <5>1
      <4> HIDE DEF f, u, a
      <4>4. Assoc(f, a, u)
        BY <3>7, <4>1, AssocIs
      <4>5. f \o Unquoted(x \o r) = flat[L]
        BY <3>6, <4>2, <4>3, <4>4, Zenon DEF Assoc, u
      <4> QED
        BY <3>1, <4>5, Zenon DEF f, r
    <3> QED
      BY <3>8, <3>9
  <2> QED
    BY <1>1, <2>1, <2>2
<1>9. \A i \in D : i \in U
  <2> HIDE DEF m, D, U
  <2> QED
    BY <1>6, <1>8, InductionMeasure
<1>10. flat[0] \o Unquoted(R[1]) = flat[L]
  <2>1. 1 \in D /\ Start(text, 1) /\ 1 - 1 = 0
    BY <1>1 DEF Start
  <2> QED
    BY <1>9, <2>1 DEF ReadsOn, R
<1>11. Unquoted(R[1]) \in Seq(T)
  <2>1. R[1] \in Seq(T)
    BY <1>1, <1>7
  <2> QED
    BY <2>1, UnquotedType
<1>12. <<>> \o Unquoted(R[1]) = Unquoted(R[1])
  BY <1>11, ConcatEmptySeq
<1>13. escape_prometheus(text) = R[1]
  BY PrometheusWrites DEF R
<1> QED
  BY <1>3, <1>5, <1>10, <1>12, <1>13

(* Every name is read back from both pages. *)
THEOREM NameReadBack == \A name \in Seq(Chars) : ReadBack(name)
<1> SUFFICES ASSUME NEW name \in Seq(Chars) PROVE ReadBack(name)
  OBVIOUS
<1> DEFINE W == {"nl", "end", "\\", Quote, "u", "n", "0", "A", "x", "?", "C2", "80", "FF"}
           T == Chars \cup W
<1>1. Letters(T)
  BY DEF Letters
<1>2. name \in Seq(T)
  <2> HIDE DEF W
  <2> QED
    OBVIOUS
<1> HIDE DEF T
<1>3. Unquoted(escape_prometheus(name)) = Utf8(name)
  BY <1>1, <1>2, PrometheusReadBack
<1>4. ASSUME \E i \in DOMAIN name : name[i] # "nl", NEW dst \in escape_json_pool(name)
      PROVE  Unquoted(dst) = name
  BY <1>1, <1>2, <1>4, JsonReadBack
<1> QED
  BY <1>3, <1>4 DEF ReadBack
=============================================================================
