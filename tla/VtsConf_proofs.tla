--------------------------- MODULE VtsConf_proofs ---------------------------
(***************************************************************************)
(* What is in force when nginx.conf has been read, for every set of files  *)
(* and whatever the hashes: ConfInv is an invariant. From it follow the    *)
(* properties of VtsConf, those about duplicates under a condition on the  *)
(* hashes of a file (HashesNear, HashesApart).                             *)
(***************************************************************************)
EXTENDS VtsConf, VtsName_proofs, SequenceTheorems

(* qsort: merging *)

(* What a sequence, its head and its tail hold. *)
LEMMA HeadTailIs ==
  ASSUME NEW S, NEW x \in Seq(S), x # <<>>
  PROVE  /\ Len(x) \in Nat \ {0}
         /\ DOMAIN x = 1 .. Len(x)
         /\ Head(x) = x[1] /\ Head(x) \in S
         /\ Tail(x) \in Seq(S)
         /\ Len(Tail(x)) = Len(x) - 1
         /\ DOMAIN Tail(x) = 1 .. Len(x) - 1
         /\ \A i \in 1 .. Len(x) - 1 : Tail(x)[i] = x[i + 1]
<1>1. Len(x) \in Nat \ {0} /\ DOMAIN x = 1 .. Len(x)
  OBVIOUS
<1>2. Head(x) = x[1] /\ Head(x) \in S
  OBVIOUS
<1>3. Tail(x) \in Seq(S) /\ Len(Tail(x)) = Len(x) - 1
  OBVIOUS
<1>4. DOMAIN Tail(x) = 1 .. Len(x) - 1
  BY <1>3
<1>5. \A i \in 1 .. Len(x) - 1 : Tail(x)[i] = x[i + 1]
  OBVIOUS
<1> QED
  BY <1>1, <1>2, <1>3, <1>4, <1>5

(* What a sequence is with an element put before it. *)
LEMMA ConsIs ==
  ASSUME NEW S, NEW e \in S, NEW r \in Seq(S)
  PROVE  /\ <<e>> \o r \in Seq(S)
         /\ Len(<<e>> \o r) = Len(r) + 1
         /\ DOMAIN (<<e>> \o r) = 1 .. Len(r) + 1
         /\ (<<e>> \o r)[1] = e
         /\ \A i \in 1 .. Len(r) : (<<e>> \o r)[i + 1] = r[i]
<1>1. <<e>> \in Seq(S) /\ Len(<<e>>) = 1
  OBVIOUS
<1>2. <<e>> \o r \in Seq(S) /\ Len(<<e>> \o r) = Len(r) + 1
  BY <1>1
<1>3. DOMAIN (<<e>> \o r) = 1 .. Len(r) + 1
  BY <1>2
<1>4. (<<e>> \o r)[1] = e
  BY <1>1
<1>5. \A i \in 1 .. Len(r) : (<<e>> \o r)[i + 1] = r[i]
  BY <1>1
<1> QED
  BY <1>2, <1>3, <1>4, <1>5

(* The arguments of merge, and the measure by which it descends. *)
Pairs == Seq(Uniq) \X Seq(Uniq)

PairLen == [p \in Pairs |-> Len(p[1]) + Len(p[2])]

(* What the measure is, on the pairs of sequences. *)
LEMMA PairLenIs ==
  /\ PairLen \in [Pairs -> Nat]
  /\ \A x, y \in Seq(Uniq) :
       <<x, y>> \in Pairs /\ PairLen[<<x, y>>] = Len(x) + Len(y)
  /\ \A p \in Pairs : p[1] \in Seq(Uniq) /\ p[2] \in Seq(Uniq) /\ p = <<p[1], p[2]>>
<1> DEFINE S == Seq(Uniq)
<1>1. \A x, y \in S : Len(x) + Len(y) \in Nat
  OBVIOUS
<1>2. \A p \in S \X S : p[1] \in S /\ p[2] \in S /\ p = <<p[1], p[2]>>
  <2> HIDE DEF S
  <2> QED OBVIOUS
<1>3. PairLen \in [Pairs -> Nat]
  <2> SUFFICES ASSUME NEW p \in Pairs PROVE Len(p[1]) + Len(p[2]) \in Nat
    BY DEF PairLen
  <2>1. p[1] \in S /\ p[2] \in S
    BY <1>2 DEF Pairs
  <2> HIDE DEF S
  <2> QED
    BY <1>1, <2>1
<1>4. ASSUME NEW x \in S, NEW y \in S
      PROVE  <<x, y>> \in Pairs /\ PairLen[<<x, y>>] = Len(x) + Len(y)
  <2> HIDE DEF S
  <2> QED
    BY DEF Pairs, PairLen, S
<1> QED
  BY <1>2, <1>3, <1>4 DEF Pairs

(* merge is a function on pairs of sequences. *)
LEMMA MergeDef ==
  merge = [p \in Pairs |->
    IF p[1] = <<>> \/ p[2] = <<>> THEN p[1] \o p[2]
    ELSE IF cmp_hashs(Head(p[1]).hash, Head(p[2]).hash)
      THEN <<Head(p[1])>> \o merge[<<Tail(p[1]), p[2]>>]
      ELSE <<Head(p[2])>> \o merge[<<p[1], Tail(p[2])>>]]
<1> DEFINE T == Seq(Uniq)
           D == [Pairs -> T]
           Body(f, p) ==
             IF p[1] = <<>> \/ p[2] = <<>> THEN p[1] \o p[2]
             ELSE IF cmp_hashs(Head(p[1]).hash, Head(p[2]).hash)
               THEN <<Head(p[1])>> \o f[<<Tail(p[1]), p[2]>>]
               ELSE <<Head(p[2])>> \o f[<<p[1], Tail(p[2])>>]
           F == [f \in D |-> [p \in Pairs |-> Body(f, p)]]
           m == PairLen
<1>1. m \in [Pairs -> Nat]
  BY PairLenIs
<1>2. ASSUME NEW p \in Pairs, p[1] # <<>>, p[2] # <<>>
      PROVE  /\ Head(p[1]) \in Uniq /\ <<Tail(p[1]), p[2]>> \in Pairs
             /\ m[<<Tail(p[1]), p[2]>>] < m[p]
             /\ Head(p[2]) \in Uniq /\ <<p[1], Tail(p[2])>> \in Pairs
             /\ m[<<p[1], Tail(p[2])>>] < m[p]
  <2>1. PICK x \in Seq(Uniq), y \in Seq(Uniq) : x = p[1] /\ y = p[2] /\ p = <<x, y>>
    BY PairLenIs
  <2>2. /\ Head(x) \in Uniq /\ Tail(x) \in Seq(Uniq)
        /\ Len(Tail(x)) = Len(x) - 1 /\ Len(x) \in Nat \ {0}
    BY <1>2, <2>1, HeadTailIs
  <2>3. /\ Head(y) \in Uniq /\ Tail(y) \in Seq(Uniq)
        /\ Len(Tail(y)) = Len(y) - 1 /\ Len(y) \in Nat \ {0}
    BY <1>2, <2>1, HeadTailIs
  <2>4. /\ <<Tail(x), y>> \in Pairs /\ PairLen[<<Tail(x), y>>] = Len(Tail(x)) + Len(y)
        /\ <<x, Tail(y)>> \in Pairs /\ PairLen[<<x, Tail(y)>>] = Len(x) + Len(Tail(y))
        /\ PairLen[<<x, y>>] = Len(x) + Len(y)
    BY <2>2, <2>3, PairLenIs
  <2>5. PairLen[<<Tail(x), y>>] < PairLen[<<x, y>>]
    BY <2>2, <2>3, <2>4
  <2>6. PairLen[<<x, Tail(y)>>] < PairLen[<<x, y>>]
    BY <2>2, <2>3, <2>4
  <2> QED
    BY <2>1, <2>2, <2>3, <2>4, <2>5, <2>6
<1>3. F \in [D -> D]
  <2> SUFFICES ASSUME NEW f \in D, NEW p \in Pairs PROVE Body(f, p) \in T
    OBVIOUS
  <2>1. p[1] \in Seq(Uniq) /\ p[2] \in Seq(Uniq)
    BY DEF Pairs
  <2>2. CASE p[1] = <<>> \/ p[2] = <<>>
    <3>1. p[1] \o p[2] \in Seq(Uniq)
      BY <2>1
    <3> QED
      BY <2>2, <3>1
  <2>3. CASE ~(p[1] = <<>> \/ p[2] = <<>>)
    <3> HIDE DEF m
    <3>1. /\ Head(p[1]) \in Uniq /\ f[<<Tail(p[1]), p[2]>>] \in Seq(Uniq)
          /\ Head(p[2]) \in Uniq /\ f[<<p[1], Tail(p[2])>>] \in Seq(Uniq)
      BY <1>2, <2>3
    <3>2. /\ <<Head(p[1])>> \o f[<<Tail(p[1]), p[2]>>] \in Seq(Uniq)
          /\ <<Head(p[2])>> \o f[<<p[1], Tail(p[2])>>] \in Seq(Uniq)
      BY <3>1, ConsIs
    <3> QED
      BY <2>3, <3>2
  <2> QED
    BY <2>2, <2>3
<1>4. ASSUME NEW g \in D, NEW h \in D, NEW p \in Pairs,
             \A q \in Pairs : m[q] < m[p] => g[q] = h[q]
      PROVE  F[g][p] = F[h][p]
  <2>1. Body(g, p) = Body(h, p)
    <3>1. CASE p[1] = <<>> \/ p[2] = <<>>
      BY <3>1
    <3>2. CASE ~(p[1] = <<>> \/ p[2] = <<>>)
      <4> HIDE DEF m
      <4>1. /\ g[<<Tail(p[1]), p[2]>>] = h[<<Tail(p[1]), p[2]>>]
            /\ g[<<p[1], Tail(p[2])>>] = h[<<p[1], Tail(p[2])>>]
        BY <1>2, <1>4, <3>2
      <4> QED
        BY <3>2, <4>1
    <3> QED
      BY <3>1, <3>2
  <2> QED
    BY <2>1
<1>5. Descends(Pairs, T, m, F)
  BY <1>1, <1>3, <1>4 DEF Descends
<1>6. \E f \in D : f = F[f]
  <2>1. <<>> \in T
    OBVIOUS
  <2> HIDE DEF F, m, T
  <2> QED
    BY <2>1, <1>5, FixedPoint
<1>7. \E f : f = [p \in Pairs |-> Body(f, p)]
  BY <1>6
<1> QED
  BY <1>7 DEF merge, Pairs

(* What a merge does, head by head. *)
LEMMA MergeStep ==
  ASSUME NEW x \in Seq(Uniq), NEW y \in Seq(Uniq)
  PROVE  /\ x = <<>> \/ y = <<>> => merge[<<x, y>>] = x \o y
         /\ x # <<>> /\ y # <<>> /\ cmp_hashs(Head(x).hash, Head(y).hash)
              => merge[<<x, y>>] = <<Head(x)>> \o merge[<<Tail(x), y>>]
         /\ x # <<>> /\ y # <<>> /\ ~cmp_hashs(Head(x).hash, Head(y).hash)
              => merge[<<x, y>>] = <<Head(y)>> \o merge[<<x, Tail(y)>>]
<1> DEFINE p == <<x, y>>
<1>1. p \in Pairs /\ p[1] = x /\ p[2] = y
  BY DEF Pairs
<1> HIDE DEF p
<1>2. merge[p] =
    IF p[1] = <<>> \/ p[2] = <<>> THEN p[1] \o p[2]
    ELSE IF cmp_hashs(Head(p[1]).hash, Head(p[2]).hash)
      THEN <<Head(p[1])>> \o merge[<<Tail(p[1]), p[2]>>]
      ELSE <<Head(p[2])>> \o merge[<<p[1], Tail(p[2])>>]
  BY <1>1, MergeDef
<1>3. merge[p] =
    IF x = <<>> \/ y = <<>> THEN x \o y
    ELSE IF cmp_hashs(Head(x).hash, Head(y).hash)
      THEN <<Head(x)>> \o merge[<<Tail(x), y>>]
      ELSE <<Head(y)>> \o merge[<<x, Tail(y)>>]
  BY <1>1, <1>2
<1> QED
  BY <1>3 DEF p

(* Induction on what is left to merge. *)
LEMMA MergeInduction ==
  ASSUME NEW T,
         \A x, y \in Seq(Uniq) :
           /\ x = <<>> \/ y = <<>> => <<x, y>> \in T
           /\ x # <<>> /\ y # <<>> /\ <<Tail(x), y>> \in T /\ <<x, Tail(y)>> \in T
                => <<x, y>> \in T
  PROVE  \A x, y \in Seq(Uniq) : <<x, y>> \in T
<1>1. ASSUME NEW p \in Pairs, \A q \in Pairs : PairLen[q] < PairLen[p] => q \in T
      PROVE  p \in T
  <2>1. PICK x \in Seq(Uniq), y \in Seq(Uniq) : p = <<x, y>>
    BY PairLenIs
  <2>2. CASE x = <<>> \/ y = <<>>
    BY <2>1, <2>2
  <2>3. CASE x # <<>> /\ y # <<>>
    <3>1. /\ Tail(x) \in Seq(Uniq)
          /\ Len(Tail(x)) = Len(x) - 1 /\ Len(x) \in Nat \ {0}
      BY <2>3, HeadTailIs
    <3>2. /\ Tail(y) \in Seq(Uniq)
          /\ Len(Tail(y)) = Len(y) - 1 /\ Len(y) \in Nat \ {0}
      BY <2>3, HeadTailIs
    <3>3. /\ <<Tail(x), y>> \in Pairs /\ PairLen[<<Tail(x), y>>] = Len(Tail(x)) + Len(y)
          /\ <<x, Tail(y)>> \in Pairs /\ PairLen[<<x, Tail(y)>>] = Len(x) + Len(Tail(y))
          /\ PairLen[<<x, y>>] = Len(x) + Len(y)
      BY <3>1, <3>2, PairLenIs
    <3>4. PairLen[<<Tail(x), y>>] < PairLen[p]
      BY <2>1, <3>1, <3>2, <3>3
    <3>5. PairLen[<<x, Tail(y)>>] < PairLen[p]
      BY <2>1, <3>1, <3>2, <3>3
    <3>6. <<Tail(x), y>> \in T /\ <<x, Tail(y)>> \in T
      BY <1>1, <3>3, <3>4, <3>5
    <3> QED
      BY <2>1, <2>3, <3>6
  <2> QED
    BY <2>2, <2>3
<1>2. \A p \in Pairs : p \in T
  BY <1>1, PairLenIs, InductionMeasure
<1> QED
  BY <1>2, PairLenIs

(* A merge has the entries of both. *)
LEMMA MergeEntries ==
  ASSUME NEW x \in Seq(Uniq), NEW y \in Seq(Uniq)
  PROVE  /\ merge[<<x, y>>] \in Seq(Uniq)
         /\ Len(merge[<<x, y>>]) = Len(x) + Len(y)
         /\ Range(merge[<<x, y>>]) = Range(x) \cup Range(y)
<1> DEFINE Good(p) == /\ merge[p] \in Seq(Uniq)
                      /\ Len(merge[p]) = Len(p[1]) + Len(p[2])
                      /\ Range(merge[p]) = Range(p[1]) \cup Range(p[2])
           T == {p \in Pairs : Good(p)}
<1>1. ASSUME NEW u \in Seq(Uniq), NEW v \in Seq(Uniq), u = <<>> \/ v = <<>>
      PROVE  <<u, v>> \in T
  <2>1. merge[<<u, v>>] = u \o v
    BY <1>1, MergeStep
  <2>2. u \o v = IF u = <<>> THEN v ELSE u
    BY <1>1
  <2>3. Len(<<>>) = 0 /\ Range(<<>>) = {}
    BY DEF Range
  <2>4. Len(u) \in Nat /\ Len(v) \in Nat
    OBVIOUS
  <2>5. Len(merge[<<u, v>>]) = Len(u) + Len(v)
    <3>1. Len(IF u = <<>> THEN v ELSE u) = Len(u) + Len(v)
      <4>1. CASE u = <<>>
        BY <2>3, <2>4, <4>1
      <4>2. CASE u # <<>>
        BY <1>1, <2>3, <2>4, <4>2
      <4> QED
        BY <4>1, <4>2
    <3> QED
      BY <2>1, <2>2, <3>1
  <2>6. Range(merge[<<u, v>>]) = Range(u) \cup Range(v)
    BY <1>1, <2>1, <2>2, <2>3
  <2>7. <<u, v>> \in Pairs /\ merge[<<u, v>>] \in Seq(Uniq)
    BY <2>1, <2>2, PairLenIs
  <2> QED
    BY <2>5, <2>6, <2>7
<1>2. ASSUME NEW S, NEW e \in S, NEW r \in Seq(S)
      PROVE  Range(<<e>> \o r) = {e} \cup Range(r)
  <2> DEFINE c == <<e>> \o r
  <2>1. /\ DOMAIN c = 1 .. Len(r) + 1 /\ c[1] = e /\ Len(r) \in Nat
        /\ \A i \in 1 .. Len(r) : c[i + 1] = r[i]
        /\ DOMAIN r = 1 .. Len(r)
    BY ConsIs
  <2> HIDE DEF c
  <2>2. ASSUME NEW i \in DOMAIN c PROVE c[i] \in {e} \cup Range(r)
    <3>1. CASE i = 1
      BY <2>1, <3>1
    <3>2. CASE i # 1
      <4>1. i - 1 \in 1 .. Len(r) /\ (i - 1) + 1 = i
        BY <2>1, <3>2
      <4>2. c[i] = r[i - 1]
        BY <2>1, <4>1
      <4> QED
        BY <2>1, <4>1, <4>2 DEF Range
    <3> QED
      BY <3>1, <3>2
  <2>3. e \in Range(c)
    <3>1. 1 \in DOMAIN c
      BY <2>1
    <3> QED
      BY <2>1, <3>1 DEF Range
  <2>4. ASSUME NEW i \in DOMAIN r PROVE r[i] \in Range(c)
    <3>1. i + 1 \in DOMAIN c /\ c[i + 1] = r[i]
      BY <2>1
    <3> QED
      BY <3>1 DEF Range
  <2>5. Range(c) \subseteq {e} \cup Range(r)
    BY <2>2 DEF Range
  <2>6. Range(r) \subseteq Range(c)
    BY <2>4 DEF Range
  <2> QED
    BY <2>3, <2>5, <2>6 DEF c
<1>3. ASSUME NEW u \in Seq(Uniq), u # <<>>
      PROVE  Range(u) = {Head(u)} \cup Range(Tail(u))
  <2>1. /\ Head(u) \in Uniq /\ Tail(u) \in Seq(Uniq) /\ u = <<Head(u)>> \o Tail(u)
    BY <1>3
  <2> QED
    BY <1>2, <2>1
<1>4. ASSUME NEW u \in Seq(Uniq), NEW v \in Seq(Uniq), u # <<>>, v # <<>>,
             <<Tail(u), v>> \in T, <<u, Tail(v)>> \in T
      PROVE  <<u, v>> \in T
  <2>1. /\ Head(u) \in Uniq /\ Tail(u) \in Seq(Uniq)
        /\ Len(Tail(u)) = Len(u) - 1 /\ Len(u) \in Nat \ {0}
        /\ Head(v) \in Uniq /\ Tail(v) \in Seq(Uniq)
        /\ Len(Tail(v)) = Len(v) - 1 /\ Len(v) \in Nat \ {0}
    BY <1>4, HeadTailIs
  <2> DEFINE r == merge[<<Tail(u), v>>]
             s == merge[<<u, Tail(v)>>]
             q == merge[<<u, v>>]
  <2>2. /\ r \in Seq(Uniq) /\ Len(r) = Len(Tail(u)) + Len(v)
        /\ Range(r) = Range(Tail(u)) \cup Range(v)
    BY <1>4
  <2>3. /\ s \in Seq(Uniq) /\ Len(s) = Len(u) + Len(Tail(v))
        /\ Range(s) = Range(u) \cup Range(Tail(v))
    BY <1>4
  <2>4. q = <<Head(u)>> \o r \/ q = <<Head(v)>> \o s
    BY <1>4, MergeStep
  <2> HIDE DEF r, s, q
  <2>5. ASSUME q = <<Head(u)>> \o r
        PROVE  q \in Seq(Uniq) /\ Len(q) = Len(u) + Len(v)
                 /\ Range(q) = Range(u) \cup Range(v)
    <3>1. q \in Seq(Uniq) /\ Len(q) = Len(r) + 1
      BY <2>1, <2>2, <2>5, ConsIs
    <3>2. Range(q) = {Head(u)} \cup Range(r)
      BY <1>2, <2>1, <2>2, <2>5
    <3>3. Range(q) = Range(u) \cup Range(v)
      BY <1>3, <1>4, <2>2, <3>2
    <3>4. Len(q) = Len(u) + Len(v)
      BY <2>1, <2>2, <3>1
    <3> QED
      BY <3>1, <3>3, <3>4
  <2>6. ASSUME q = <<Head(v)>> \o s
        PROVE  q \in Seq(Uniq) /\ Len(q) = Len(u) + Len(v)
                 /\ Range(q) = Range(u) \cup Range(v)
    <3>1. q \in Seq(Uniq) /\ Len(q) = Len(s) + 1
      BY <2>1, <2>3, <2>6, ConsIs
    <3>2. Range(q) = {Head(v)} \cup Range(s)
      BY <1>2, <2>1, <2>3, <2>6
    <3>3. Range(q) = Range(u) \cup Range(v)
      BY <1>3, <1>4, <2>3, <3>2
    <3>4. Len(q) = Len(u) + Len(v)
      BY <2>1, <2>3, <3>1
    <3> QED
      BY <3>1, <3>3, <3>4
  <2>7. <<u, v>> \in Pairs
    BY PairLenIs
  <2>8. q \in Seq(Uniq) /\ Len(q) = Len(u) + Len(v) /\ Range(q) = Range(u) \cup Range(v)
    BY <2>4, <2>5, <2>6
  <2> QED
    BY <2>7, <2>8 DEF q
<1>5. <<x, y>> \in T
  <2> HIDE DEF T
  <2> QED
    BY <1>1, <1>4, MergeInduction
<1> QED
  BY <1>5
-----------------------------------------------------------------------------
(* qsort: halving, and what it leaves in place *)

(* The halves of a sequence that is to be sorted. *)
LEMMA HalvesAre ==
  ASSUME NEW S, NEW x \in Seq(S), ~(Len(x) <= 1)
  PROVE  LET l == SubSeq(x, 1, Len(x) \div 2)
             r == SubSeq(x, (Len(x) \div 2) + 1, Len(x))
         IN  /\ l \in Seq(S) /\ r \in Seq(S)
             /\ Len(l) \in Nat /\ Len(r) \in Nat /\ Len(l) < Len(x) /\ Len(r) < Len(x)
             /\ Len(l) + Len(r) = Len(x)
             /\ \A i \in 1 .. Len(l) : l[i] = x[i]
             /\ \A i \in 1 .. Len(r) : r[i] = x[i + Len(l)]
             /\ Range(x) = Range(l) \cup Range(r)
<1> DEFINE n == Len(x)
           h == Len(x) \div 2
           l == SubSeq(x, 1, h)
           r == SubSeq(x, h + 1, n)
<1>1. n \in Nat /\ ~(n <= 1) /\ DOMAIN x = 1 .. n /\ \A i \in 1 .. n : x[i] \in S
  OBVIOUS
<1>2. h \in 1 .. n - 1
  OBVIOUS
<1>3. l = [i \in 1 .. h |-> x[i]]
  BY <1>1, <1>2
<1>4. r = [i \in 1 .. n - h |-> x[i + h]]
  BY <1>1, <1>2
<1> HIDE DEF n, h, l, r
<1>5. n - h \in Nat /\ h \in Nat /\ h < n /\ n - h < n /\ h + (n - h) = n
  BY <1>1, <1>2
<1>6. l \in Seq(S) /\ Len(l) = h /\ DOMAIN l = 1 .. h
  <2>1. \A i \in 1 .. h : i \in 1 .. n
    BY <1>1, <1>2
  <2>2. l \in [1 .. h -> S]
    BY <1>1, <1>3, <2>1
  <2> QED
    BY <1>5, <2>2, <1>3
<1>7. r \in Seq(S) /\ Len(r) = n - h /\ DOMAIN r = 1 .. n - h
  <2>1. \A i \in 1 .. n - h : i + h \in 1 .. n
    BY <1>1, <1>2
  <2>2. r \in [1 .. n - h -> S]
    BY <1>1, <1>4, <2>1
  <2> DEFINE k == n - h
  <2>3. k \in Nat /\ r \in [1 .. k -> S]
    BY <1>5, <2>2
  <2> HIDE DEF k
  <2>4. r \in Seq(S) /\ Len(r) = k /\ DOMAIN r = 1 .. k
    BY <2>3
  <2> QED
    BY <2>4 DEF k
<1>8. \A i \in 1 .. Len(l) : l[i] = x[i]
  BY <1>3, <1>6
<1>9. \A i \in 1 .. Len(r) : r[i] = x[i + Len(l)]
  BY <1>4, <1>6, <1>7
<1>10. Range(x) = Range(l) \cup Range(r)
  <2>1. ASSUME NEW i \in 1 .. n PROVE x[i] \in Range(l) \cup Range(r)
    <3>1. CASE i <= h
      <4>1. i \in 1 .. h /\ l[i] = x[i]
        BY <1>5, <1>6, <1>8, <3>1
      <4> QED
        BY <1>6, <4>1 DEF Range
    <3>2. CASE ~(i <= h)
      <4>1. i - h \in 1 .. n - h /\ (i - h) + h = i
        BY <1>1, <1>5, <3>2
      <4>2. r[i - h] = x[i]
        BY <1>6, <1>7, <1>9, <4>1
      <4> QED
        BY <1>7, <4>1, <4>2 DEF Range
    <3> QED
      BY <3>1, <3>2
  <2>2. ASSUME NEW i \in 1 .. h PROVE l[i] \in Range(x)
    <3>1. i \in 1 .. n
      BY <1>1, <1>5
    <3> QED
      BY <1>1, <1>6, <1>8, <3>1 DEF Range
  <2>3. ASSUME NEW i \in 1 .. n - h PROVE r[i] \in Range(x)
    <3>1. i + h \in 1 .. n
      BY <1>1, <1>5
    <3> QED
      BY <1>1, <1>6, <1>7, <1>9, <3>1 DEF Range
  <2>4. Range(x) \subseteq Range(l) \cup Range(r)
    BY <1>1, <2>1 DEF Range
  <2>5. Range(l) \subseteq Range(x)
    BY <1>6, <2>2 DEF Range
  <2>6. Range(r) \subseteq Range(x)
    BY <1>7, <2>3 DEF Range
  <2> QED
    BY <2>4, <2>5, <2>6
<1> QED
  BY <1>5, <1>6, <1>7, <1>8, <1>9, <1>10 DEF n, h, l, r

(* sorted is a function on sequences. *)
LEMMA SortedDef ==
  sorted = [x \in Seq(Uniq) |->
    IF Len(x) <= 1 THEN x
    ELSE merge[<<sorted[SubSeq(x, 1, Len(x) \div 2)],
                 sorted[SubSeq(x, (Len(x) \div 2) + 1, Len(x))]>>]]
<1> DEFINE N == Seq(Uniq)
           T == Seq(Uniq)
           D == [N -> T]
           Body(f, x) ==
             IF Len(x) <= 1 THEN x
             ELSE merge[<<f[SubSeq(x, 1, Len(x) \div 2)],
                          f[SubSeq(x, (Len(x) \div 2) + 1, Len(x))]>>]
           F == [f \in D |-> [x \in N |-> Body(f, x)]]
           m == [x \in N |-> Len(x)]
<1>1. m \in [N -> Nat]
  OBVIOUS
<1>2. ASSUME NEW x \in N, ~(Len(x) <= 1)
      PROVE  /\ SubSeq(x, 1, Len(x) \div 2) \in N
             /\ m[SubSeq(x, 1, Len(x) \div 2)] < m[x]
             /\ SubSeq(x, (Len(x) \div 2) + 1, Len(x)) \in N
             /\ m[SubSeq(x, (Len(x) \div 2) + 1, Len(x))] < m[x]
  <2> DEFINE l == SubSeq(x, 1, Len(x) \div 2)
             r == SubSeq(x, (Len(x) \div 2) + 1, Len(x))
  <2>1. l \in N /\ r \in N /\ Len(l) < Len(x) /\ Len(r) < Len(x)
    BY <1>2, HalvesAre
  <2> HIDE DEF l, r
  <2>2. m[l] < m[x] /\ m[r] < m[x]
    BY <2>1
  <2> QED
    BY <2>1, <2>2 DEF l, r
<1>3. F \in [D -> D]
  <2> SUFFICES ASSUME NEW f \in D, NEW x \in N PROVE Body(f, x) \in T
    OBVIOUS
  <2>1. CASE Len(x) <= 1
    BY <2>1
  <2>2. CASE ~(Len(x) <= 1)
    <3> HIDE DEF m
    <3>1. /\ f[SubSeq(x, 1, Len(x) \div 2)] \in Seq(Uniq)
          /\ f[SubSeq(x, (Len(x) \div 2) + 1, Len(x))] \in Seq(Uniq)
      BY <1>2, <2>2
    <3>2. merge[<<f[SubSeq(x, 1, Len(x) \div 2)],
                  f[SubSeq(x, (Len(x) \div 2) + 1, Len(x))]>>] \in Seq(Uniq)
      BY <3>1, MergeEntries
    <3> QED
      BY <2>2, <3>2
  <2> QED
    BY <2>1, <2>2
<1>4. ASSUME NEW g \in D, NEW h \in D, NEW x \in N,
             \A y \in N : m[y] < m[x] => g[y] = h[y]
      PROVE  F[g][x] = F[h][x]
  <2>1. Body(g, x) = Body(h, x)
    <3>1. CASE Len(x) <= 1
      BY <3>1
    <3>2. CASE ~(Len(x) <= 1)
      <4> HIDE DEF m
      <4>1. /\ g[SubSeq(x, 1, Len(x) \div 2)] = h[SubSeq(x, 1, Len(x) \div 2)]
            /\ g[SubSeq(x, (Len(x) \div 2) + 1, Len(x))]
                 = h[SubSeq(x, (Len(x) \div 2) + 1, Len(x))]
        BY <1>2, <1>4, <3>2
      <4> QED
        BY <3>2, <4>1
    <3> QED
      BY <3>1, <3>2
  <2> QED
    BY <2>1
<1>5. Descends(N, T, m, F)
  BY <1>1, <1>3, <1>4 DEF Descends
<1>6. \E f \in D : f = F[f]
  <2>1. <<>> \in T
    OBVIOUS
  <2> HIDE DEF F, m, T, N
  <2> QED
    BY <2>1, <1>5, FixedPoint
<1>7. \E f : f = [x \in N |-> Body(f, x)]
  BY <1>6
<1> QED
  BY <1>7 DEF sorted

(* One round of the recursion of sorted. *)
LEMMA SortedStep ==
  ASSUME NEW x \in Seq(Uniq)
  PROVE  /\ Len(x) <= 1 => sorted[x] = x
         /\ ~(Len(x) <= 1) =>
              sorted[x] = merge[<<sorted[SubSeq(x, 1, Len(x) \div 2)],
                                  sorted[SubSeq(x, (Len(x) \div 2) + 1, Len(x))]>>]
<1>1. sorted[x] = IF Len(x) <= 1 THEN x
    ELSE merge[<<sorted[SubSeq(x, 1, Len(x) \div 2)],
                 sorted[SubSeq(x, (Len(x) \div 2) + 1, Len(x))]>>]
  BY SortedDef
<1> QED
  BY <1>1

(* Induction on the halves. *)
LEMMA SortInduction ==
  ASSUME NEW T,
         \A x \in Seq(Uniq) :
           /\ Len(x) <= 1 => x \in T
           /\ ~(Len(x) <= 1) /\ SubSeq(x, 1, Len(x) \div 2) \in T
                /\ SubSeq(x, (Len(x) \div 2) + 1, Len(x)) \in T => x \in T
  PROVE  \A x \in Seq(Uniq) : x \in T
<1> DEFINE N == Seq(Uniq)
           m == [x \in N |-> Len(x)]
<1>1. m \in [N -> Nat]
  OBVIOUS
<1>2. ASSUME NEW x \in N, \A y \in N : m[y] < m[x] => y \in T
      PROVE  x \in T
  <2>1. CASE Len(x) <= 1
    BY <2>1
  <2>2. CASE ~(Len(x) <= 1)
    <3> DEFINE l == SubSeq(x, 1, Len(x) \div 2)
               r == SubSeq(x, (Len(x) \div 2) + 1, Len(x))
    <3>1. l \in N /\ r \in N /\ Len(l) < Len(x) /\ Len(r) < Len(x)
      BY <2>2, HalvesAre
    <3> HIDE DEF l, r
    <3>2. l \in T /\ r \in T
      BY <1>2, <3>1
    <3> QED
      BY <2>2, <3>2 DEF l, r
  <2> QED
    BY <2>1, <2>2
<1> HIDE DEF N, m
<1>3. \A x \in N : x \in T
  BY <1>1, <1>2, InductionMeasure
<1> QED
  BY <1>3 DEF N

(* Sorting keeps the entries. *)
LEMMA SortedEntries ==
  ASSUME NEW x \in Seq(Uniq)
  PROVE  /\ sorted[x] \in Seq(Uniq)
         /\ Len(sorted[x]) = Len(x)
         /\ Range(sorted[x]) = Range(x)
<1> DEFINE T == {u \in Seq(Uniq) : /\ sorted[u] \in Seq(Uniq)
                                   /\ Len(sorted[u]) = Len(u)
                                   /\ Range(sorted[u]) = Range(u)}
<1>1. ASSUME NEW u \in Seq(Uniq), Len(u) <= 1 PROVE u \in T
  BY <1>1, SortedStep
<1>2. ASSUME NEW u \in Seq(Uniq), ~(Len(u) <= 1),
             SubSeq(u, 1, Len(u) \div 2) \in T,
             SubSeq(u, (Len(u) \div 2) + 1, Len(u)) \in T
      PROVE  u \in T
  <2> DEFINE l == SubSeq(u, 1, Len(u) \div 2)
             r == SubSeq(u, (Len(u) \div 2) + 1, Len(u))
             a == sorted[l]
             b == sorted[r]
  <2>1. sorted[u] = merge[<<a, b>>]
    BY <1>2, SortedStep
  <2>2. Len(l) + Len(r) = Len(u) /\ Range(u) = Range(l) \cup Range(r)
    <3> HIDE DEF T
    <3> QED
      BY <1>2, HalvesAre
  <2>3. /\ a \in Seq(Uniq) /\ Len(a) = Len(l) /\ Range(a) = Range(l)
        /\ b \in Seq(Uniq) /\ Len(b) = Len(r) /\ Range(b) = Range(r)
    <3>1. l \in T /\ r \in T
      BY <1>2
    <3> HIDE DEF l, r
    <3> QED
      BY <3>1
  <2> HIDE DEF a, b, l, r
  <2>4. /\ merge[<<a, b>>] \in Seq(Uniq)
        /\ Len(merge[<<a, b>>]) = Len(a) + Len(b)
        /\ Range(merge[<<a, b>>]) = Range(a) \cup Range(b)
    BY <2>3, MergeEntries
  <2> QED
    BY <2>1, <2>2, <2>3, <2>4
<1>3. x \in T
  <2> HIDE DEF T
  <2> QED
    BY <1>1, <1>2, SortInduction
<1> QED
  BY <1>3

(* Before: how filter_unique needs its entries.  By hash and, of the same  *)
(* hash, in the order of the file.                                         *)
Before(a, b) == a.hash < b.hash \/ (a.hash = b.hash /\ a.index < b.index)
Ordered(x) == \A i, j \in DOMAIN x : i < j => Before(x[i], x[j])

(* The differences of the hashes in H do not wrap. *)
Near(H) == \A a, b \in H : cmp_hashs(a, b) <=> a <= b
HashesIn(x) == {a.hash : a \in Range(x)}

(* A least element before an ordered sequence. *)
LEMMA OrderedCons ==
  ASSUME NEW e \in Uniq, NEW r \in Seq(Uniq), Ordered(r),
         \A a \in Range(r) : Before(e, a)
  PROVE  Ordered(<<e>> \o r)
<1> DEFINE c == <<e>> \o r
<1>1. /\ DOMAIN c = 1 .. Len(r) + 1 /\ c[1] = e /\ Len(r) \in Nat
      /\ \A i \in 1 .. Len(r) : c[i + 1] = r[i]
      /\ DOMAIN r = 1 .. Len(r)
  BY ConsIs
<1> HIDE DEF c
<1>2. \A i \in DOMAIN c : i # 1 => i - 1 \in DOMAIN r /\ c[i] = r[i - 1]
  <2> SUFFICES ASSUME NEW i \in DOMAIN c, i # 1
               PROVE  i - 1 \in DOMAIN r /\ c[i] = r[i - 1]
    OBVIOUS
  <2>1. i - 1 \in 1 .. Len(r) /\ (i - 1) + 1 = i
    BY <1>1
  <2> QED
    BY <1>1, <2>1
<1>3. ASSUME NEW i \in DOMAIN c, NEW j \in DOMAIN c, i < j
      PROVE  Before(c[i], c[j])
  <2>1. j # 1 /\ i \in Nat /\ j \in Nat /\ i >= 1
    BY <1>1, <1>3
  <2>2. j - 1 \in DOMAIN r /\ c[j] = r[j - 1]
    BY <1>2, <2>1
  <2>3. CASE i = 1
    <3>1. c[j] \in Range(r)
      BY <2>2 DEF Range
    <3> QED
      BY <1>1, <2>3, <3>1
  <2>4. CASE i # 1
    <3>1. i - 1 \in DOMAIN r /\ c[i] = r[i - 1]
      BY <1>2, <2>4
    <3>2. i - 1 < j - 1
      BY <1>3, <2>1
    <3> QED
      BY <2>2, <3>1, <3>2 DEF Ordered
  <2> QED
    BY <2>3, <2>4
<1> QED
  BY <1>3 DEF Ordered, c

(* The head of an ordered sequence is before its tail. *)
LEMMA OrderedTail ==
  ASSUME NEW x \in Seq(Uniq), Ordered(x), x # <<>>
  PROVE  /\ Ordered(Tail(x))
         /\ \A a \in Range(Tail(x)) : Before(Head(x), a)
<1>1. /\ Len(x) \in Nat \ {0}
      /\ DOMAIN x = 1 .. Len(x) /\ Head(x) = x[1]
      /\ DOMAIN Tail(x) = 1 .. Len(x) - 1
      /\ \A i \in 1 .. Len(x) - 1 : Tail(x)[i] = x[i + 1]
  BY HeadTailIs
<1> DEFINE t == Tail(x)
<1> HIDE DEF t
<1>2. ASSUME NEW i \in DOMAIN t, NEW j \in DOMAIN t, i < j
      PROVE  Before(t[i], t[j])
  <2>1. i + 1 \in DOMAIN x /\ j + 1 \in DOMAIN x /\ i + 1 < j + 1
    BY <1>1, <1>2 DEF t
  <2>2. t[i] = x[i + 1] /\ t[j] = x[j + 1]
    BY <1>1 DEF t
  <2> QED
    BY <2>1, <2>2 DEF Ordered
<1>3. ASSUME NEW i \in DOMAIN t PROVE Before(x[1], t[i])
  <2>1. 1 \in DOMAIN x /\ i + 1 \in DOMAIN x /\ 1 < i + 1
    BY <1>1 DEF t
  <2>2. t[i] = x[i + 1]
    BY <1>1 DEF t
  <2> QED
    BY <2>1, <2>2 DEF Ordered
<1>4. \A a \in Range(t) : Before(Head(x), a)
  BY <1>1, <1>3 DEF Range
<1>5. Ordered(t)
  BY <1>2 DEF Ordered
<1> QED
  BY <1>4, <1>5 DEF t

(* Two ordered runs, the first of smaller indices, merge into an ordered   *)
(* one.                                                                    *)
Mergeable(x, y) ==
  /\ Ordered(x) /\ Ordered(y)
  /\ \A a \in Range(x), b \in Range(y) : a.index < b.index
  /\ Near(HashesIn(x) \cup HashesIn(y))

(* Before is transitive. *)
LEMMA BeforeTransitive ==
  ASSUME NEW a \in Uniq, NEW b \in Uniq, NEW c \in Uniq, Before(a, b), Before(b, c)
  PROVE  Before(a, c)
BY DEF Before, Uniq

(* The elements of a sequence are its head and those of its tail. *)
LEMMA RangeHeadTail ==
  ASSUME NEW x \in Seq(Uniq), x # <<>>
  PROVE  /\ Range(x) = {Head(x)} \cup Range(Tail(x))
         /\ Range(x) \subseteq Uniq /\ Range(Tail(x)) \subseteq Uniq
<1>1. /\ Len(x) \in Nat \ {0}
      /\ DOMAIN x = 1 .. Len(x) /\ Head(x) = x[1]
      /\ DOMAIN Tail(x) = 1 .. Len(x) - 1
      /\ \A i \in 1 .. Len(x) - 1 : Tail(x)[i] = x[i + 1]
  BY HeadTailIs
<1> DEFINE t == Tail(x)
<1> HIDE DEF t
<1>2. ASSUME NEW i \in DOMAIN x PROVE x[i] \in {Head(x)} \cup Range(t)
  <2>1. CASE i = 1
    BY <1>1, <2>1
  <2>2. CASE i # 1
    <3>1. i - 1 \in DOMAIN t /\ (i - 1) + 1 = i
      BY <1>1, <2>2 DEF t
    <3>2. t[i - 1] = x[i]
      BY <1>1, <3>1 DEF t
    <3> QED
      BY <3>1, <3>2 DEF Range
  <2> QED
    BY <2>1, <2>2
<1>3. ASSUME NEW i \in DOMAIN t PROVE t[i] \in Range(x)
  <2>1. i + 1 \in DOMAIN x /\ t[i] = x[i + 1]
    BY <1>1 DEF t
  <2> QED
    BY <2>1 DEF Range
<1>4. Head(x) \in Range(x)
  <2>1. 1 \in DOMAIN x
    BY <1>1
  <2> QED
    BY <1>1, <2>1 DEF Range
<1>5. Range(x) \subseteq Uniq
  BY DEF Range
<1>6. Range(x) \subseteq {Head(x)} \cup Range(t)
  BY <1>2 DEF Range
<1>7. Range(t) \subseteq Range(x)
  BY <1>3 DEF Range
<1> QED
  BY <1>4, <1>5, <1>6, <1>7 DEF t

(* The merge of two ordered sequences that cmp_hashs compares as numbers, *)
(* and whose equal hashes are in the order of the first before the second,*)
(* is ordered.                                                            *)
LEMMA MergeOrdered ==
  ASSUME NEW x \in Seq(Uniq), NEW y \in Seq(Uniq), Mergeable(x, y)
  PROVE  Ordered(merge[<<x, y>>])
<1> DEFINE T == {p \in Pairs : Mergeable(p[1], p[2]) => Ordered(merge[p])}
<1>1. ASSUME NEW u \in Seq(Uniq), NEW v \in Seq(Uniq), u = <<>> \/ v = <<>>
      PROVE  <<u, v>> \in T
  <2>1. merge[<<u, v>>] = u \o v
    BY <1>1, MergeStep
  <2>2. u \o v = IF u = <<>> THEN v ELSE u
    BY <1>1
  <2>3. Mergeable(u, v) => Ordered(merge[<<u, v>>])
    BY <2>1, <2>2 DEF Mergeable
  <2>4. <<u, v>> \in Pairs
    BY PairLenIs
  <2> QED
    BY <2>3, <2>4
<1>2. ASSUME NEW u \in Seq(Uniq), NEW v \in Seq(Uniq), u # <<>>, v # <<>>,
             <<Tail(u), v>> \in T, <<u, Tail(v)>> \in T
      PROVE  <<u, v>> \in T
  <2> DEFINE tu == Tail(u)
             tv == Tail(v)
             a == Head(u)
             b == Head(v)
  <2>1. /\ a \in Uniq /\ tu \in Seq(Uniq) /\ b \in Uniq /\ tv \in Seq(Uniq)
    BY <1>2, HeadTailIs
  <2>2. /\ Range(u) = {a} \cup Range(tu) /\ Range(u) \subseteq Uniq
        /\ Range(v) = {b} \cup Range(tv) /\ Range(v) \subseteq Uniq
    BY <1>2, RangeHeadTail
  <2>3. ASSUME Mergeable(u, v) PROVE Ordered(merge[<<u, v>>])
    <3>1. /\ Ordered(tu) /\ \A e \in Range(tu) : Before(a, e)
          /\ Ordered(tv) /\ \A e \in Range(tv) : Before(b, e)
      BY <1>2, <2>3, OrderedTail DEF Mergeable
    <3>2. cmp_hashs(a.hash, b.hash) <=> a.hash <= b.hash
      BY <2>2, <2>3 DEF Mergeable, Near, HashesIn
    <3>3. Mergeable(tu, v) /\ Mergeable(u, tv)
      <4> HIDE DEF tu, tv, a, b
      <4>1. HashesIn(tu) \subseteq HashesIn(u) /\ HashesIn(tv) \subseteq HashesIn(v)
        BY <2>2 DEF HashesIn
      <4>2. Near(HashesIn(tu) \cup HashesIn(v)) /\ Near(HashesIn(u) \cup HashesIn(tv))
        BY <2>3, <4>1 DEF Mergeable, Near
      <4> QED
        BY <2>2, <2>3, <3>1, <4>2 DEF Mergeable
    <3> DEFINE r == merge[<<tu, v>>]
               s == merge[<<u, tv>>]
    <3>4. Ordered(r) /\ Ordered(s)
      BY <1>2, <3>3
    <3>5. /\ r \in Seq(Uniq) /\ Range(r) = Range(tu) \cup Range(v)
          /\ s \in Seq(Uniq) /\ Range(s) = Range(u) \cup Range(tv)
      BY <2>1, MergeEntries
    <3>6. \A e \in Uniq, f \in Uniq : e.hash \in Nat /\ e.index \in Nat /\ f.hash \in Nat
      BY DEF Uniq
    <3>7. CASE a.hash <= b.hash
      <4>1. merge[<<u, v>>] = <<a>> \o r
        BY <1>2, <3>2, <3>7, MergeStep
      <4>2. Before(a, b)
        <5>1. a.index < b.index
          BY <2>2, <2>3 DEF Mergeable
        <5> QED
          BY <2>1, <3>6, <3>7, <5>1 DEF Before
      <4>3. \A e \in Range(v) : Before(a, e)
        <5> HIDE DEF a, b, tu, tv
        <5> QED
          BY <2>1, <2>2, <3>1, <4>2, BeforeTransitive
      <4>4. \A e \in Range(r) : Before(a, e)
        BY <3>1, <3>5, <4>3
      <4> HIDE DEF r, a
      <4> QED
        BY <2>1, <3>4, <3>5, <4>1, <4>4, OrderedCons
    <3>8. CASE ~(a.hash <= b.hash)
      <4>1. merge[<<u, v>>] = <<b>> \o s
        BY <1>2, <3>2, <3>8, MergeStep
      <4>2. Before(b, a)
        BY <2>1, <3>6, <3>8 DEF Before
      <4>3. \A e \in Range(u) : Before(b, e)
        <5> HIDE DEF a, b, tu, tv
        <5> QED
          BY <2>1, <2>2, <3>1, <4>2, BeforeTransitive
      <4>4. \A e \in Range(s) : Before(b, e)
        BY <3>1, <3>5, <4>3
      <4> HIDE DEF s, b
      <4> QED
        BY <2>1, <3>4, <3>5, <4>1, <4>4, OrderedCons
    <3> QED
      BY <3>7, <3>8
  <2>4. <<u, v>> \in Pairs
    BY PairLenIs
  <2> QED
    BY <2>3, <2>4
<1>3. <<x, y>> \in T
  <2> HIDE DEF T
  <2> QED
    BY <1>1, <1>2, MergeInduction
<1> QED
  BY <1>3

(* A sequence whose indices increase is sorted into order.                 *)
LEMMA SortedOrdered ==
  ASSUME NEW x \in Seq(Uniq), Near(HashesIn(x)),
         \A i, j \in DOMAIN x : i < j => x[i].index < x[j].index
  PROVE  Ordered(sorted[x])
<1> DEFINE Rising(u) == \A i, j \in DOMAIN u : i < j => u[i].index < u[j].index
           T == {u \in Seq(Uniq) : Near(HashesIn(u)) /\ Rising(u) => Ordered(sorted[u])}
<1>1. ASSUME NEW u \in Seq(Uniq), Len(u) <= 1 PROVE u \in T
  <2>1. sorted[u] = u
    BY <1>1, SortedStep
  <2>2. Ordered(u)
    <3>1. \A i, j \in DOMAIN u : ~(i < j)
      BY <1>1
    <3> QED
      BY <3>1 DEF Ordered
  <2> QED
    BY <2>1, <2>2
<1>2. ASSUME NEW u \in Seq(Uniq), ~(Len(u) <= 1),
             SubSeq(u, 1, Len(u) \div 2) \in T,
             SubSeq(u, (Len(u) \div 2) + 1, Len(u)) \in T
      PROVE  u \in T
  <2> DEFINE l == SubSeq(u, 1, Len(u) \div 2)
             r == SubSeq(u, (Len(u) \div 2) + 1, Len(u))
             a == sorted[l]
             b == sorted[r]
  <2>1. sorted[u] = merge[<<a, b>>]
    BY <1>2, SortedStep
  <2>2. /\ l \in Seq(Uniq) /\ r \in Seq(Uniq)
        /\ Len(l) \in Nat /\ Len(r) \in Nat /\ Len(l) + Len(r) = Len(u)
        /\ \A i \in 1 .. Len(l) : l[i] = u[i]
        /\ \A i \in 1 .. Len(r) : r[i] = u[i + Len(l)]
        /\ Range(u) = Range(l) \cup Range(r)
    BY <1>2, HalvesAre
  <2>3. l \in T /\ r \in T
    BY <1>2
  <2> HIDE DEF l, r
  <2>4. DOMAIN u = 1 .. Len(u) /\ DOMAIN l = 1 .. Len(l) /\ DOMAIN r = 1 .. Len(r)
    BY <2>2
  <2>5. /\ a \in Seq(Uniq) /\ Range(a) = Range(l)
        /\ b \in Seq(Uniq) /\ Range(b) = Range(r)
    BY <2>2, SortedEntries
  <2>6. ASSUME Near(HashesIn(u)), Rising(u) PROVE Ordered(sorted[u])
    <3>1. Rising(l)
      <4> SUFFICES ASSUME NEW i \in DOMAIN l, NEW j \in DOMAIN l, i < j
                   PROVE  l[i].index < l[j].index
        OBVIOUS
      <4>1. i \in DOMAIN u /\ j \in DOMAIN u /\ l[i] = u[i] /\ l[j] = u[j]
        BY <2>2, <2>4
      <4> QED
        BY <2>6, <4>1
    <3>2. Rising(r)
      <4> SUFFICES ASSUME NEW i \in DOMAIN r, NEW j \in DOMAIN r, i < j
                   PROVE  r[i].index < r[j].index
        OBVIOUS
      <4>1. /\ i + Len(l) \in DOMAIN u /\ r[i] = u[i + Len(l)]
            /\ j + Len(l) \in DOMAIN u /\ r[j] = u[j + Len(l)]
            /\ i + Len(l) < j + Len(l)
        BY <2>2, <2>4
      <4> QED
        BY <2>6, <4>1
    <3>3. HashesIn(l) \cup HashesIn(r) = HashesIn(u)
      BY <2>2 DEF HashesIn
    <3>4. Near(HashesIn(l)) /\ Near(HashesIn(r))
      BY <2>6, <3>3 DEF Near
    <3>5. Ordered(a) /\ Ordered(b)
      BY <2>3, <3>1, <3>2, <3>4
    <3>6. \A e \in Range(l), f \in Range(r) : e.index < f.index
      <4> SUFFICES ASSUME NEW i \in DOMAIN l, NEW j \in DOMAIN r
                   PROVE  l[i].index < r[j].index
        BY DEF Range
      <4>1. /\ i \in DOMAIN u /\ l[i] = u[i]
            /\ j + Len(l) \in DOMAIN u /\ r[j] = u[j + Len(l)]
            /\ i < j + Len(l)
        BY <2>2, <2>4
      <4> QED
        BY <2>6, <4>1
    <3>7. HashesIn(a) = HashesIn(l) /\ HashesIn(b) = HashesIn(r)
      BY <2>5 DEF HashesIn
    <3> HIDE DEF a, b
    <3>8. Mergeable(a, b)
      BY <2>5, <2>6, <3>3, <3>5, <3>6, <3>7 DEF Mergeable
    <3> QED
      BY <2>1, <2>5, <3>8, MergeOrdered
  <2> QED
    BY <2>6
<1>3. x \in T
  <2> HIDE DEF T
  <2> QED
    BY <1>1, <1>2, SortInduction
<1> QED
  BY <1>3
-----------------------------------------------------------------------------
(* filter_unique and limit_traffic_unique *)

(* The function that InOrder computes with. *)
UpTo(S) == CHOOSE f : f = [i \in Nat |->
             IF i = 0 THEN <<>>
             ELSE IF i \in S THEN Append(f[i - 1], i) ELSE f[i - 1]]

(* The function behind InOrder exists. *)
LEMMA UpToDef ==
  ASSUME NEW S
  PROVE  UpTo(S) = [i \in Nat |->
             IF i = 0 THEN <<>>
             ELSE IF i \in S THEN Append(UpTo(S)[i - 1], i) ELSE UpTo(S)[i - 1]]
<1> DEFINE N == Nat
           T == Seq(Nat)
           D == [N -> T]
           Body(f, i) == IF i = 0 THEN <<>>
                         ELSE IF i \in S THEN Append(f[i - 1], i) ELSE f[i - 1]
           F == [f \in D |-> [i \in Nat |-> Body(f, i)]]
           m == [i \in Nat |-> i]
<1>1. <<>> \in Seq(Nat)
  OBVIOUS
<1>2. m \in [Nat -> Nat]
  OBVIOUS
<1>3. F \in [D -> D]
  <2> SUFFICES ASSUME NEW f \in D, NEW i \in Nat PROVE Body(f, i) \in Seq(Nat)
    OBVIOUS
  <2>1. CASE i = 0
    BY <2>1
  <2>2. CASE i # 0
    <3>1. f[i - 1] \in Seq(Nat)
      BY <2>2
    <3>2. Append(f[i - 1], i) \in Seq(Nat)
      BY <3>1
    <3> QED
      BY <2>2, <3>1, <3>2
  <2> QED
    BY <2>1, <2>2
<1>4. ASSUME NEW g \in D, NEW h \in D, NEW i \in Nat,
             \A j \in Nat : m[j] < m[i] => g[j] = h[j]
      PROVE  F[g][i] = F[h][i]
  <2>1. i = 0 \/ (i - 1 \in Nat /\ m[i - 1] < m[i])
    OBVIOUS
  <2>2. Body(g, i) = Body(h, i)
    BY <1>4, <2>1
  <2> QED
    BY <2>2
<1>5. Descends(N, T, m, F)
  BY <1>2, <1>3, <1>4 DEF Descends
<1>6. \E f \in D : f = F[f]
  <2>1. <<>> \in T
    BY <1>1
  <2> HIDE DEF F, m, T, N
  <2> QED
    BY <2>1, <1>5, FixedPoint
<1>7. \E f : f = [i \in Nat |-> Body(f, i)]
  BY <1>6
<1> QED
  BY <1>7 DEF UpTo

(* InOrder, one number further. *)
LEMMA InOrderStep ==
  ASSUME NEW S
  PROVE  /\ InOrder(S, 0) = <<>>
         /\ \A n \in Nat :
              InOrder(S, n + 1) = IF n + 1 \in S THEN Append(InOrder(S, n), n + 1)
                                                ELSE InOrder(S, n)
<1>1. \A n : InOrder(S, n) = UpTo(S)[n]
  BY DEF InOrder, UpTo
<1>2. UpTo(S) = [i \in Nat |->
             IF i = 0 THEN <<>>
             ELSE IF i \in S THEN Append(UpTo(S)[i - 1], i) ELSE UpTo(S)[i - 1]]
  BY UpToDef
<1> HIDE DEF UpTo
<1>3. UpTo(S)[0] = <<>>
  BY <1>2
<1>4. \A n \in Nat :
        UpTo(S)[n + 1] = IF n + 1 \in S THEN Append(UpTo(S)[n], n + 1) ELSE UpTo(S)[n]
  <2> SUFFICES ASSUME NEW n \in Nat
               PROVE  UpTo(S)[n + 1] = IF n + 1 \in S THEN Append(UpTo(S)[n], n + 1)
                                                      ELSE UpTo(S)[n]
    OBVIOUS
  <2>1. n + 1 \in Nat /\ n + 1 # 0 /\ (n + 1) - 1 = n
    OBVIOUS
  <2> QED
    BY <1>2, <2>1
<1> QED
  BY <1>1, <1>3, <1>4

(* InOrder(S, n): the members of S in 1 .. n, each once, increasing.       *)
LEMMA InOrderTypes == 
  ASSUME NEW S, NEW q \in Seq(S), NEW k \in S
  PROVE  /\ Append(q, k) \in Seq(S)
         /\ Len(Append(q, k)) = Len(q) + 1
         /\ \A i \in 1 .. Len(q) : Append(q, k)[i] = q[i]
         /\ Append(q, k)[Len(q) + 1] = k
         /\ DOMAIN Append(q, k) = 1 .. Len(q) + 1
         /\ DOMAIN q = 1 .. Len(q)
         /\ Len(q) \in Nat
OBVIOUS

(* InOrder has the members of S up to n, each of them, and ascending. *)
LEMMA InOrderIs ==
  ASSUME NEW S, NEW n \in Nat
  PROVE  /\ InOrder(S, n) \in Seq(S \cap 1 .. n)
         /\ Len(InOrder(S, n)) <= n
         /\ \A k \in S \cap 1 .. n : \E i \in DOMAIN InOrder(S, n) : InOrder(S, n)[i] = k
         /\ \A i, j \in DOMAIN InOrder(S, n) :
              i < j => InOrder(S, n)[i] < InOrder(S, n)[j]
<1> DEFINE Good(k) ==
             /\ InOrder(S, k) \in Seq(S \cap 1 .. k)
             /\ Len(InOrder(S, k)) <= k
             /\ \A l \in S \cap 1 .. k : \E i \in DOMAIN InOrder(S, k) : InOrder(S, k)[i] = l
             /\ \A i, j \in DOMAIN InOrder(S, k) :
                  i < j => InOrder(S, k)[i] < InOrder(S, k)[j]
           T == {k \in Nat : Good(k)}
<1>1. 0 \in T
  <2>1. InOrder(S, 0) = <<>> /\ S \cap 1 .. 0 = {}
    BY InOrderStep
  <2>2. <<>> \in Seq(S \cap 1 .. 0) /\ Len(<<>>) = 0 /\ DOMAIN <<>> = {}
    OBVIOUS
  <2> DEFINE q == InOrder(S, 0)
  <2>a. q = <<>>
    BY <2>1
  <2> HIDE DEF q
  <2>3. q \in Seq(S \cap 1 .. 0) /\ Len(q) <= 0 /\ DOMAIN q = {}
    <3>1. q \in Seq(S \cap 1 .. 0)
      BY <2>a, <2>2
    <3>2. Len(q) = 0
      BY <2>a, <2>2
    <3>3. DOMAIN q = {}
      BY <2>a, <2>2
    <3> QED
      BY <3>1, <3>2, <3>3
  <2>4. \A l \in S \cap 1 .. 0 : \E i \in DOMAIN q : q[i] = l
    BY <2>1
  <2>5. \A i, j \in DOMAIN q : i < j => q[i] < q[j]
    BY <2>3
  <2> QED
    BY <2>3, <2>4, <2>5 DEF q
<1>2. \A k \in T : k + 1 \in T
  <2> SUFFICES ASSUME NEW k \in Nat, Good(k) PROVE Good(k + 1)
    OBVIOUS
  <2> DEFINE q == InOrder(S, k)
             r == InOrder(S, k + 1)
  <2>1. r = IF k + 1 \in S THEN Append(q, k + 1) ELSE q
    BY InOrderStep
  <2>2. CASE k + 1 \notin S
    <3>1. r = q
      BY <2>1, <2>2
    <3>2. S \cap 1 .. k + 1 = S \cap 1 .. k
      BY <2>2
    <3> QED
      BY <3>1, <3>2
  <2>3. CASE k + 1 \in S
    <3>1. r = Append(q, k + 1)
      BY <2>1, <2>3
    <3>a. S \cap 1 .. k + 1 = (S \cap 1 .. k) \cup {k + 1}
      BY <2>3
    <3>b. q \in Seq(S \cap 1 .. k + 1)
      BY <3>a
    <3>2. /\ r \in Seq(S \cap 1 .. k + 1)
          /\ Len(r) = Len(q) + 1
          /\ \A i \in 1 .. Len(q) : r[i] = q[i]
          /\ r[Len(q) + 1] = k + 1
          /\ DOMAIN r = 1 .. Len(q) + 1
          /\ DOMAIN q = 1 .. Len(q)
          /\ Len(q) \in Nat
      <4>1. k + 1 \in S \cap 1 .. k + 1
        BY <3>a
      <4> HIDE DEF q, r
      <4> QED
        BY <3>1, <3>b, <4>1, InOrderTypes
    <3>3. \A i \in DOMAIN q : q[i] \in 1 .. k
      OBVIOUS
    <3> HIDE DEF q, r
    <3>4. Len(r) <= k + 1
      BY <3>2 DEF q
    <3>5. \A l \in S \cap 1 .. k + 1 : \E i \in DOMAIN r : r[i] = l
      <4> SUFFICES ASSUME NEW l \in S \cap 1 .. k + 1 PROVE \E i \in DOMAIN r : r[i] = l
        OBVIOUS
      <4>1. CASE l = k + 1
        BY <3>2, <4>1, Len(q) + 1 \in DOMAIN r
      <4>2. CASE l # k + 1
        <5>1. PICK i \in DOMAIN q : q[i] = l
          BY <4>2 DEF q
        <5> QED
          BY <3>2, <5>1
      <4> QED
        BY <4>1, <4>2
    <3>6. \A i, j \in DOMAIN r : i < j => r[i] < r[j]
      <4> SUFFICES ASSUME NEW i \in DOMAIN r, NEW j \in DOMAIN r, i < j
                   PROVE  r[i] < r[j]
        OBVIOUS
      <4>1. i \in DOMAIN q /\ r[i] = q[i]
        BY <3>2
      <4>2. CASE j = Len(q) + 1
        BY <3>2, <3>3, <4>1, <4>2
      <4>3. CASE j # Len(q) + 1
        <5>1. j \in DOMAIN q /\ r[j] = q[j]
          BY <3>2, <4>3
        <5> QED
          BY <4>1, <5>1 DEF q
      <4> QED
        BY <4>2, <4>3
    <3> QED
      BY <3>2, <3>4, <3>5, <3>6 DEF r
  <2> QED
    BY <2>2, <2>3
<1>3. T = Nat
  <2> HIDE DEF T
  <2>1. T \in SUBSET Nat
    BY DEF T
  <2> QED
    BY <1>1, <1>2, <2>1, InductionNat
<1>4. n \in T
  <2> HIDE DEF T
  <2> QED BY <1>3
<1> QED
  BY <1>4

(* If all are chosen, there is none that is not in S.                      *)
LEMMA InOrderAll ==
  ASSUME NEW S, NEW n \in Nat, Len(InOrder(S, n)) = n
  PROVE  1 .. n \subseteq S
<1> DEFINE T == {k \in Nat : Len(InOrder(S, k)) = k => 1 .. k \subseteq S}
<1>1. 0 \in T
  OBVIOUS
<1>2. ASSUME NEW k \in T PROVE k + 1 \in T
  <2>1. k \in Nat /\ Len(InOrder(S, k)) <= k
    BY InOrderIs
  <2>2. /\ InOrder(S, k) \in Seq(S \cap 1 .. k)
        /\ InOrder(S, k + 1) = IF k + 1 \in S THEN Append(InOrder(S, k), k + 1)
                                                ELSE InOrder(S, k)
    BY <2>1, InOrderIs, InOrderStep
  <2> DEFINE q == InOrder(S, k)
             r == InOrder(S, k + 1)
  <2>3. Len(q) \in Nat /\ Len(Append(q, k + 1)) = Len(q) + 1
    BY <2>2
  <2>4. ASSUME Len(r) = k + 1 PROVE 1 .. k + 1 \subseteq S
    <3> HIDE DEF q, r
    <3>a. Len(q) <= k /\ k \in Nat /\ Len(q) \in Nat
      BY <2>1, <2>3 DEF q
    <3>b. r = IF k + 1 \in S THEN Append(q, k + 1) ELSE q
      BY <2>2 DEF q, r
    <3>c. k + 1 \in S
      BY <3>a, <3>b, <2>4
    <3>d. Len(q) + 1 = k + 1
      BY <2>3, <2>4, <3>b, <3>c
    <3>1. k + 1 \in S /\ Len(q) = k
      BY <3>a, <3>c, <3>d
    <3>2. 1 .. k \subseteq S
      BY <3>1 DEF q
    <3> QED
      BY <2>1, <3>1, <3>2
  <2> QED
    BY <2>1, <2>4
<1>3. n \in T
  <2> HIDE DEF T
  <2>1. T \in SUBSET Nat
    BY DEF T
  <2>2. T = Nat
    BY <1>1, <1>2, <2>1, InductionNat
  <2> QED
    BY <2>2
<1> QED
  BY <1>3
-----------------------------------------------------------------------------
(* What filter_unique and limit_traffic_unique make of an array.           *)

HashOf(s, i) == Hash[Text(s[i])]

(* What a sequence of hashes and indices holds. *)
LEMMA UniqSeqIs ==
  ASSUME NEW q \in Seq(Uniq)
  PROVE  /\ DOMAIN q = 1 .. Len(q) /\ Len(q) \in Nat
         /\ \A i \in DOMAIN q : q[i].hash \in Nat /\ q[i].index \in Nat
<1>1. \A a \in Uniq : a.hash \in Nat /\ a.index \in Nat
  BY DEF Uniq
<1>2. \A i \in DOMAIN q : q[i] \in Uniq
  OBVIOUS
<1>3. DOMAIN q = 1 .. Len(q) /\ Len(q) \in Nat
  OBVIOUS
<1> QED
  BY <1>1, <1>2, <1>3

(* The sorted entries are those of the array.                              *)
LEMMA SortedUniqs ==
  ASSUME NEW S, NEW s \in Seq(S), \A i \in DOMAIN s : HashOf(s, i) \in Nat
  PROVE  LET q == qsort(uniqs(s))
         IN  /\ q \in Seq(Uniq) /\ Len(q) = Len(s) /\ DOMAIN q = 1 .. Len(s)
             /\ DOMAIN s = 1 .. Len(s) /\ Len(s) \in Nat
             /\ \A n \in DOMAIN q : /\ q[n].index \in DOMAIN s
                                    /\ q[n].hash = HashOf(s, q[n].index)
             /\ \A i \in DOMAIN s : \E n \in DOMAIN q : q[n].index = i
             /\ Near({HashOf(s, i) : i \in DOMAIN s}) => Ordered(q)
<1> DEFINE u == uniqs(s)
           q == qsort(u)
<1>1. Len(s) \in Nat /\ DOMAIN s = 1 .. Len(s)
  OBVIOUS
<1>2. u = [i \in 1 .. Len(s) |-> [hash |-> HashOf(s, i), index |-> i]]
  BY <1>1 DEF uniqs, HashOf
<1>3. \A i \in 1 .. Len(s) : [hash |-> HashOf(s, i), index |-> i] \in Uniq
  BY <1>1 DEF Uniq
<1>4. u \in Seq(Uniq) /\ Len(u) = Len(s) /\ DOMAIN u = 1 .. Len(s)
  <2> HIDE DEF u
  <2>1. u \in [1 .. Len(s) -> Uniq]
    BY <1>2, <1>3
  <2> QED
    BY <1>1, <1>2, <2>1
<1>5. \A i \in 1 .. Len(s) : u[i].hash = HashOf(s, i) /\ u[i].index = i
  BY <1>2
<1>6. q = sorted[u]
  BY DEF qsort
<1> HIDE DEF u, q
<1>7. q \in Seq(Uniq) /\ Len(q) = Len(s) /\ Range(q) = Range(u)
  BY <1>4, <1>6, SortedEntries
<1>8. DOMAIN q = 1 .. Len(s)
  BY <1>7
<1>9. ASSUME NEW n \in DOMAIN q
      PROVE  q[n].index \in DOMAIN s /\ q[n].hash = HashOf(s, q[n].index)
  <2>1. q[n] \in Range(u)
    BY <1>7 DEF Range
  <2>2. PICK i \in 1 .. Len(s) : q[n] = u[i]
    BY <1>4, <2>1 DEF Range
  <2> QED
    BY <1>1, <1>5, <2>2
<1>10. ASSUME NEW i \in DOMAIN s PROVE \E n \in DOMAIN q : q[n].index = i
  <2>1. u[i] \in Range(q)
    BY <1>1, <1>4, <1>7 DEF Range
  <2>2. PICK n \in DOMAIN q : q[n] = u[i]
    BY <2>1 DEF Range
  <2> QED
    BY <1>1, <1>5, <2>2
<1>11. ASSUME Near({HashOf(s, i) : i \in DOMAIN s}) PROVE Ordered(q)
  <2>1. HashesIn(u) = {HashOf(s, i) : i \in DOMAIN s}
    <3>1. Range(u) = {u[i] : i \in 1 .. Len(s)}
      BY <1>4 DEF Range
    <3> QED
      BY <1>1, <1>5, <3>1 DEF HashesIn
  <2>2. \A i, j \in DOMAIN u : i < j => u[i].index < u[j].index
    BY <1>4, <1>5
  <2>3. Near(HashesIn(u))
    BY <1>11, <2>1
  <2> QED
    BY <1>4, <1>6, <2>2, <2>3, SortedOrdered
<1> QED
  BY <1>1, <1>7, <1>8, <1>9, <1>10, <1>11 DEF u, q

(* Where the kept entries come from.                                       *)
LEMMA KeptIs ==
  ASSUME NEW S, NEW s \in Seq(S), \A i \in DOMAIN s : HashOf(s, i) \in Nat
  PROVE  LET q == qsort(uniqs(s))
             index == InOrder(Changes(q), Len(s))
         IN  /\ Kept(s) \in Seq(S) /\ Len(Kept(s)) <= Len(s)
             /\ DOMAIN Kept(s) = DOMAIN index /\ Len(Kept(s)) = Len(index)
             /\ \A j \in DOMAIN index :
                  /\ index[j] \in DOMAIN q /\ index[j] \in Changes(q)
                  /\ Kept(s)[j] = s[q[index[j]].index]
                  /\ HashOf(Kept(s), j) = q[index[j]].hash
             /\ \A n \in Changes(q) : \E j \in DOMAIN index : index[j] = n
             /\ \A i, j \in DOMAIN index : i < j => index[i] < index[j]
<1> DEFINE q == qsort(uniqs(s))
           index == InOrder(Changes(q), Len(s))
           k == Kept(s)
<1>1. /\ q \in Seq(Uniq) /\ Len(q) = Len(s) /\ DOMAIN q = 1 .. Len(s)
      /\ DOMAIN s = 1 .. Len(s) /\ Len(s) \in Nat
      /\ \A n \in DOMAIN q : /\ q[n].index \in DOMAIN s
                             /\ q[n].hash = HashOf(s, q[n].index)
  BY SortedUniqs
<1>2. k = [j \in DOMAIN index |-> s[q[index[j]].index]]
  BY <1>1 DEF Kept
<1> HIDE DEF q, k
<1>3. Changes(q) \subseteq 1 .. Len(s)
  BY <1>1 DEF Changes
<1>4. /\ index \in Seq(Changes(q) \cap 1 .. Len(s))
      /\ Len(index) <= Len(s)
      /\ \A n \in Changes(q) \cap 1 .. Len(s) : \E j \in DOMAIN index : index[j] = n
      /\ \A i, j \in DOMAIN index : i < j => index[i] < index[j]
  BY <1>1, InOrderIs
<1> HIDE DEF index
<1>5. \A j \in DOMAIN index : index[j] \in DOMAIN q /\ index[j] \in Changes(q)
  BY <1>1, <1>4
<1>6. DOMAIN index = 1 .. Len(index) /\ Len(index) \in Nat
  BY <1>4
<1>7. \A j \in DOMAIN index : k[j] = s[q[index[j]].index] /\ k[j] \in S
  BY <1>1, <1>2, <1>5
<1>8. k \in Seq(S) /\ Len(k) = Len(index) /\ DOMAIN k = DOMAIN index
  <2>1. k \in [1 .. Len(index) -> S]
    BY <1>2, <1>6, <1>7
  <2> QED
    BY <1>6, <2>1
<1>9. \A j \in DOMAIN index : HashOf(k, j) = q[index[j]].hash
  BY <1>1, <1>5, <1>7 DEF HashOf
<1>10. \A n \in Changes(q) : \E j \in DOMAIN index : index[j] = n
  BY <1>3, <1>4
<1> QED
  BY <1>4, <1>5, <1>7, <1>8, <1>9, <1>10 DEF q, index, k

(* No hash is lost, 0 excepted.                                            *)
LEMMA KeptHashes ==
  ASSUME NEW S, NEW s \in Seq(S), \A i \in DOMAIN s : HashOf(s, i) \in Nat,
         NEW i \in DOMAIN s, HashOf(s, i) # 0
  PROVE  \E j \in DOMAIN Kept(s) : HashOf(Kept(s), j) = HashOf(s, i)
<1> DEFINE q == qsort(uniqs(s))
           index == InOrder(Changes(q), Len(s))
           h == HashOf(s, i)
<1>1. /\ DOMAIN q = 1 .. Len(s) /\ Len(s) \in Nat
      /\ \A n \in DOMAIN q : q[n].hash = HashOf(s, q[n].index)
      /\ \E n \in DOMAIN q : q[n].index = i
  BY SortedUniqs
<1>2. /\ DOMAIN Kept(s) = DOMAIN index
      /\ \A j \in DOMAIN index : HashOf(Kept(s), j) = q[index[j]].hash
      /\ \A n \in Changes(q) : \E j \in DOMAIN index : index[j] = n
  BY KeptIs
<1> HIDE DEF q, index
<1>3. PICK n \in DOMAIN q : q[n].hash = h
  BY <1>1
<1> HIDE DEF h
<1> DEFINE T == {m \in 1 .. n : \A l \in m .. n : q[l].hash = h}
<1>4. n \in T /\ T \in SUBSET Nat
  BY <1>1, <1>3
<1>5. PICK m \in T : \A l \in T : m <= l
  <2> HIDE DEF T
  <2> QED
    BY <1>4, LeastNat
<1>6. m \in DOMAIN q /\ q[m].hash = h /\ m \in Nat /\ n \in Nat
  BY <1>1, <1>3, <1>5
<1>7. m \in Changes(q)
  <2>1. CASE m = 1
    BY <1>6, <2>1 DEF Changes, h
  <2>2. CASE m # 1
    <3>1. m - 1 \in 1 .. n /\ ~(m <= m - 1)
      BY <1>5, <1>6, <2>2
    <3>2. m - 1 \notin T
      BY <1>5, <3>1
    <3>3. PICK l \in m - 1 .. n : q[l].hash # h
      BY <3>1, <3>2
    <3>4. l = m - 1
      BY <1>5, <1>6, <3>3
    <3> QED
      BY <1>6, <2>2, <3>3, <3>4 DEF Changes
  <2> QED
    BY <2>1, <2>2
<1>8. PICK j \in DOMAIN index : index[j] = m
  BY <1>2, <1>7
<1> QED
  BY <1>2, <1>6, <1>8 DEF h

(* Between two changes of an ordered array the hash grows.                 *)
LEMMA ChangesGrow ==
  ASSUME NEW q \in Seq(Uniq), Ordered(q),
         NEW m \in DOMAIN q, NEW n \in Changes(q), m < n
  PROVE  q[m].hash < q[n].hash
<1>1. /\ DOMAIN q = 1 .. Len(q) /\ Len(q) \in Nat /\ n \in DOMAIN q
      /\ \A i \in DOMAIN q : q[i].hash \in Nat
  BY UniqSeqIs DEF Changes
<1>2. n # 1 /\ n - 1 \in DOMAIN q /\ n - 1 < n /\ (m < n - 1 \/ m = n - 1)
  BY <1>1
<1>3. q[n].hash # q[n - 1].hash
  BY <1>2 DEF Changes
<1>4. Before(q[n - 1], q[n])
  BY <1>1, <1>2 DEF Ordered
<1>5. q[n - 1].hash < q[n].hash
  BY <1>3, <1>4 DEF Before
<1>6. m = n - 1 \/ Before(q[m], q[n - 1])
  BY <1>2 DEF Ordered
<1>7. q[m].hash <= q[n - 1].hash
  BY <1>1, <1>2, <1>6 DEF Before
<1> QED
  BY <1>1, <1>2, <1>5, <1>7

(* No two kept entries have the same hash.                                 *)
LEMMA KeptDistinct ==
  ASSUME NEW S, NEW s \in Seq(S), \A i \in DOMAIN s : HashOf(s, i) \in Nat,
         Near({HashOf(s, i) : i \in DOMAIN s}),
         NEW i \in DOMAIN Kept(s), NEW j \in DOMAIN Kept(s), i # j
  PROVE  HashOf(Kept(s), i) # HashOf(Kept(s), j)
<1> DEFINE q == qsort(uniqs(s))
           index == InOrder(Changes(q), Len(s))
<1>1. q \in Seq(Uniq) /\ Ordered(q)
  BY SortedUniqs
<1>2. /\ Kept(s) \in Seq(S) /\ DOMAIN Kept(s) = DOMAIN index
      /\ \A l \in DOMAIN index :
           /\ index[l] \in DOMAIN q /\ index[l] \in Changes(q)
           /\ HashOf(Kept(s), l) = q[index[l]].hash
      /\ \A l, m \in DOMAIN index : l < m => index[l] < index[m]
  BY KeptIs
<1> HIDE DEF q, index
<1>3. i \in Nat /\ j \in Nat
  BY <1>2
<1>4. \A n \in DOMAIN q : q[n].hash \in Nat
  BY <1>1, UniqSeqIs
<1>5. CASE i < j
  <2>1. q[index[i]].hash < q[index[j]].hash
    BY <1>1, <1>2, <1>5, ChangesGrow
  <2> QED
    BY <1>2, <1>4, <2>1
<1>6. CASE j < i
  <2>1. q[index[j]].hash < q[index[i]].hash
    BY <1>1, <1>2, <1>6, ChangesGrow
  <2> QED
    BY <1>2, <1>4, <2>1
<1> QED
  BY <1>3, <1>5, <1>6

(* Each kept entry is the first of its hash.                               *)
LEMMA KeptFirst ==
  ASSUME NEW S, NEW s \in Seq(S), \A i \in DOMAIN s : HashOf(s, i) \in Nat,
         Near({HashOf(s, i) : i \in DOMAIN s}),
         NEW j \in DOMAIN Kept(s)
  PROVE  \E n \in DOMAIN s :
           Kept(s)[j] = s[n] /\ \A k \in 1 .. n - 1 : HashOf(s, k) # HashOf(s, n)
<1> DEFINE q == qsort(uniqs(s))
           index == InOrder(Changes(q), Len(s))
<1>1. /\ q \in Seq(Uniq) /\ Ordered(q)
      /\ DOMAIN s = 1 .. Len(s) /\ Len(s) \in Nat /\ DOMAIN q = 1 .. Len(s)
      /\ \A n \in DOMAIN q : /\ q[n].index \in DOMAIN s
                             /\ q[n].hash = HashOf(s, q[n].index)
      /\ \A i \in DOMAIN s : \E n \in DOMAIN q : q[n].index = i
  BY SortedUniqs
<1>2. /\ DOMAIN Kept(s) = DOMAIN index
      /\ \A l \in DOMAIN index :
           /\ index[l] \in DOMAIN q /\ index[l] \in Changes(q)
           /\ Kept(s)[l] = s[q[index[l]].index]
  BY KeptIs
<1> HIDE DEF q, index
<1> DEFINE m == index[j]
           n == q[m].index
<1>3. m \in DOMAIN q /\ m \in Changes(q) /\ n \in DOMAIN s /\ Kept(s)[j] = s[n]
  BY <1>1, <1>2
<1> HIDE DEF m
<1>d. /\ DOMAIN s = 1 .. Len(s) /\ Len(s) \in Nat
      /\ \A i \in DOMAIN q : i \in Nat
  BY <1>1
<1>4. ASSUME NEW k \in 1 .. n - 1, HashOf(s, k) = HashOf(s, n) PROVE FALSE
  <2> HIDE DEF n
  <2>1. k \in DOMAIN s /\ k < n /\ k \in Nat /\ n \in Nat
    <3>1. n \in 1 .. Len(s) /\ Len(s) \in Nat
      BY <1>d, <1>3 DEF n
    <3>2. k \in 1 .. n - 1
      BY DEF n
    <3>3. k \in 1 .. Len(s) /\ k < n /\ k \in Nat /\ n \in Nat
      BY <3>1, <3>2
    <3> QED
      BY <1>d, <3>3
  <2>2. PICK l \in DOMAIN q : q[l].index = k
    BY <1>1, <2>1
  <2>3. q[l].hash = q[m].hash /\ q[m].index = n
    <3>1. q[m].index = n
      BY DEF n
    <3>2. q[l].hash = HashOf(s, k) /\ q[m].hash = HashOf(s, n)
      BY <1>1, <1>3, <2>2, <3>1
    <3> QED
      BY <1>4, <3>1, <3>2
  <2>4. l \in Nat /\ m \in Nat /\ l # m
    <3>1. q[l].index # q[m].index
      BY <2>1, <2>2 DEF n
    <3>2. l \in Nat /\ m \in Nat
      BY <1>d, <1>3
    <3> QED
      BY <3>1, <3>2
  <2>5. q[m].hash \in Nat
    BY <1>1, <1>3, UniqSeqIs
  <2>6. CASE l < m
    <3>1. q[l].hash < q[m].hash
      BY <1>1, <1>3, <2>6, ChangesGrow
    <3> QED
      BY <2>3, <2>5, <3>1
  <2>7. CASE m < l
    <3>1. Before(q[m], q[l])
      BY <1>1, <1>3, <2>7 DEF Ordered
    <3> QED
      BY <2>1, <2>2, <2>3, <2>5, <3>1 DEF Before
  <2> QED
    BY <2>4, <2>6, <2>7
<1> QED
  BY <1>3, <1>4

(* If all are kept, no two have the same hash.                             *)
LEMMA AllKept ==
  ASSUME NEW S, NEW s \in Seq(S), \A i \in DOMAIN s : HashOf(s, i) \in Nat,
         Near({HashOf(s, i) : i \in DOMAIN s}), Len(Kept(s)) = Len(s),
         NEW i \in DOMAIN s, NEW j \in DOMAIN s, HashOf(s, i) = HashOf(s, j)
  PROVE  i = j
<1> DEFINE q == qsort(uniqs(s))
           index == InOrder(Changes(q), Len(s))
<1>1. /\ q \in Seq(Uniq) /\ Ordered(q)
      /\ DOMAIN s = 1 .. Len(s) /\ Len(s) \in Nat /\ DOMAIN q = 1 .. Len(s)
      /\ \A n \in DOMAIN q : q[n].hash = HashOf(s, q[n].index)
      /\ \A l \in DOMAIN s : \E n \in DOMAIN q : q[n].index = l
  BY SortedUniqs
<1>2. Len(index) = Len(s)
  BY KeptIs
<1> HIDE DEF q
<1>3. 1 .. Len(s) \subseteq Changes(q)
  BY <1>1, <1>2, InOrderAll
<1>4. PICK a \in DOMAIN q : q[a].index = i
  BY <1>1
<1>5. PICK b \in DOMAIN q : q[b].index = j
  BY <1>1
<1>6. q[a].hash = q[b].hash /\ q[a].hash \in Nat /\ a \in Nat /\ b \in Nat
  <2>1. q[a].hash = q[b].hash
    BY <1>1, <1>4, <1>5
  <2>2. q[a].hash \in Nat
    BY <1>1, UniqSeqIs
  <2>3. a \in Nat /\ b \in Nat
    <3>1. DOMAIN q = 1 .. Len(q) /\ Len(q) \in Nat
      BY <1>1, UniqSeqIs
    <3>2. a \in 1 .. Len(q) /\ b \in 1 .. Len(q)
      BY <3>1
    <3> HIDE DEF index
    <3> QED
      BY <3>1, <3>2
  <2> QED
    BY <2>1, <2>2, <2>3
<1>7. a \in Changes(q) /\ b \in Changes(q)
  BY <1>1, <1>3
<1>8. ~(a < b) /\ ~(b < a)
  <2>1. a < b => q[a].hash < q[b].hash
    BY <1>1, <1>7, ChangesGrow
  <2>2. b < a => q[b].hash < q[a].hash
    BY <1>1, <1>7, ChangesGrow
  <2> QED
    BY <1>6, <2>1, <2>2
<1>9. a = b
  BY <1>6, <1>8
<1> QED
  BY <1>4, <1>5, <1>9
-----------------------------------------------------------------------------
(* The lines of a file *)

(* The facts about the files that the proofs use. *)
LEMMA FileIs ==
  ASSUME NEW f \in Files
  PROVE  /\ DOMAIN f = 1 .. Len(f) /\ Len(f) \in Nat
         /\ \A i \in DOMAIN f :
              /\ f[i].block \in Blocks
              /\ IsFlag(f[i]) => f[i].flag \in Flags /\ f[i].value \in {"on", "off"}
              /\ ~IsFlag(f[i]) => /\ f[i].array \in Arrays /\ f[i].key \in Seq(Chars)
                                  /\ Hash[Text(Resolved(f[i]))] \in 0 .. W - 1
         /\ \A i, j \in DOMAIN f :
              IsFlag(f[i]) /\ IsFlag(f[j]) /\ f[i].block = f[j].block
                /\ f[i].flag = f[j].flag => i = j
<1>1. f \in Seq(Range(f))
  BY ConfAssumption
<1>2. DOMAIN f = 1 .. Len(f) /\ Len(f) \in Nat
  BY <1>1
<1> QED
  BY <1>2, ConfAssumption

(* What can stand in array a. *)
Entries(a) == Directives(file, a)

(* What the lines up to n have pushed onto an array. *)
LEMMA PushedIs ==
  ASSUME file \in Files, NEW b \in Blocks, NEW a \in Arrays, NEW n \in 0 .. Len(file)
  PROVE  /\ Pushed(b, a, n) \in Seq(Entries(a))
         /\ DOMAIN Pushed(b, a, n) = DOMAIN InOrder(Lines(b, a), n)
         /\ \A i \in DOMAIN Pushed(b, a, n) :
              /\ InOrder(Lines(b, a), n)[i] \in Lines(b, a)
              /\ Pushed(b, a, n)[i] = Resolved(file[InOrder(Lines(b, a), n)[i]])
              /\ HashOf(Pushed(b, a, n), i) \in 0 .. W - 1
<1> DEFINE index == InOrder(Lines(b, a), n)
           p == Pushed(b, a, n)
<1>1. n \in Nat
  BY FileIs
<1>2. index \in Seq(Lines(b, a) \cap 1 .. n)
  BY <1>1, InOrderIs
<1>3. p = [i \in DOMAIN index |-> Resolved(file[index[i]])]
  BY DEF Pushed
<1> HIDE DEF index, p
<1>4. \A i \in DOMAIN index : index[i] \in Lines(b, a)
  BY <1>2
<1>5. \A k \in Lines(b, a) : /\ Resolved(file[k]) \in Entries(a)
                             /\ Hash[Text(Resolved(file[k]))] \in 0 .. W - 1
  BY FileIs DEF Lines, Entries, Directives, Range
<1>6. DOMAIN index = 1 .. Len(index) /\ Len(index) \in Nat
  BY <1>2
<1>7. \A i \in DOMAIN index : p[i] = Resolved(file[index[i]]) /\ p[i] \in Entries(a)
  BY <1>3, <1>4, <1>5
<1>8. p \in Seq(Entries(a))
  <2>1. p \in [1 .. Len(index) -> Entries(a)]
    BY <1>3, <1>6, <1>7
  <2> QED
    BY <1>6, <2>1
<1>9. \A i \in DOMAIN index : HashOf(p, i) \in 0 .. W - 1
  BY <1>4, <1>5, <1>7 DEF HashOf
<1> QED
  BY <1>3, <1>4, <1>7, <1>8, <1>9 DEF p, index

(* A line is pushed onto the array of its block, and onto no other.        *)
LEMMA PushedStep ==
  ASSUME file \in Files, NEW b \in Blocks, NEW a \in Arrays, NEW n \in Nat
  PROVE  /\ Pushed(b, a, 0) = <<>>
         /\ n + 1 \in Lines(b, a) =>
              Pushed(b, a, n + 1) = Append(Pushed(b, a, n), Resolved(file[n + 1]))
         /\ n + 1 \notin Lines(b, a) => Pushed(b, a, n + 1) = Pushed(b, a, n)
<1> DEFINE index(m) == InOrder(Lines(b, a), m)
<1>1. \A m : Pushed(b, a, m) = [i \in DOMAIN index(m) |-> Resolved(file[index(m)[i]])]
  BY DEF Pushed
<1>2. index(0) = <<>>
  BY InOrderStep
<1>3. Pushed(b, a, 0) = <<>>
  BY <1>1, <1>2
<1>4. index(n + 1) = IF n + 1 \in Lines(b, a) THEN Append(index(n), n + 1) ELSE index(n)
  BY InOrderStep
<1>5. index(n) \in Seq(Nat)
  <2>1. index(n) \in Seq(Lines(b, a) \cap 1 .. n)
    BY InOrderIs
  <2> QED
    BY <2>1
<1> DEFINE q == index(n)
           r == index(n + 1)
<1>6. ASSUME n + 1 \in Lines(b, a)
      PROVE  Pushed(b, a, n + 1) = Append(Pushed(b, a, n), Resolved(file[n + 1]))
  <2>1. r = Append(q, n + 1) /\ q \in Seq(Nat)
    BY <1>4, <1>5, <1>6
  <2>2. /\ Len(q) \in Nat /\ DOMAIN q = 1 .. Len(q) /\ DOMAIN r = 1 .. Len(q) + 1
        /\ \A i \in 1 .. Len(q) : r[i] = q[i]
        /\ r[Len(q) + 1] = n + 1
    BY <2>1
  <2> DEFINE v == Pushed(b, a, n)
             w == Pushed(b, a, n + 1)
  <2>3. /\ v = [i \in DOMAIN q |-> Resolved(file[q[i]])]
        /\ w = [i \in DOMAIN r |-> Resolved(file[r[i]])]
    BY <1>1
  <2> HIDE DEF q, r, v, w
  <2>4. v \in Seq({v[i] : i \in DOMAIN q}) /\ Len(v) = Len(q)
    BY <2>2, <2>3
  <2>5. Append(v, Resolved(file[n + 1])) =
          [i \in 1 .. Len(q) + 1 |-> IF i = Len(q) + 1 THEN Resolved(file[n + 1]) ELSE v[i]]
    BY <2>2, <2>4
  <2>6. w = [i \in 1 .. Len(q) + 1 |-> IF i = Len(q) + 1 THEN Resolved(file[n + 1]) ELSE v[i]]
    BY <2>2, <2>3
  <2> QED
    BY <2>5, <2>6 DEF v, w
<1>7. ASSUME n + 1 \notin Lines(b, a) PROVE Pushed(b, a, n + 1) = Pushed(b, a, n)
  <2>1. r = q
    BY <1>4, <1>7
  <2> HIDE DEF q, r
  <2> QED
    BY <1>1, <2>1 DEF q, r
<1> QED
  BY <1>3, <1>6, <1>7

(* unique keeps the type, and is not empty unless the loading faults.      *)
LEMMA UniqueIs ==
  ASSUME NEW S, NEW s \in Seq(S), \A i \in DOMAIN s : HashOf(s, i) \in Nat
  PROVE  /\ unique(s) \in Seq(S)
         /\ s # <<>> /\ ~Faults(s) => unique(s) # <<>>
<1>1. Kept(s) \in Seq(S)
  BY KeptIs
<1> QED
  BY <1>1 DEF unique, Faults
-----------------------------------------------------------------------------
(* The invariant *)

(* The invariant and its parts. *)
LEMMA ConfInvParts ==
  ConfInv <=> /\ ConfTypeOK /\ FlagInv /\ ArrayInv
              /\ stage # "parse" => read = Len(file)
BY DEF ConfInv, FlagInv, ArrayInv

(* The same after a step. *)
LEMMA ConfInvPartsNext ==
  ConfInv' <=> /\ ConfTypeOK' /\ FlagInv' /\ ArrayInv'
               /\ stage' # "parse" => read' = Len(file')
BY DEF ConfInv, FlagInv, ArrayInv

(* What the lines say does not change.                                     *)
LEMMA FileFixed ==
  ASSUME file' = file
  PROVE  /\ \A b, f : FlagLines(b, f)' = FlagLines(b, f)
         /\ \A b, f : Enabled(b, f)' = Enabled(b, f)
         /\ \A b, a : Lines(b, a)' = Lines(b, a)
         /\ \A a : Entries(a)' = Entries(a)
         /\ \A b, a, n : Pushed(b, a, n)' = Pushed(b, a, n)
         /\ \A b, a : Given(b, a)' = Given(b, a)
         /\ \A b, a : Own(b, a)' = Own(b, a)
<1>1. \A b, f : FlagLines(b, f)' = FlagLines(b, f)
  BY DEF FlagLines
<1>2. \A b, f : Enabled(b, f)' = Enabled(b, f)
  BY <1>1 DEF Enabled
<1>3. \A b, a : Lines(b, a)' = Lines(b, a)
  BY DEF Lines
<1>4. \A a : Entries(a)' = Entries(a)
  BY DEF Entries
<1>5. \A b, a, n : Pushed(b, a, n)' = Pushed(b, a, n)
  BY <1>3 DEF Pushed
<1>6. \A b, a : Given(b, a)' = Given(b, a)
  BY <1>5 DEF Given
<1>7. \A b, a : Own(b, a)' = Own(b, a)
  BY <1>2, <1>6 DEF Own
<1> QED
  BY <1>1, <1>2, <1>3, <1>4, <1>5, <1>6, <1>7

(* The type invariant, with the entries of an array named. *)
LEMMA ConfTypes ==
  ConfTypeOK <=>
    /\ file \in Files
    /\ read \in 0 .. Len(file)
    /\ stage \in {"parse", "main", "server", "location", "serve", "fault"}
    /\ DOMAIN conf = Blocks
    /\ \A b \in Blocks : DOMAIN conf[b] = Arrays
    /\ \A b \in Blocks, a \in Arrays : conf[b][a] \in Seq(Entries(a))
    /\ flags \in [Blocks -> [Flags -> {"unset", "on", "off"}]]
BY DEF ConfTypeOK, Entries

(* The same after a step. *)
LEMMA ConfTypesNext ==
  ConfTypeOK' <=>
    /\ file' \in Files
    /\ read' \in 0 .. Len(file')
    /\ stage' \in {"parse", "main", "server", "location", "serve", "fault"}
    /\ DOMAIN conf' = Blocks
    /\ \A b \in Blocks : DOMAIN conf'[b] = Arrays
    /\ \A b \in Blocks, a \in Arrays : conf'[b][a] \in Seq(Entries(a)')
    /\ flags' \in [Blocks -> [Flags -> {"unset", "on", "off"}]]
BY DEF ConfTypeOK, Entries

(* The invariant holds when the configuration is created. *)
LEMMA ConfInitInv == ConfInit => ConfInv
<1> SUFFICES ASSUME ConfInit PROVE ConfInv
  OBVIOUS
<1>1. /\ file \in Files /\ read = 0 /\ stage = "parse"
      /\ conf = [b \in Blocks |-> [a \in Arrays |-> <<>>]]
      /\ flags = [b \in Blocks |-> [f \in Flags |-> "unset"]]
  BY DEF ConfInit
<1>2. DOMAIN file = 1 .. Len(file) /\ Len(file) \in Nat
  BY <1>1, FileIs
<1>3. ConfTypeOK
  <2>1. \A b \in Blocks, a \in Arrays : conf[b][a] \in Seq(Entries(a))
    BY <1>1
  <2>2. DOMAIN conf = Blocks /\ \A b \in Blocks : DOMAIN conf[b] = Arrays
    BY <1>1
  <2>3. flags \in [Blocks -> [Flags -> {"unset", "on", "off"}]]
    BY <1>1
  <2> QED
    BY <1>1, <1>2, <2>1, <2>2, <2>3, ConfTypes
<1>4. FlagInv
  BY <1>1, <1>2 DEF FlagInv, FlagLines
<1>5. ArrayInv
  <2>1. Through = {}
    BY <1>1 DEF Through
  <2>2. \A b \in Blocks, a \in Arrays : Pushed(b, a, 0) = <<>>
    BY <1>1, PushedStep
  <2> QED
    BY <1>1, <2>1, <2>2 DEF ArrayInv
<1> QED
  BY <1>1, <1>3, <1>4, <1>5, ConfInvParts

(* A line is read: a flag is set or a directive is pushed.                 *)
LEMMA ReadLineInv == ConfInv /\ ReadLine => ConfInv'
<1> SUFFICES ASSUME ConfInv, ReadLine PROVE ConfInv'
  OBVIOUS
<1> DEFINE line == file[read + 1]
<1>1. /\ file \in Files /\ read \in 0 .. Len(file)
      /\ DOMAIN conf = Blocks
      /\ \A b \in Blocks : DOMAIN conf[b] = Arrays
      /\ \A b \in Blocks, a \in Arrays : conf[b][a] \in Seq(Entries(a))
      /\ flags \in [Blocks -> [Flags -> {"unset", "on", "off"}]]
      /\ FlagInv /\ ArrayInv
  BY ConfInvParts, ConfTypes
<1>2. /\ stage = "parse" /\ read < Len(file) /\ read' = read + 1
      /\ file' = file /\ stage' = stage
  BY DEF ReadLine
<1>3. /\ DOMAIN file = 1 .. Len(file) /\ Len(file) \in Nat /\ read \in Nat
      /\ read + 1 \in DOMAIN file /\ read' \in 0 .. Len(file)
  BY <1>1, <1>2, FileIs
<1>4. /\ line.block \in Blocks
      /\ IsFlag(line) => line.flag \in Flags /\ line.value \in {"on", "off"}
      /\ ~IsFlag(line) => line.array \in Arrays
  BY <1>1, <1>3, FileIs
<1>5. Through = {} /\ Through' = {}
  BY <1>2 DEF Through
<1>6. \A b \in Blocks, a \in Arrays : conf[b][a] = Pushed(b, a, read)
  BY <1>1, <1>2, <1>5 DEF ArrayInv
<1>7. CASE IsFlag(line)
  <2>1. /\ flags' = [flags EXCEPT ![line.block][line.flag] = line.value]
        /\ conf' = conf
    BY <1>7 DEF ReadLine, SetFlag
  <2> HIDE DEF line
  <2>2. flags' \in [Blocks -> [Flags -> {"unset", "on", "off"}]]
    BY <1>1, <1>4, <1>7, <2>1
  <2>3. ConfTypeOK'
    <3>1. \A b \in Blocks, a \in Arrays : conf'[b][a] \in Seq(Entries(a)')
      BY <1>1, <1>2, <2>1, FileFixed
    <3> QED
      BY <1>1, <1>2, <1>3, <2>1, <2>2, <3>1, ConfTypesNext
  <2>4. ASSUME NEW b \in Blocks, NEW f \in Flags
        PROVE  /\ flags'[b][f] = "unset" => \A i \in FlagLines(b, f) : i > read'
               /\ flags'[b][f] # "unset" =>
                    \E i \in FlagLines(b, f) : i <= read' /\ flags'[b][f] = file[i].value
    <3>1. \A i \in FlagLines(b, f) : i \in DOMAIN file /\ i \in Nat
      BY <1>3 DEF FlagLines
    <3>2. CASE b = line.block /\ f = line.flag
      <4>1. flags'[b][f] = line.value
        BY <1>1, <2>1, <3>2
      <4>2. read + 1 \in FlagLines(b, f)
        BY <1>3, <1>7, <3>2 DEF FlagLines, line
      <4> QED
        BY <1>2, <1>3, <1>4, <1>7, <4>1, <4>2 DEF line
    <3>3. CASE ~(b = line.block /\ f = line.flag)
      <4>1. flags'[b][f] = flags[b][f]
        BY <1>1, <1>4, <1>7, <2>1, <3>3
      <4>2. \A i \in FlagLines(b, f) : i # read + 1
        BY <3>3 DEF FlagLines, line
      <4>3. \A i \in FlagLines(b, f) : (i > read => i > read') /\ (i <= read => i <= read')
        BY <1>2, <1>3, <3>1, <4>2
      <4> QED
        BY <1>1, <4>1, <4>3 DEF FlagInv
    <3> QED
      BY <3>2, <3>3
  <2>5. FlagInv'
    BY <1>2, <2>4, FileFixed DEF FlagInv
  <2>6. \A b \in Blocks, a \in Arrays : Pushed(b, a, read + 1) = Pushed(b, a, read)
    <3> SUFFICES ASSUME NEW b \in Blocks, NEW a \in Arrays
                 PROVE  Pushed(b, a, read + 1) = Pushed(b, a, read)
      OBVIOUS
    <3>1. read + 1 \notin Lines(b, a)
      BY <1>7 DEF Lines, line
    <3> QED
      BY <1>1, <1>3, <3>1, PushedStep
  <2>7. ArrayInv'
    BY <1>2, <1>5, <1>6, <2>1, <2>6, FileFixed DEF ArrayInv
  <2> QED
    BY <1>2, <2>3, <2>5, <2>7, ConfInvPartsNext
<1>8. CASE ~IsFlag(line)
  <2>1. /\ flags' = flags
        /\ conf' = [conf EXCEPT ![line.block][line.array] = Append(@, Resolved(line))]
    <3>1. \/ filter_by_set_key(line) \/ limit_traffic(line)
          \/ limit_traffic_by_set_key(line)
      BY <1>8 DEF ReadLine
    <3> HIDE DEF line
    <3>2. CASE filter_by_set_key(line)
      BY <3>2 DEF filter_by_set_key, Push, Resolved
    <3>3. CASE limit_traffic(line)
      BY <3>3 DEF limit_traffic, Push, Resolved
    <3>4. CASE limit_traffic_by_set_key(line)
      <4>1. Resolved(line).block = line.block /\ Resolved(line).array = line.array
        BY DEF Resolved
      <4> QED
        BY <3>4, <4>1 DEF limit_traffic_by_set_key, Push
    <3> QED
      BY <3>1, <3>2, <3>3, <3>4
  <2>2. Resolved(line) \in Entries(line.array)
    BY <1>3, <1>8 DEF Entries, Directives, Range
  <2> HIDE DEF line
  <2>3. ASSUME NEW b \in Blocks, NEW a \in Arrays
        PROVE  conf'[b][a] = Pushed(b, a, read + 1) /\ conf'[b][a] \in Seq(Entries(a))
    <3>1. CASE b = line.block /\ a = line.array
      <4>1. conf'[b][a] = Append(conf[b][a], Resolved(line))
        BY <1>1, <2>1, <3>1
      <4>2. read + 1 \in Lines(b, a)
        BY <1>3, <1>8, <3>1 DEF Lines, line
      <4>3. Pushed(b, a, read + 1) = Append(Pushed(b, a, read), Resolved(line))
        BY <1>1, <1>3, <4>2, PushedStep DEF line
      <4>4. conf[b][a] \in Seq(Entries(a)) /\ Resolved(line) \in Entries(a)
        BY <1>1, <2>2, <3>1
      <4> QED
        BY <1>6, <4>1, <4>3, <4>4
    <3>2. CASE ~(b = line.block /\ a = line.array)
      <4>1. conf'[b][a] = conf[b][a]
        BY <1>1, <1>4, <1>8, <2>1, <3>2
      <4>2. read + 1 \notin Lines(b, a)
        BY <3>2 DEF Lines, line
      <4>3. Pushed(b, a, read + 1) = Pushed(b, a, read)
        BY <1>1, <1>3, <4>2, PushedStep
      <4> QED
        BY <1>1, <1>6, <4>1, <4>3
    <3> QED
      BY <3>1, <3>2
  <2>4. ConfTypeOK'
    <3>1. \A b \in Blocks, a \in Arrays : conf'[b][a] \in Seq(Entries(a)')
      BY <1>2, <2>3, FileFixed
    <3>2. DOMAIN conf' = Blocks /\ \A b \in Blocks : DOMAIN conf'[b] = Arrays
      BY <1>1, <1>4, <1>8, <2>1
    <3> QED
      BY <1>1, <1>2, <1>3, <2>1, <3>1, <3>2, ConfTypesNext
  <2>5. FlagInv'
    <3>1. ASSUME NEW b \in Blocks, NEW f \in Flags, NEW i \in FlagLines(b, f)
          PROVE  (i > read => i > read') /\ (i <= read => i <= read')
      <4>1. i \in Nat /\ i # read + 1
        BY <1>3, <1>8 DEF FlagLines, line
      <4> QED
        BY <1>2, <1>3, <4>1
    <3> QED
      BY <1>1, <1>2, <2>1, <3>1, FileFixed DEF FlagInv
  <2>6. ArrayInv'
    BY <1>2, <1>5, <2>3, FileFixed DEF ArrayInv
  <2> QED
    BY <1>2, <2>4, <2>5, <2>6, ConfInvPartsNext
<1> QED
  BY <1>7, <1>8

(* Once the file is read, a block's duplicates are dropped unless its flag *)
(* or else the one of the http block is off.                               *)
LEMMA FlagMeans ==
  ASSUME ConfTypeOK, FlagInv, read = Len(file), NEW b \in Blocks, NEW f \in Flags
  PROVE  Enabled(b, f) <=>
           (IF flags[b][f] = "unset" THEN flags["http"][f] ELSE flags[b][f]) # "off"
<1>1. /\ file \in Files
      /\ flags \in [Blocks -> [Flags -> {"unset", "on", "off"}]]
      /\ DOMAIN file = 1 .. Len(file) /\ Len(file) \in Nat
  BY ConfTypes, FileIs
<1>2. ASSUME NEW c \in Blocks
      PROVE  /\ flags[c][f] = "unset" => FlagLines(c, f) = {}
             /\ flags[c][f] # "unset" => \E i \in FlagLines(c, f) : flags[c][f] = file[i].value
             /\ \A i, j \in FlagLines(c, f) : i = j
             /\ \A i \in FlagLines(c, f) : file[i].value \in {"on", "off"}
  <2>1. \A i \in FlagLines(c, f) : i \in DOMAIN file /\ ~(i > read)
    BY <1>1 DEF FlagLines
  <2>2. flags[c][f] = "unset" => FlagLines(c, f) = {}
    BY <2>1 DEF FlagInv
  <2>3. flags[c][f] # "unset" => \E i \in FlagLines(c, f) : flags[c][f] = file[i].value
    BY DEF FlagInv
  <2>4. \A i, j \in FlagLines(c, f) : i = j
    BY <1>1, FileIs DEF FlagLines
  <2>5. \A i \in FlagLines(c, f) : file[i].value \in {"on", "off"}
    BY <1>1, FileIs DEF FlagLines
  <2> QED
    BY <2>2, <2>3, <2>4, <2>5
<1>3. "http" \in Blocks
  BY DEF Blocks
<1>4. CASE flags[b][f] = "unset"
  <2>1. FlagLines(b, f) = {}
    BY <1>2, <1>4
  <2>2. Enabled(b, f) <=> \A i \in FlagLines("http", f) : file[i].value = "on"
    BY <2>1 DEF Enabled
  <2>3. CASE flags["http"][f] = "unset"
    BY <1>2, <1>3, <1>4, <2>2, <2>3
  <2>4. CASE flags["http"][f] # "unset"
    BY <1>2, <1>3, <1>4, <2>2, <2>4
  <2> QED
    BY <2>3, <2>4
<1>5. CASE flags[b][f] # "unset"
  <2>1. PICK i \in FlagLines(b, f) : flags[b][f] = file[i].value
    BY <1>2, <1>5
  <2>2. Enabled(b, f) <=> file[i].value = "on"
    BY <1>2, <2>1 DEF Enabled
  <2>3. file[i].value \in {"on", "off"}
    BY <1>2, <2>1
  <2> QED
    BY <1>5, <2>1, <2>2, <2>3
<1> QED
  BY <1>4, <1>5

(* What the functions of a block make of its arrays is Own.                *)
LEMMA OwnIs ==
  ASSUME ConfInv, stage \notin {"parse", "fault"}, NEW b \in Blocks \ Through,
         NEW flag,
         \A f \in Flags :
           flag[f] = IF flags[b][f] = "unset" THEN flags["http"][f] ELSE flags[b][f],
         NEW a \in Arrays
  PROVE  /\ Own(b, a) = IF a \in Checked(conf[b], flag) THEN unique(conf[b][a])
                                                       ELSE conf[b][a]
         /\ Own(b, a) \in Seq(Entries(a))
         /\ ~(a \in Checked(conf[b], flag) /\ Faults(conf[b][a]))
              => (Given(b, a) # <<>> => Own(b, a) # <<>>)
<1>1. /\ ConfTypeOK /\ FlagInv /\ ArrayInv /\ read = Len(file) /\ file \in Files
      /\ conf[b][a] \in Seq(Entries(a))
  BY ConfInvParts, ConfTypes
<1>2. conf[b][a] = Given(b, a)
  BY <1>1 DEF ArrayInv, Given
<1>3. FlagOf(a) \in Flags
  BY DEF FlagOf, Flags
<1>4. Enabled(b, FlagOf(a)) <=> flag[FlagOf(a)] # "off"
  BY <1>1, <1>3, FlagMeans
<1>5. a \in Checked(conf[b], flag) <=> Given(b, a) # <<>> /\ Enabled(b, FlagOf(a))
  BY <1>2, <1>4 DEF Checked
<1>6. Own(b, a) = IF a \in Checked(conf[b], flag) THEN unique(conf[b][a]) ELSE conf[b][a]
  BY <1>2, <1>5 DEF Own
<1>7. \A i \in DOMAIN Given(b, a) : HashOf(Given(b, a), i) \in Nat
  <2>1. Len(file) \in 0 .. Len(file)
    BY <1>1, FileIs
  <2>2. \A i \in DOMAIN Given(b, a) : HashOf(Given(b, a), i) \in 0 .. W - 1
    BY <1>1, <2>1, PushedIs DEF Given
  <2> QED
    BY <2>2
<1>8. /\ unique(conf[b][a]) \in Seq(Entries(a))
      /\ conf[b][a] # <<>> /\ ~Faults(conf[b][a]) => unique(conf[b][a]) # <<>>
  BY <1>1, <1>2, <1>7, UniqueIs
<1> QED
  BY <1>1, <1>2, <1>6, <1>8

(* The same of two steps: init_main_conf and merge_loc_conf.               *)
LEMMA BlockMerged ==
  ASSUME ConfInv, NEW b \in Blocks \ Through, stage \notin {"parse", "fault"},
         /\ UNCHANGED <<file, read, flags>>
         /\ stage' \in {"server", "location", "serve", "fault"}
         /\ DOMAIN conf' = Blocks /\ \A c \in Blocks : DOMAIN conf'[c] = Arrays
         /\ \A c \in Blocks \ {b}, a \in Arrays : conf'[c][a] = conf[c][a],
         \A a \in Arrays : conf'[b][a] \in Seq(Entries(a)),
         stage' # "fault" =>
           /\ Through' = Through \cup {b}
           /\ \A a \in Arrays :
                /\ Given(b, a) # <<>> => Own(b, a) # <<>>
                /\ conf'[b][a] = IF b = "location" /\ Given(b, a) = <<>>
                                   THEN Own("server", a) ELSE Own(b, a)
  PROVE  ConfInv'
<1>1. /\ ConfTypeOK /\ FlagInv /\ ArrayInv /\ read = Len(file) /\ file \in Files
      /\ \A c \in Blocks, a \in Arrays : conf[c][a] \in Seq(Entries(a))
      /\ read \in 0 .. Len(file)
      /\ flags \in [Blocks -> [Flags -> {"unset", "on", "off"}]]
  BY ConfInvParts, ConfTypes
<1>3. ConfTypeOK'
  <2>1. \A c \in Blocks, a \in Arrays : conf'[c][a] \in Seq(Entries(a)')
    BY <1>1, FileFixed
  <2> QED
    BY <1>1, <2>1, ConfTypesNext
<1>4. FlagInv'
  BY <1>1, FileFixed DEF FlagInv
<1>5. ArrayInv'
  <2>1. ASSUME stage' # "fault", NEW c \in Blocks, NEW a \in Arrays
        PROVE  IF c \in Through'
                 THEN /\ Given(c, a) # <<>> => Own(c, a) # <<>>
                      /\ conf'[c][a] = IF c = "location" /\ Given(c, a) = <<>>
                                         THEN Own("server", a) ELSE Own(c, a)
                 ELSE conf'[c][a] = Pushed(c, a, read)
    <3>1. CASE c = b
      BY <2>1, <3>1
    <3>2. CASE c # b
      <4>1. conf'[c][a] = conf[c][a] /\ (c \in Through' <=> c \in Through)
        BY <2>1, <3>2
      <4> QED
        BY <1>1, <4>1 DEF ArrayInv
    <3> QED
      BY <3>1, <3>2
  <2> QED
    BY <2>1, FileFixed DEF ArrayInv
<1> QED
  BY <1>1, <1>3, <1>4, <1>5, ConfInvPartsNext

(* init_main_conf keeps it. *)
LEMMA InitMainConfInv == ConfInv /\ InitMainConf => ConfInv'
<1> SUFFICES ASSUME ConfInv, InitMainConf PROVE ConfInv'
  OBVIOUS
<1> DEFINE b == "http"
           checked == Checked(conf[b], flags[b])
<1>1. /\ DOMAIN conf = Blocks /\ \A c \in Blocks : DOMAIN conf[c] = Arrays
  BY ConfInvParts, ConfTypes
<1>2. /\ stage = "main" /\ UNCHANGED <<file, read, flags>>
      /\ stage' = IF \E a \in checked : Faults(conf[b][a]) THEN "fault" ELSE "server"
      /\ conf' = [conf EXCEPT ![b] =
           [a \in Arrays |-> IF a \in checked THEN unique(@[a]) ELSE @[a]]]
  BY DEF InitMainConf
<1>3. Through = {} /\ b \in Blocks \ Through
  BY <1>2 DEF Through, Blocks
<1>4. /\ DOMAIN conf' = Blocks
      /\ \A a \in Arrays : conf'[b][a] = IF a \in checked THEN unique(conf[b][a]) ELSE conf[b][a]
      /\ DOMAIN conf'[b] = Arrays
      /\ \A c \in Blocks \ {b} : conf'[c] = conf[c]
  BY <1>1, <1>2, <1>3
<1>5. \A a \in Arrays :
        /\ Own(b, a) = IF a \in checked THEN unique(conf[b][a]) ELSE conf[b][a]
        /\ Own(b, a) \in Seq(Entries(a))
        /\ ~(a \in checked /\ Faults(conf[b][a])) => (Given(b, a) # <<>> => Own(b, a) # <<>>)
  <2>1. \A f \in Flags :
          flags[b][f] = IF flags[b][f] = "unset" THEN flags["http"][f] ELSE flags[b][f]
    OBVIOUS
  <2> QED
    BY <1>2, <1>3, <2>1, OwnIs
<1> HIDE DEF checked
<1>6. stage' # "fault" => /\ Through' = Through \cup {b}
                          /\ \A a \in Arrays : Given(b, a) # <<>> => Own(b, a) # <<>>
  <2>1. ASSUME stage' # "fault" PROVE Through' = {b}
    <3>1. stage' = "server"
      BY <1>2, <2>1
    <3> QED
      BY <3>1 DEF Through
  <2> QED
    BY <1>2, <1>3, <1>5, <2>1
<1>7. stage' \in {"server", "location", "serve", "fault"}
  BY <1>2
<1>8. \A a \in Arrays : conf'[b][a] = IF b = "location" /\ Given(b, a) = <<>>
                          THEN Own("server", a) ELSE Own(b, a)
  BY <1>4, <1>5
<1>9. \A c \in Blocks \ {b}, a \in Arrays : conf'[c][a] = conf[c][a]
  BY <1>4
<1>12. \A a \in Arrays : conf'[b][a] \in Seq(Entries(a))
  BY <1>4, <1>5
<1>10. \A c \in Blocks : DOMAIN conf'[c] = Arrays
  BY <1>1, <1>4
<1> QED
  BY <1>2, <1>3, <1>4, <1>5, <1>6, <1>7, <1>8, <1>9, <1>10, <1>12, BlockMerged

(* merge_loc_conf keeps it, for the server and for the location. *)
LEMMA MergeLocConfInv ==
  ASSUME ConfInv, NEW child \in {"server", "location"}, NEW parent, NEW next,
         child = "server" => parent = "http" /\ next = "location",
         child = "location" => parent = "server" /\ next = "serve",
         MergeLocConf(child, parent, next)
  PROVE  ConfInv'
<1> DEFINE flag == [f \in Flags |-> IF flags[child][f] = "unset" THEN flags["http"][f]
                                                               ELSE flags[child][f]]
           checked == Checked(conf[child], flag)
           own(a) == IF a \in checked THEN unique(conf[child][a]) ELSE conf[child][a]
           prev(a) == IF parent = "http" THEN <<>> ELSE conf[parent][a]
<1>1. /\ DOMAIN conf = Blocks /\ \A c \in Blocks : DOMAIN conf[c] = Arrays
  BY ConfInvParts, ConfTypes
<1>2. /\ stage = child /\ UNCHANGED <<file, read, flags>>
      /\ stage' = IF \E a \in checked : Faults(conf[child][a]) THEN "fault" ELSE next
      /\ conf' = [conf EXCEPT ![child] = [a \in Arrays |-> Inherited(own(a), prev(a))]]
  BY DEF MergeLocConf
<1>3. /\ child \in Blocks \ Through
      /\ child = "server" => Through = {"http"}
      /\ child = "location" => Through = {"http", "server"}
  <2>1. CASE child = "server"
    <3>1. Through = {"http"}
      BY <1>2, <2>1 DEF Through
    <3> QED
      BY <2>1, <3>1 DEF Blocks
  <2>2. CASE child = "location"
    <3>1. Through = {"http", "server"}
      BY <1>2, <2>2 DEF Through
    <3> QED
      BY <2>2, <3>1 DEF Blocks
  <2> QED
    BY <2>1, <2>2
<1>4. /\ DOMAIN conf' = Blocks
      /\ \A a \in Arrays : conf'[child][a] = Inherited(own(a), prev(a))
      /\ DOMAIN conf'[child] = Arrays
      /\ \A c \in Blocks \ {child} : conf'[c] = conf[c]
  BY <1>1, <1>2, <1>3
<1>5. \A a \in Arrays :
        /\ Own(child, a) = own(a)
        /\ Own(child, a) \in Seq(Entries(a))
        /\ ~(a \in checked /\ Faults(conf[child][a]))
             => (Given(child, a) # <<>> => Own(child, a) # <<>>)
  <2>1. \A f \in Flags : flag[f] = IF flags[child][f] = "unset" THEN flags["http"][f]
                                                               ELSE flags[child][f]
    OBVIOUS
  <2>2. stage \notin {"parse", "fault"}
    BY <1>2
  <2> HIDE DEF flag
  <2> QED
    BY <1>3, <2>1, <2>2, OwnIs
<1>6. \A a \in Arrays : Given(child, a) = <<>> => own(a) = <<>>
  BY <1>5 DEF Own
<1> HIDE DEF flag, checked, own
<1>7. stage' # "fault" => /\ Through' = Through \cup {child}
                          /\ \A a \in Arrays : Given(child, a) # <<>> => Own(child, a) # <<>>
  <2>1. ASSUME stage' # "fault" PROVE Through' = Through \cup {child}
    <3>1. stage' = next
      BY <1>2, <2>1
    <3>2. CASE child = "server"
      <4>1. Through' = {"http", "server"}
        BY <3>1, <3>2 DEF Through
      <4> QED
        BY <1>3, <3>2, <4>1
    <3>3. CASE child = "location"
      <4>1. Through' = Blocks
        BY <3>1, <3>3 DEF Through
      <4> QED
        BY <1>3, <3>3, <4>1 DEF Blocks
    <3> QED
      BY <3>2, <3>3
  <2> QED
    BY <1>2, <1>5, <2>1
<1>8. stage' \in {"server", "location", "serve", "fault"}
  BY <1>2
<1>9. ASSUME NEW a \in Arrays
      PROVE  stage' # "fault" => conf'[child][a] = IF child = "location" /\ Given(child, a) = <<>>
                                 THEN Own("server", a) ELSE Own(child, a)
  <2>1. CASE child = "server"
    <3>1. prev(a) = <<>>
      BY <2>1
    <3> QED
      BY <1>4, <1>5, <2>1, <3>1 DEF Inherited
  <2>2. CASE child = "location"
    <3>1. prev(a) = conf["server"][a]
      BY <2>2
    <3>2. conf["server"][a] = Own("server", a)
      <4>1. "server" \in Blocks /\ "server" \in Through /\ stage # "fault" /\ ArrayInv
        BY <1>2, <1>3, <2>2, ConfInvParts DEF Blocks
      <4> QED
        BY <4>1 DEF ArrayInv
    <3> QED
      BY <1>4, <1>5, <1>6, <1>7, <2>2, <3>1, <3>2 DEF Inherited
  <2> QED
    BY <2>1, <2>2
<1>10. \A c \in Blocks \ {child}, a \in Arrays : conf'[c][a] = conf[c][a]
  BY <1>4
<1>11. \A c \in Blocks : DOMAIN conf'[c] = Arrays
  BY <1>1, <1>4
<1>12. \A a \in Arrays : conf'[child][a] \in Seq(Entries(a))
  <2> SUFFICES ASSUME NEW a \in Arrays PROVE conf'[child][a] \in Seq(Entries(a))
    OBVIOUS
  <2>2. prev(a) \in Seq(Entries(a))
    <3>1. CASE parent = "http"
      <4>1. prev(a) = <<>>
        BY <3>1
      <4> HIDE DEF prev
      <4> QED
        BY <4>1
    <3>2. CASE parent # "http"
      <4>1. prev(a) = conf["server"][a] /\ "server" \in Blocks
        BY <3>2 DEF Blocks
      <4> HIDE DEF prev
      <4> QED
        BY <4>1, ConfInvParts, ConfTypes
    <3> QED
      BY <3>1, <3>2
  <2> QED
    BY <1>4, <1>5, <2>2 DEF Inherited
<1>13. child \in Blocks \ Through /\ stage \notin {"parse", "fault"}
  BY <1>2, <1>3
<1> QED
  BY <1>2, <1>4, <1>7, <1>8, <1>9, <1>10, <1>11, <1>12, <1>13, BlockMerged

(* Every step keeps the invariant.                                         *)
LEMMA ConfNextInv == ConfInv /\ [ConfNext]_confVars => ConfInv'
<1> SUFFICES ASSUME ConfInv, [ConfNext]_confVars PROVE ConfInv'
  OBVIOUS
<1>1. CASE ReadLine
  BY <1>1, ReadLineInv
<1>2. CASE EndOfFile
  <2>1. /\ stage = "parse" /\ read = Len(file) /\ stage' = "main"
        /\ UNCHANGED <<file, read, conf, flags>>
    BY <1>2 DEF EndOfFile
  <2>2. ConfTypeOK /\ FlagInv /\ ArrayInv
    BY ConfInvParts
  <2>3. ConfTypeOK'
    BY <2>1, <2>2 DEF ConfTypeOK
  <2>4. FlagInv'
    BY <2>1, <2>2, FileFixed DEF FlagInv
  <2>5. ArrayInv'
    <3>1. Through = {} /\ Through' = {}
      BY <2>1 DEF Through
    <3> QED
      BY <2>1, <2>2, <3>1, FileFixed DEF ArrayInv
  <2> QED
    BY <2>1, <2>3, <2>4, <2>5, ConfInvPartsNext
<1>3. CASE InitMainConf
  BY <1>3, InitMainConfInv
<1>4. CASE MergeLocConf("server", "http", "location")
  BY <1>4, MergeLocConfInv
<1>5. CASE MergeLocConf("location", "server", "serve")
  BY <1>5, MergeLocConfInv
<1>6. CASE UNCHANGED confVars
  <2>1. UNCHANGED <<file, read, stage, conf, flags>>
    BY <1>6 DEF confVars
  <2>2. ConfTypeOK /\ FlagInv /\ ArrayInv
    BY ConfInvParts
  <2>3. ConfTypeOK'
    BY <2>1, <2>2 DEF ConfTypeOK
  <2>4. FlagInv'
    BY <2>1, <2>2, FileFixed DEF FlagInv
  <2>5. ArrayInv'
    <3>1. Through' = Through
      BY <2>1 DEF Through
    <3> QED
      BY <2>1, <2>2, <3>1, FileFixed DEF ArrayInv
  <2>6. stage' # "parse" => read' = Len(file')
    BY <2>1 DEF ConfInv
  <2> QED
    BY <2>3, <2>4, <2>5, <2>6, ConfInvPartsNext
<1> QED
  BY <1>1, <1>2, <1>3, <1>4, <1>5, <1>6 DEF ConfNext

(* For every set of files that the parser accepts and whatever the hashes,*)
(* an array is what its lines pushed until its block is merged, and then  *)
(* what unique leaves of it, or the array of the server                   *)
(* (ngx_http_vhost_traffic_status_init_main_conf, merge_loc_conf).        *)
THEOREM ConfInvariant == ConfSpec => []ConfInv
<1>1. ConfInit => ConfInv
  BY ConfInitInv
<1>2. ConfInv /\ [ConfNext]_confVars => ConfInv'
  BY ConfNextInv
<1> QED
  BY <1>1, <1>2, PTL DEF ConfSpec

(* The arrays hold entries of the file, of their own kind                 *)
(* (create_loc_conf, merge_loc_conf).                                     *)
THEOREM ConfTypesHold == ConfSpec => []ConfTypeOK
<1>1. ConfInv => ConfTypeOK
  BY ConfInvParts
<1> QED
  BY <1>1, ConfInvariant, PTL
-----------------------------------------------------------------------------
(* What follows from it *)

(* Remainders of what is less than n, and the halves of n. *)
LEMMA ModIs ==
  ASSUME NEW n \in Nat \ {0}, NEW a \in 0 .. n - 1
  PROVE  a % n = a /\ (a + n) % n = a /\ n \div 2 \in Nat /\ n - n \div 2 >= n \div 2
<1>1. a % n = a
  OBVIOUS
<1>2. (a + n) % n = a
  OBVIOUS
<1>3. n \div 2 \in Nat /\ n - n \div 2 >= n \div 2
  OBVIOUS
<1> QED
  BY <1>1, <1>2, <1>3

(* cmp_hashs compares numbers that are less than half of the range apart. *)
LEMMA CmpIs ==
  ASSUME NEW x \in 0 .. W - 1, NEW y \in 0 .. W - 1,
         x - y < W \div 2, y - x < W \div 2
  PROVE  cmp_hashs(x, y) <=> x <= y
<1>1. W \in Nat \ {0}
  BY ConfAssumption
<1>2. W \div 2 \in Nat /\ W - W \div 2 >= W \div 2
  <2>1. 0 \in 0 .. W - 1
    BY <1>1
  <2> QED
    BY <1>1, <2>1, ModIs
<1> DEFINE half == W \div 2
           diff == (x + W - y) % W
<1>3. cmp_hashs(x, y) <=> diff = 0 \/ diff >= half
  BY DEF cmp_hashs
<1> HIDE DEF half
<1>4. CASE x >= y
  <2>1. x - y \in 0 .. W - 1 /\ x + W - y = (x - y) + W
    BY <1>1, <1>4
  <2>2. diff = x - y
    BY <1>1, <2>1, ModIs
  <2> HIDE DEF diff
  <2> QED
    BY <1>1, <1>2, <1>3, <1>4, <2>2 DEF half
<1>5. CASE x < y
  <2>1. x + W - y \in 0 .. W - 1
    BY <1>1, <1>5
  <2>2. diff = x + W - y
    BY <1>1, <2>1, ModIs
  <2> HIDE DEF diff
  <2> QED
    BY <1>1, <1>2, <1>3, <1>5, <2>2 DEF half
<1> QED
  BY <1>1, <1>4, <1>5

(* What a block was given are directives of the file.                      *)
LEMMA GivenIs ==
  ASSUME file \in Files, NEW b \in Blocks, NEW a \in Arrays
  PROVE  /\ Given(b, a) \in Seq(Entries(a))
         /\ DOMAIN Given(b, a) = 1 .. Len(Given(b, a)) /\ Len(Given(b, a)) \in Nat
         /\ \A i \in DOMAIN Given(b, a) :
              /\ HashOf(Given(b, a), i) \in 0 .. W - 1
              /\ Given(b, a)[i] \in Entries(a)
<1>1. Len(file) \in 0 .. Len(file)
  BY FileIs
<1>2. /\ Given(b, a) \in Seq(Entries(a))
      /\ \A i \in DOMAIN Given(b, a) : HashOf(Given(b, a), i) \in 0 .. W - 1
  BY <1>1, PushedIs DEF Given
<1>4. \A i \in DOMAIN Given(b, a) : Given(b, a)[i] \in Entries(a)
  BY <1>2
<1>5. DOMAIN Given(b, a) = 1 .. Len(Given(b, a)) /\ Len(Given(b, a)) \in Nat
  BY <1>2
<1> QED
  BY <1>2, <1>4, <1>5

(* So it does the hashes of the directives of a block. *)
LEMMA GivenNear ==
  ASSUME file \in Files, HashesNear, NEW b \in Blocks, NEW a \in Arrays
  PROVE  Near({HashOf(Given(b, a), i) : i \in DOMAIN Given(b, a)})
<1> DEFINE H == {HashOf(Given(b, a), i) : i \in DOMAIN Given(b, a)}
<1> SUFFICES ASSUME NEW x \in H, NEW y \in H PROVE cmp_hashs(x, y) <=> x <= y
  BY DEF Near
<1>1. PICK i \in DOMAIN Given(b, a) : x = HashOf(Given(b, a), i)
  OBVIOUS
<1>2. PICK j \in DOMAIN Given(b, a) : y = HashOf(Given(b, a), j)
  OBVIOUS
<1>3. /\ x \in 0 .. W - 1 /\ y \in 0 .. W - 1
      /\ Given(b, a)[i] \in Entries(a) /\ Given(b, a)[j] \in Entries(a)
  BY <1>1, <1>2, GivenIs
<1>4. x - y < W \div 2 /\ y - x < W \div 2
  BY <1>1, <1>2, <1>3 DEF HashesNear, HashOf, Entries
<1> QED
  BY <1>3, <1>4, CmpIs

(* The directives of a block as they are meant are those it was given. *)
LEMMA WrittenIs ==
  ASSUME file \in Files, NEW b \in Blocks, NEW a \in Arrays
  PROVE  Written(b, a) = Given(b, a)
<1> DEFINE index == InOrder(Lines(b, a), Len(file))
<1>1. /\ Written(b, a) = [i \in DOMAIN index |-> AsMeant(file[index[i]])]
      /\ Given(b, a) = [i \in DOMAIN index |-> Resolved(file[index[i]])]
  BY DEF Written, Given, Pushed
<1>2. index \in Seq(Lines(b, a) \cap 1 .. Len(file))
  BY FileIs, InOrderIs
<1> HIDE DEF index
<1>3. ASSUME NEW i \in DOMAIN index
      PROVE  AsMeant(file[index[i]]) = Resolved(file[index[i]])
  <2>1. index[i] \in Lines(b, a)
    BY <1>2
  <2>2. index[i] \in DOMAIN file /\ ~IsFlag(file[index[i]])
    BY <2>1 DEF Lines
  <2>3. file[index[i]].key \in Seq(Chars)
    BY <2>2, FileIs
  <2>4. control_zone(file[index[i]].key) = Meant(file[index[i]].key)
    BY <2>3, ZoneRead
  <2> QED
    BY <2>4 DEF AsMeant, Resolved
<1> QED
  BY <1>1, <1>3

(* What is in force when the configuration is complete.                    *)
LEMMA InForce ==
  ASSUME ConfInv, stage = "serve", NEW b \in Blocks, NEW a \in Arrays
  PROVE  /\ file \in Files /\ Source(b, a) \in Blocks
         /\ Intended(b, a) = Given(Source(b, a), a)
         /\ conf[b][a] = IF Intended(b, a) # <<>> /\ Dropping(b, a)
                           THEN unique(Intended(b, a)) ELSE Intended(b, a)
         /\ Intended(b, a) # <<>> => conf[b][a] # <<>>
<1>1. file \in Files /\ ArrayInv
  BY ConfInvParts, ConfTypes
<1>2. Source(b, a) \in Blocks
  BY DEF Source, Blocks
<1>3. Written(b, a) = Given(b, a) /\ Intended(b, a) = Given(Source(b, a), a)
  BY <1>1, <1>2, WrittenIs DEF Intended
<1>4. Through = Blocks
  BY DEF Through
<1>5. /\ conf[b][a] = Own(Source(b, a), a)
      /\ Given(Source(b, a), a) # <<>> => Own(Source(b, a), a) # <<>>
  BY <1>1, <1>2, <1>3, <1>4 DEF ArrayInv, Source
<1> QED
  BY <1>1, <1>2, <1>3, <1>5 DEF Own, Dropping

(* If no hash is near the end of the range, equal directives are dropped.  *)
LEMMA InvDropped == ConfInv /\ HashesNear => DuplicatesDropped
<1> SUFFICES ASSUME ConfInv, HashesNear, stage = "serve",
                    NEW b \in Blocks, NEW a \in Arrays, Dropping(b, a),
                    NEW i \in DOMAIN conf[b][a], NEW j \in DOMAIN conf[b][a],
                    Text(conf[b][a][i]) = Text(conf[b][a][j])
             PROVE  i = j
  BY DEF DuplicatesDropped
<1> DEFINE s == Intended(b, a)
           c == conf[b][a]
<1>1. /\ file \in Files /\ Source(b, a) \in Blocks /\ s = Given(Source(b, a), a)
      /\ c = IF s # <<>> THEN unique(s) ELSE s
  BY InForce
<1>2. /\ s \in Seq(Entries(a))
      /\ \A k \in DOMAIN s : HashOf(s, k) \in Nat
      /\ Near({HashOf(s, k) : k \in DOMAIN s})
  <2>1. \A k \in DOMAIN s : HashOf(s, k) \in 0 .. W - 1
    BY <1>1, GivenIs
  <2>2. s \in Seq(Entries(a))
    BY <1>1, GivenIs
  <2>3. Near({HashOf(s, k) : k \in DOMAIN s})
    BY <1>1, GivenNear
  <2> QED
    BY <2>1, <2>2, <2>3
<1>3. HashOf(c, i) = HashOf(c, j)
  BY DEF HashOf
<1> HIDE DEF s, c
<1>4. CASE c = Kept(s)
  BY <1>2, <1>3, <1>4, KeptDistinct DEF c
<1>5. CASE c = s /\ Len(Kept(s)) = Len(s)
  BY <1>2, <1>3, <1>5, AllKept DEF c
<1>6. c = Kept(s) \/ (c = s /\ Len(Kept(s)) = Len(s)) \/ c = <<>>
  BY <1>1 DEF unique
<1>7. CASE c = <<>>
  BY <1>7 DEF c
<1> QED
  BY <1>4, <1>5, <1>6, <1>7

(* The first of them is kept. *)
LEMMA InvFirst == ConfInv /\ HashesNear => FirstOneWins
<1> SUFFICES ASSUME ConfInv, HashesNear, stage = "serve",
                    NEW b \in Blocks, NEW a \in Arrays, Dropping(b, a),
                    NEW i \in DOMAIN conf[b][a]
             PROVE  \E n \in DOMAIN Intended(b, a) :
                      /\ conf[b][a][i] = Intended(b, a)[n]
                      /\ \A k \in 1 .. n - 1 :
                           Text(Intended(b, a)[k]) # Text(conf[b][a][i])
  BY DEF FirstOneWins
<1> DEFINE s == Intended(b, a)
           c == conf[b][a]
<1>1. /\ file \in Files /\ Source(b, a) \in Blocks /\ s = Given(Source(b, a), a)
      /\ c = IF s # <<>> THEN unique(s) ELSE s
  BY InForce
<1>2. /\ s \in Seq(Entries(a))
      /\ \A k \in DOMAIN s : HashOf(s, k) \in Nat
      /\ Near({HashOf(s, k) : k \in DOMAIN s})
  <2>1. \A k \in DOMAIN s : HashOf(s, k) \in 0 .. W - 1
    BY <1>1, GivenIs
  <2>2. s \in Seq(Entries(a))
    BY <1>1, GivenIs
  <2>3. Near({HashOf(s, k) : k \in DOMAIN s})
    BY <1>1, GivenNear
  <2> QED
    BY <2>1, <2>2, <2>3
<1> SUFFICES \E n \in DOMAIN s : c[i] = s[n] /\ \A k \in 1 .. n - 1 : Text(s[k]) # Text(c[i])
  OBVIOUS
<1>3. i \in DOMAIN c
  OBVIOUS
<1> HIDE DEF s, c
<1>4. CASE c = Kept(s)
  <2>1. PICK n \in DOMAIN s :
          c[i] = s[n] /\ \A k \in 1 .. n - 1 : HashOf(s, k) # HashOf(s, n)
    BY <1>2, <1>3, <1>4, KeptFirst
  <2>2. \A k \in 1 .. n - 1 : Text(s[k]) # Text(c[i])
    BY <2>1 DEF HashOf
  <2> QED
    BY <2>1, <2>2
<1>5. CASE c = s /\ Len(Kept(s)) = Len(s)
  <2>1. DOMAIN s = 1 .. Len(s) /\ Len(s) \in Nat
    BY <1>2
  <2>2. ASSUME NEW k \in 1 .. i - 1 PROVE Text(s[k]) # Text(s[i])
    <3>1. k \in DOMAIN s /\ k # i /\ i \in DOMAIN s
      BY <1>3, <1>5, <2>1
    <3>2. HashOf(s, k) # HashOf(s, i)
      BY <1>2, <1>5, <3>1, AllKept
    <3> QED
      BY <3>2 DEF HashOf
  <2> QED
    BY <1>3, <1>5, <2>2
<1>6. c = Kept(s) \/ (c = s /\ Len(Kept(s)) = Len(s)) \/ c = <<>>
  BY <1>1 DEF unique
<1>7. CASE c = <<>>
  BY <1>3, <1>7
<1> QED
  BY <1>4, <1>5, <1>6, <1>7

(* If no two hashes collide, no directive is lost. *)
LEMMA InvNoneLost == ConfInv /\ HashesApart => NoneLost
<1> SUFFICES ASSUME ConfInv, HashesApart, stage = "serve",
                    NEW b \in Blocks, NEW a \in Arrays,
                    NEW n \in DOMAIN Intended(b, a), Text(Intended(b, a)[n]) # <<>>
             PROVE  \E i \in DOMAIN conf[b][a] :
                      Text(conf[b][a][i]) = Text(Intended(b, a)[n])
  BY DEF NoneLost
<1> DEFINE s == Intended(b, a)
           c == conf[b][a]
<1>1. /\ file \in Files /\ Source(b, a) \in Blocks /\ s = Given(Source(b, a), a)
      /\ c = unique(s) \/ c = s
  BY InForce
<1>2. /\ s \in Seq(Entries(a))
      /\ \A k \in DOMAIN s : HashOf(s, k) \in Nat
      /\ \A k \in DOMAIN s : s[k] \in Entries(a)
  <2>1. \A k \in DOMAIN s : HashOf(s, k) \in 0 .. W - 1
    BY <1>1, GivenIs
  <2> QED
    BY <1>1, <2>1, GivenIs
<1>3. n \in DOMAIN s /\ Text(s[n]) # <<>> /\ HashOf(s, n) # 0
  BY <1>1, <1>2 DEF HashesApart, HashOf, Entries
<1> SUFFICES \E i \in DOMAIN c : Text(c[i]) = Text(s[n])
  OBVIOUS
<1> HIDE DEF s, c
<1>4. CASE c = Kept(s)
  <2>1. PICK j \in DOMAIN c : HashOf(c, j) = HashOf(s, n)
    BY <1>2, <1>3, <1>4, KeptHashes
  <2>2. PICK k \in DOMAIN s : c[j] = s[k]
    <3>1. c \in Seq(Range(s))
      <4>1. s \in Seq(Range(s))
        <5>1. DOMAIN s = 1 .. Len(s) /\ Len(s) \in Nat
          BY <1>2
        <5>2. s \in [1 .. Len(s) -> Range(s)]
          BY <1>2, <5>1 DEF Range
        <5> QED
          BY <5>1, <5>2
      <4> QED
        BY <1>2, <1>4, <4>1, KeptIs
    <3>2. c[j] \in Range(s)
      BY <3>1
    <3> QED
      BY <3>2 DEF Range
  <2>3. Text(s[k]) = Text(s[n])
    BY <1>1, <1>2, <1>3, <2>1, <2>2 DEF HashesApart, HashOf, Entries
  <2> QED
    BY <2>2, <2>3
<1>5. CASE c = s
  BY <1>3, <1>5
<1> QED
  BY <1>1, <1>4, <1>5 DEF unique

(* An array that is not shorter is the one of the file.                    *)
LEMMA InvOrder == ConfInv => OrderOfFile
<1> SUFFICES ASSUME ConfInv, stage = "serve", NEW b \in Blocks, NEW a \in Arrays,
                    Len(conf[b][a]) = Len(Intended(b, a))
             PROVE  conf[b][a] = Intended(b, a)
  BY DEF OrderOfFile
<1> QED
  BY InForce DEF unique

(* What is left of the directives has the keys of all of them.             *)
LEMMA InvZones == ConfInv /\ KeysApart => ZonesResolved
<1> SUFFICES ASSUME ConfInv, KeysApart, stage = "serve",
                    NEW b \in Blocks, NEW a \in Arrays
             PROVE  {conf[b][a][i].key : i \in DOMAIN conf[b][a]}
                      = {Intended(b, a)[i].key : i \in DOMAIN Intended(b, a)}
  BY DEF ZonesResolved
<1> DEFINE s == Intended(b, a)
           c == conf[b][a]
<1>1. /\ file \in Files /\ Source(b, a) \in Blocks /\ s = Given(Source(b, a), a)
      /\ c = unique(s) \/ c = s
      /\ s # <<>> => c # <<>>
  BY InForce
<1>2. /\ s \in Seq(Entries(a))
      /\ \A k \in DOMAIN s : HashOf(s, k) \in Nat
      /\ \A k \in DOMAIN s : s[k] \in Entries(a)
  <2>1. \A k \in DOMAIN s : HashOf(s, k) \in 0 .. W - 1
    BY <1>1, GivenIs
  <2> QED
    BY <1>1, <2>1, GivenIs
<1> SUFFICES {c[i].key : i \in DOMAIN c} = {s[i].key : i \in DOMAIN s}
  OBVIOUS
<1> HIDE DEF s, c
<1>3. CASE c = Kept(s)
  <2>1. \A j \in DOMAIN c : \E k \in DOMAIN s : c[j] = s[k]
    <3>1. s \in Seq(Range(s))
      <4>1. DOMAIN s = 1 .. Len(s) /\ Len(s) \in Nat
        BY <1>2
      <4>2. s \in [1 .. Len(s) -> Range(s)]
        BY <1>2, <4>1 DEF Range
      <4> QED
        BY <4>1, <4>2
    <3>2. c \in Seq(Range(s))
      BY <1>2, <1>3, <3>1, KeptIs
    <3>3. \A j \in DOMAIN c : c[j] \in Range(s)
      BY <3>2
    <3> QED
      BY <3>3 DEF Range
  <2>2. ASSUME NEW n \in DOMAIN s PROVE \E j \in DOMAIN c : c[j].key = s[n].key
    <3>1. CASE HashOf(s, n) # 0
      <4>1. PICK j \in DOMAIN c : HashOf(c, j) = HashOf(s, n)
        BY <1>2, <1>3, <3>1, KeptHashes
      <4>2. PICK k \in DOMAIN s : c[j] = s[k]
        BY <2>1
      <4>3. s[n].key = s[k].key
        BY <1>1, <1>2, <4>1, <4>2 DEF KeysApart, HashOf, Entries
      <4> QED
        BY <4>2, <4>3
    <3>2. CASE HashOf(s, n) = 0
      <4>1. \E j : j \in DOMAIN c
        <5>1. s # <<>>
          BY <1>2
        <5>2. c \in Seq(Range(s))
          <6>1. s \in Seq(Range(s))
            <7>1. DOMAIN s = 1 .. Len(s) /\ Len(s) \in Nat
              BY <1>2
            <7>2. s \in [1 .. Len(s) -> Range(s)]
              BY <1>2, <7>1 DEF Range
            <7> QED
              BY <7>1, <7>2
          <6> QED
            BY <1>2, <1>3, <6>1, KeptIs
        <5>3. c # <<>>
          BY <1>1, <5>1
        <5>4. DOMAIN c = 1 .. Len(c) /\ Len(c) \in Nat /\ (Len(c) = 0 => c = <<>>)
          BY <5>2
        <5>5. 1 \in DOMAIN c
          BY <5>3, <5>4
        <5> QED
          BY <5>5
      <4>2. PICK j \in DOMAIN c : TRUE
        BY <4>1
      <4>3. PICK k \in DOMAIN s : c[j] = s[k]
        BY <2>1
      <4>4. s[n].key = s[k].key
        BY <1>1, <1>2, <3>2, <4>3 DEF KeysApart, HashOf, Entries
      <4> QED
        BY <4>3, <4>4
    <3> QED
      BY <3>1, <3>2
  <2> QED
    BY <2>1, <2>2
<1>4. CASE c = s
  BY <1>4
<1> QED
  BY <1>1, <1>3, <1>4 DEF unique

(* If the hashes of a file lie within half of the range, only one of equal *)
(* directives is in force, whatever the file, its blocks, flags and order  *)
(* (filter_unique, limit_traffic_unique, init_main_conf, merge_loc_conf).  *)
THEOREM Dropped ==
  ASSUME HashesNear
  PROVE  ConfSpec => []DuplicatesDropped
<1>1. ConfInv => DuplicatesDropped
  BY InvDropped
<1> QED
  BY <1>1, ConfInvariant, PTL

(* It is then the one written first, with its size and code. *)
THEOREM FirstKept ==
  ASSUME HashesNear
  PROVE  ConfSpec => []FirstOneWins
<1>1. ConfInv => FirstOneWins
  BY InvFirst
<1> QED
  BY <1>1, ConfInvariant, PTL

(* If no two texts of a file have the same hash and none has hash 0, no    *)
(* directive is lost, wherever in the range the hashes lie and in whatever *)
(* order the sort therefore leaves them.                                   *)
THEOREM DirectivesKept ==
  ASSUME HashesApart
  PROVE  ConfSpec => []NoneLost
<1>1. ConfInv => NoneLost
  BY InvNoneLost
<1> QED
  BY <1>1, ConfInvariant, PTL

(* If no hash brings two keys together, the zones of the limits in force   *)
(* are those their texts mean, however they are escaped                    *)
(* (limit_traffic_by_set_key, replace_strc).                               *)
THEOREM ZonesMeant ==
  ASSUME KeysApart
  PROVE  ConfSpec => []ZonesResolved
<1>1. ConfInv => ZonesResolved
  BY InvZones
<1> QED
  BY <1>1, ConfInvariant, PTL

(* Whatever the hashes, an array that lost no directive is in the order of *)
(* the file, and holds the zones that the texts mean.                      *)
THEOREM FileOrder == ConfSpec => []OrderOfFile
<1>1. ConfInv => OrderOfFile
  BY InvOrder
<1> QED
  BY <1>1, ConfInvariant, PTL

(* Without any condition, the name of every filter in force is read back   *)
(* from the JSON page, unless it is all control characters, and as UTF-8   *)
(* from the Prometheus page (escape_json_pool, escape_prometheus).         *)
THEOREM NamesShown == ConfSpec => []NamesReadBack
<1>1. ConfTypeOK => NamesReadBack
  <2> SUFFICES ASSUME ConfTypeOK, NEW b \in Blocks, NEW i \in DOMAIN conf[b]["filter_keys"]
               PROVE  ReadBack(conf[b]["filter_keys"][i].name)
    BY DEF NamesReadBack
  <2> DEFINE a == "filter_keys"
             c == conf[b][a]
  <2>1. file \in Files /\ c \in Seq(Directives(file, a))
    BY DEF ConfTypeOK, Arrays
  <2> HIDE DEF c
  <2>2. c[i] \in Directives(file, a)
    BY <2>1 DEF c
  <2>3. PICK d \in Range(file) : ~IsFlag(d) /\ d.array = a /\ c[i] = Resolved(d)
    BY <2>2 DEF Directives
  <2>4. c[i] = d
    BY <2>3 DEF Resolved
  <2>5. PICK j \in DOMAIN file : d = file[j]
    BY DEF Range
  <2>6. d.name \in Seq(Chars)
    BY <2>1, <2>3, <2>5, ConfAssumption
  <2> QED
    BY <2>4, <2>6, NameReadBack DEF c
<1> QED
  BY <1>1, ConfTypesHold, PTL
=============================================================================
