------------------------------- MODULE Recursion -------------------------------
(***************************************************************************)
(* Induction and recursion without operators as parameters: a property is  *)
(* the set of the numbers that have it, a recursive definition the function*)
(* that its body computes from a function.  The other modules of proofs    *)
(* use these lemmas for the recursive functions of the model.              *)
(***************************************************************************)
EXTENDS Integers, Sequences, Functions, FiniteSetTheorems, WellFoundedInduction,
        TLAPS

(* Every set of natural numbers that is not empty has a least member. *)
LEMMA LeastNat ==
  ASSUME NEW T \in SUBSET Nat, T # {}
  PROVE  \E n \in T : \A m \in T : n <= m
<1> DEFINE R == OpToRel(<, Nat)
<1>1. IsWellFoundedOn(R, Nat)
  BY NatLessThanWellFounded
<1>2. PICK n \in T : \A m \in T : ~(<<m, n>> \in R)
  <2> HIDE DEF R
  <2> QED BY <1>1, WFMin
<1>3. \A m \in T : <<m, n>> \in R <=> m < n
  BY DEF OpToRel
<1> HIDE DEF R
<1>4. \A m \in T : ~(m < n)
  BY <1>2, <1>3
<1>5. \A m \in T : m \in Nat
  OBVIOUS
<1>6. \A m \in T : n <= m
  BY <1>4, <1>5
<1> QED
  BY <1>6

(* A set of naturals with 0 and every successor has all of them.           *)
LEMMA InductionNat ==
  ASSUME NEW T \in SUBSET Nat, 0 \in T, \A n \in T : n + 1 \in T
  PROVE  T = Nat
<1> DEFINE U == Nat \ T
<1>1. SUFFICES ASSUME U # {} PROVE FALSE
  OBVIOUS
<1>2. PICK n \in U : \A m \in U : n <= m
  BY <1>1, LeastNat
<1>3. n # 0 /\ n - 1 \in Nat /\ n - 1 \notin U
  BY <1>2
<1> QED
  BY <1>2, <1>3

(* A set of the members of D that has each of them as soon as it has those *)
(* of smaller measure has them all.                                        *)
LEMMA InductionMeasure ==
  ASSUME NEW D, NEW m \in [D -> Nat], NEW T,
         \A x \in D : (\A y \in D : m[y] < m[x] => y \in T) => x \in T
  PROVE  \A x \in D : x \in T
<1> DEFINE U == {n \in Nat : \A x \in D : m[x] < n => x \in T}
<1>1. 0 \in U
  OBVIOUS
<1>2. \A n \in U : n + 1 \in U
  <2> SUFFICES ASSUME NEW n \in U, NEW x \in D, m[x] < n + 1 PROVE x \in T
    OBVIOUS
  <2>1. \A y \in D : m[y] < m[x] => m[y] < n
    OBVIOUS
  <2> QED
    BY <2>1
<1>3. U = Nat
  <2> HIDE DEF U
  <2>1. U \in SUBSET Nat
    BY DEF U
  <2> QED
    BY <1>1, <1>2, <2>1, InductionNat
<1> SUFFICES ASSUME NEW x \in D PROVE x \in T
  OBVIOUS
<1>4. m[x] + 1 \in U /\ m[x] < m[x] + 1
  <2> HIDE DEF U
  <2> QED BY <1>3
<1> QED
  BY <1>4

(* F computes a function from D to T from another one, and its value at x  *)
(* needs no more than the values at arguments of smaller measure m.        *)
Descends(D, T, m, F) ==
  /\ m \in [D -> Nat]
  /\ F \in [[D -> T] -> [D -> T]]
  /\ \A g, h \in [D -> T], x \in D :
       (\A y \in D : m[y] < m[x] => g[y] = h[y]) => F[g][x] = F[h][x]

(* Such an F has a fixed point: the recursive definition                   *)
(* f[x \in D] == F[f][x] defines a function.                               *)
LEMMA FixedPoint ==
  ASSUME NEW D, NEW T, NEW t \in T, NEW m, NEW F, Descends(D, T, m, F)
  PROVE  \E f \in [D -> T] : f = F[f]
<1>a. m \in [D -> Nat] /\ F \in [[D -> T] -> [D -> T]]
  BY DEF Descends
<1>b. \A g, h \in [D -> T], x \in D :
         (\A y \in D : m[y] < m[x] => g[y] = h[y]) => F[g][x] = F[h][x]
  BY DEF Descends
<1> USE <1>a
<1> DEFINE Approx(n) == {g \in [D -> T] : \A x \in D : m[x] < n => g[x] = F[g][x]}
           Some == {n \in Nat : Approx(n) # {}}
           Same == {n \in Nat : \A g, h \in Approx(n), x \in D :
                                  m[x] < n => g[x] = h[x]}
<1>1. 0 \in Some
  <2>1. [x \in D |-> t] \in Approx(0)
    OBVIOUS
  <2> QED
    BY <2>1
<1>2. \A n \in Some : n + 1 \in Some
  <2> SUFFICES ASSUME NEW n \in Some PROVE n + 1 \in Some
    OBVIOUS
  <2>0. n \in Nat /\ n + 1 \in Nat
    OBVIOUS
  <2>1. PICK g \in Approx(n) : TRUE
    OBVIOUS
  <2>2. F[g] \in [D -> T]
    BY <2>1
  <2>3. ASSUME NEW x \in D, m[x] < n + 1
        PROVE  F[g][x] = F[F[g]][x]
    <3>1. \A y \in D : m[y] < m[x] => g[y] = F[g][y]
      <4> SUFFICES ASSUME NEW y \in D, m[y] < m[x] PROVE g[y] = F[g][y]
        OBVIOUS
      <4>1. m[y] < n
        BY <2>3
      <4> QED
        BY <2>1, <4>1
    <3> QED
      BY <1>b, <2>1, <2>2, <3>1
  <2>4. F[g] \in Approx(n + 1)
    BY <2>2, <2>3
  <2> HIDE DEF Approx
  <2> QED
    BY <2>0, <2>4
<1>3. \A n \in Nat, k \in Nat : k <= n => Approx(n) \subseteq Approx(k)
  <2> SUFFICES ASSUME NEW n \in Nat, NEW k \in Nat, k <= n, NEW g \in Approx(n),
                      NEW x \in D, m[x] < k
               PROVE  g[x] = F[g][x]
    OBVIOUS
  <2>1. m[x] < n
    OBVIOUS
  <2> QED
    BY <2>1
<1>4. 0 \in Same
  OBVIOUS
<1>5. \A n \in Same : n + 1 \in Same
  <2> SUFFICES ASSUME NEW n \in Same PROVE n + 1 \in Same
    OBVIOUS
  <2>0. n \in Nat /\ n + 1 \in Nat
    OBVIOUS
  <2> SUFFICES ASSUME NEW g \in Approx(n + 1), NEW h \in Approx(n + 1),
                      NEW x \in D, m[x] < n + 1
               PROVE  g[x] = h[x]
    <3> HIDE DEF Approx
    <3> QED BY <2>0
  <2>1. g \in Approx(n) /\ h \in Approx(n)
    BY <1>3
  <2>2. \A y \in D : m[y] < m[x] => g[y] = h[y]
    <3> SUFFICES ASSUME NEW y \in D, m[y] < m[x] PROVE g[y] = h[y]
      OBVIOUS
    <3>1. m[y] < n
      OBVIOUS
    <3> QED
      BY <2>1, <3>1
  <2>3. F[g][x] = F[h][x]
    BY <1>b, <2>2
  <2> QED
    BY <2>3
<1>6. Some = Nat /\ Same = Nat
  <2> HIDE DEF Some, Same
  <2>1. Some \in SUBSET Nat /\ Same \in SUBSET Nat
    BY DEF Some, Same
  <2> QED
    BY <1>1, <1>2, <1>4, <1>5, <2>1, InductionNat
<1> DEFINE G == [n \in Nat |-> CHOOSE g \in [D -> T] : g \in Approx(n)]
<1>7. \A n \in Nat : G[n] \in Approx(n)
  <2> SUFFICES ASSUME NEW n \in Nat PROVE G[n] \in Approx(n)
    OBVIOUS
  <2>1. n \in Some
    <3> HIDE DEF Some
    <3> QED BY <1>6
  <2>2. \E g \in [D -> T] : g \in Approx(n)
    BY <2>1
  <2> HIDE DEF Approx
  <2> QED
    BY <2>2
<1>8. \A n \in Nat : \A g, h \in Approx(n), x \in D : m[x] < n => g[x] = h[x]
  <2> SUFFICES ASSUME NEW n \in Nat PROVE n \in Same
    OBVIOUS
  <2> HIDE DEF Same
  <2> QED BY <1>6
<1> DEFINE f == [x \in D |-> G[m[x] + 1][x]]
<1>9. f \in [D -> T]
  <2> SUFFICES ASSUME NEW x \in D PROVE G[m[x] + 1][x] \in T
    OBVIOUS
  <2>1. m[x] + 1 \in Nat
    OBVIOUS
  <2>2. G[m[x] + 1] \in [D -> T]
    BY <1>7, <2>1
  <2> QED
    BY <2>2
<1>10. ASSUME NEW x \in D PROVE f[x] = F[f][x]
  <2> DEFINE g == G[m[x] + 1]
  <2>1. m[x] + 1 \in Nat /\ m[x] < m[x] + 1
    OBVIOUS
  <2>2. g \in Approx(m[x] + 1)
    BY <1>7, <2>1
  <2>3. g \in [D -> T] /\ g[x] = F[g][x]
    BY <2>1, <2>2
  <2>4. ASSUME NEW y \in D, m[y] < m[x] PROVE f[y] = g[y]
    <3>1. m[y] + 1 \in Nat /\ m[y] < m[y] + 1 /\ m[y] + 1 <= m[x] + 1
      BY <2>4
    <3>2. G[m[y] + 1] \in Approx(m[y] + 1)
      BY <1>7, <3>1
    <3>3. g \in Approx(m[y] + 1)
      BY <1>3, <2>1, <2>2, <3>1
    <3> HIDE DEF G, g, Approx
    <3>4. G[m[y] + 1][y] = g[y]
      BY <1>8, <3>1, <3>2, <3>3
    <3> QED
      BY <3>4
  <2>5. f[x] = g[x]
    OBVIOUS
  <2> HIDE DEF f, g, Approx, G
  <2>6. F[f][x] = F[g][x]
    BY <1>b, <1>9, <2>3, <2>4
  <2> QED
    BY <2>3, <2>5, <2>6
<1> HIDE DEF f
<1>11. F[f] \in [D -> T]
  BY <1>9
<1>12. f = F[f]
  BY <1>9, <1>10, <1>11
<1> QED
  BY <1>9, <1>12
-----------------------------------------------------------------------------
(* Counting up to a bound *)

(* What holds at 0 and passes from each number to the next holds up to n.  *)
LEMMA InductionUpTo ==
  ASSUME NEW n \in Nat, NEW T, 0 \in T,
         \A i \in 1..n : i - 1 \in T => i \in T
  PROVE  \A i \in 0..n : i \in T
<1> DEFINE U == {i \in Nat : i <= n => i \in T}
<1>1. 0 \in U
  OBVIOUS
<1>2. ASSUME NEW i \in U PROVE i + 1 \in U
  <2>1. i \in Nat /\ i + 1 \in Nat /\ (i <= n => i \in T)
    OBVIOUS
  <2>2. ASSUME i + 1 <= n PROVE i + 1 \in T
    <3>1. i + 1 \in 1..n /\ i <= n /\ (i + 1) - 1 = i
      BY <2>1, <2>2
    <3> QED
      BY <2>1, <3>1
  <2> QED
    BY <2>1, <2>2
<1>3. U = Nat
  <2> HIDE DEF U
  <2>1. U \in SUBSET Nat
    BY DEF U
  <2> QED
    BY <1>1, <1>2, <2>1, InductionNat
<1> SUFFICES ASSUME NEW i \in 0..n PROVE i \in T
  OBVIOUS
<1>4. i \in Nat /\ i <= n
  OBVIOUS
<1>5. i \in U
  <2> HIDE DEF U
  <2> QED BY <1>3, <1>4
<1> QED
  BY <1>4, <1>5

(* A recursion over 0..n that starts with t and takes the steps f. *)
Steps(n, t, f, g) ==
  [i \in 0..n |-> IF i = 0 THEN t ELSE f[i][g[i - 1]]]

(* There is a function that it defines. *)
LEMMA StepsExist ==
  ASSUME NEW n \in Nat, NEW T, NEW t \in T, NEW f \in [1..n -> [T -> T]]
  PROVE  \E g \in [0..n -> T] : g = Steps(n, t, f, g)
<1> DEFINE D == 0..n
           m == [i \in D |-> i]
           F == [g \in [D -> T] |-> Steps(n, t, f, g)]
<1>1. m \in [D -> Nat]
  OBVIOUS
<1>2. ASSUME NEW g \in [D -> T], NEW i \in D
      PROVE  Steps(n, t, f, g)[i] \in T
  <2>1. CASE i = 0
    BY <2>1 DEF Steps
  <2>2. CASE i # 0
    <3>1. i \in 1..n /\ i - 1 \in D
      BY <2>2
    <3>2. g[i - 1] \in T /\ f[i] \in [T -> T]
      BY <3>1
    <3>3. f[i][g[i - 1]] \in T
      BY <3>2
    <3> QED
      BY <2>2, <3>3 DEF Steps
  <2> QED
    BY <2>1, <2>2
<1>3. \A g \in [D -> T] : Steps(n, t, f, g) \in [D -> T]
  BY <1>2 DEF Steps
<1>4. F \in [[D -> T] -> [D -> T]]
  BY <1>3
<1>5. ASSUME NEW g \in [D -> T], NEW h \in [D -> T], NEW i \in D,
             \A j \in D : m[j] < m[i] => g[j] = h[j]
      PROVE  F[g][i] = F[h][i]
  <2>1. CASE i = 0
    BY <2>1 DEF Steps
  <2>2. CASE i # 0
    <3>1. i - 1 \in D /\ i - 1 < i
      BY <2>2
    <3>2. g[i - 1] = h[i - 1]
      BY <1>5, <3>1
    <3> QED
      BY <2>2, <3>2 DEF Steps
  <2> QED
    BY <2>1, <2>2
<1>6. \A g \in [D -> T] : F[g] = Steps(n, t, f, g)
  OBVIOUS
<1> HIDE DEF D, F, m
<1>7. Descends(D, T, m, F)
  BY <1>1, <1>4, <1>5 DEF Descends
<1>8. \E g \in [D -> T] : g = F[g]
  BY <1>7, FixedPoint
<1> QED
  BY <1>6, <1>8 DEF D
-----------------------------------------------------------------------------
(* Sums *)

(* SumFunctionOnSet(f, S) is g[S] for a g with g = SumBody(f, S, g). *)
SumBody(f, S, g) ==
  [s \in SUBSET S |-> IF s = {} THEN 0
                      ELSE LET x == CHOOSE y \in s : TRUE
                           IN f[x] + g[s \ {x}]]

LEMMA SumUnfolds ==
  ASSUME NEW f, NEW S
  PROVE  SumFunctionOnSet(f, S) = (CHOOSE g : g = SumBody(f, S, g))[S]
  BY DEF SumFunctionOnSet, FoldFunctionOnSet, MapThenFoldSet, SumBody

(* Two such functions agree where the summands do. *)
LEMMA SumUnique ==
  ASSUME NEW S, NEW V, NEW f, NEW h, NEW g, NEW k,
         g = SumBody(f, S, g), k = SumBody(h, V, k),
         NEW U, IsFiniteSet(U), U \subseteq S, U \subseteq V,
         \A x \in U : f[x] = h[x]
  PROVE  \A s \in SUBSET U : g[s] = k[s]
<1> DEFINE m == [s \in SUBSET U |-> Cardinality(s)]
           T == {s \in SUBSET U : g[s] = k[s]}
<1>1. \A s \in SUBSET U : IsFiniteSet(s) /\ Cardinality(s) \in Nat
  BY FS_Subset, FS_CardinalityType
<1>2. m \in [SUBSET U -> Nat]
  BY <1>1
<1>3. ASSUME NEW s \in SUBSET U,
             \A u \in SUBSET U : m[u] < m[s] => u \in T
      PROVE  s \in T
  <2>1. /\ g[s] = IF s = {} THEN 0 ELSE LET x == CHOOSE y \in s : TRUE
                                        IN f[x] + g[s \ {x}]
        /\ k[s] = IF s = {} THEN 0 ELSE LET x == CHOOSE y \in s : TRUE
                                        IN h[x] + k[s \ {x}]
    BY DEF SumBody
  <2>2. CASE s = {}
    BY <2>1, <2>2
  <2>3. CASE s # {}
    <3>1. PICK x \in s : x = CHOOSE y \in s : TRUE
      BY <2>3
    <3>2. /\ g[s] = f[x] + g[s \ {x}]
          /\ k[s] = h[x] + k[s \ {x}]
      BY <2>1, <2>3, <3>1
    <3>3. Cardinality(s \ {x}) = Cardinality(s) - 1
      BY <1>1, <3>1, FS_RemoveElement
    <3>4. m[s \ {x}] < m[s]
      BY <1>1, <3>3
    <3>5. s \ {x} \in T
      BY <1>3, <3>4
    <3> QED
      BY <3>2, <3>5
  <2> QED
    BY <2>2, <2>3
<1> HIDE DEF m, T
<1>4. \A s \in SUBSET U : s \in T
  BY <1>2, <1>3, InductionMeasure
<1> QED
  BY <1>4 DEF T

(* There is one, if the summands are natural numbers. *)
LEMMA SumExists ==
  ASSUME NEW S, IsFiniteSet(S), NEW f, \A x \in S : f[x] \in Nat
  PROVE  \E g \in [SUBSET S -> Nat] : g = SumBody(f, S, g)
<1> DEFINE D == SUBSET S
           m == [s \in D |-> Cardinality(s)]
           F == [g \in [D -> Nat] |-> SumBody(f, S, g)]
<1>1. \A s \in D : IsFiniteSet(s) /\ Cardinality(s) \in Nat
  BY FS_Subset, FS_CardinalityType
<1>2. m \in [D -> Nat]
  BY <1>1
<1>3. ASSUME NEW g \in [D -> Nat], NEW s \in D
      PROVE  /\ SumBody(f, S, g)[s] \in Nat
             /\ s = {} => SumBody(f, S, g)[s] = 0
             /\ s # {} => \E x \in s :
                  /\ x = CHOOSE y \in s : TRUE
                  /\ SumBody(f, S, g)[s] = f[x] + g[s \ {x}]
  <2>1. SumBody(f, S, g)[s] = IF s = {} THEN 0 ELSE LET x == CHOOSE y \in s : TRUE
                                                    IN f[x] + g[s \ {x}]
    BY DEF SumBody
  <2>2. CASE s = {}
    BY <2>1, <2>2
  <2>3. CASE s # {}
    <3>1. PICK x \in s : x = CHOOSE y \in s : TRUE
      BY <2>3
    <3>2. f[x] \in Nat /\ g[s \ {x}] \in Nat
      OBVIOUS
    <3>3. SumBody(f, S, g)[s] = f[x] + g[s \ {x}]
      BY <2>1, <2>3, <3>1
    <3> DEFINE b == SumBody(f, S, g)[s]
    <3> HIDE DEF b, D
    <3>4. b = f[x] + g[s \ {x}]
      BY <3>3 DEF b
    <3>5. b \in Nat
      BY <3>2, <3>4
    <3>6. \E y \in s : y = (CHOOSE z \in s : TRUE) /\ b = f[y] + g[s \ {y}]
      BY <3>1, <3>4
    <3> QED
      BY <2>3, <3>5, <3>6 DEF b
  <2> QED
    BY <2>2, <2>3
<1>4. \A g \in [D -> Nat] : SumBody(f, S, g) \in [D -> Nat]
  BY <1>3 DEF SumBody
<1>5. F \in [[D -> Nat] -> [D -> Nat]]
  BY <1>4
<1>6. ASSUME NEW g \in [D -> Nat], NEW h \in [D -> Nat], NEW s \in D,
             \A u \in D : m[u] < m[s] => g[u] = h[u]
      PROVE  F[g][s] = F[h][s]
  <2>1. F[g] = SumBody(f, S, g) /\ F[h] = SumBody(f, S, h)
    OBVIOUS
  <2>2. CASE s = {}
    BY <1>3, <2>1, <2>2
  <2>3. CASE s # {}
    <3>1. PICK x \in s : /\ x = CHOOSE y \in s : TRUE
                         /\ SumBody(f, S, g)[s] = f[x] + g[s \ {x}]
      BY <1>3, <2>3
    <3>2. SumBody(f, S, h)[s] = f[x] + h[s \ {x}]
      BY <1>3, <2>3, <3>1
    <3>3. Cardinality(s \ {x}) = Cardinality(s) - 1
      BY <1>1, <3>1, FS_RemoveElement
    <3>4. m[s \ {x}] < m[s] /\ s \ {x} \in D
      BY <1>1, <3>3
    <3>5. g[s \ {x}] = h[s \ {x}]
      BY <1>6, <3>4
    <3> HIDE DEF F
    <3> QED
      BY <2>1, <3>1, <3>2, <3>5
  <2> QED
    BY <2>2, <2>3
<1>7. \A g \in [D -> Nat] : F[g] = SumBody(f, S, g)
  OBVIOUS
<1> HIDE DEF D, F, m
<1>8. Descends(D, Nat, m, F)
  BY <1>2, <1>5, <1>6 DEF Descends
<1>9. \E g \in [D -> Nat] : g = F[g]
  BY <1>8, FixedPoint
<1> QED
  BY <1>7, <1>9 DEF D

(* The sum is one of any function that adds as it does. *)
LEMMA SumIs ==
  ASSUME NEW S, IsFiniteSet(S), NEW f, \A x \in S : f[x] \in Nat
  PROVE  \E g \in [SUBSET S -> Nat] :
           g = SumBody(f, S, g) /\ SumFunctionOnSet(f, S) = g[S]
<1> DEFINE c == CHOOSE g : g = SumBody(f, S, g)
<1>1. PICK g \in [SUBSET S -> Nat] : g = SumBody(f, S, g)
  BY SumExists
<1>2. c = SumBody(f, S, c)
  BY <1>1
<1> HIDE DEF c
<1>3. c[S] = g[S]
  BY <1>1, <1>2, SumUnique
<1>4. SumFunctionOnSet(f, S) = c[S]
  BY SumUnfolds DEF c
<1> QED
  BY <1>1, <1>3, <1>4

(* Only the summands matter. *)
LEMMA SumSame ==
  ASSUME NEW S, IsFiniteSet(S), NEW f, NEW h,
         \A x \in S : f[x] \in Nat /\ h[x] = f[x]
  PROVE  SumFunctionOnSet(f, S) = SumFunctionOnSet(h, S)
<1>1. PICK g \in [SUBSET S -> Nat] :
        g = SumBody(f, S, g) /\ SumFunctionOnSet(f, S) = g[S]
  BY SumIs
<1>2. \A x \in S : h[x] \in Nat
  OBVIOUS
<1>3. PICK k \in [SUBSET S -> Nat] :
        k = SumBody(h, S, k) /\ SumFunctionOnSet(h, S) = k[S]
  BY <1>2, SumIs
<1>4. \A s \in SUBSET S : g[s] = k[s]
  BY <1>1, <1>3, SumUnique
<1> QED
  BY <1>1, <1>3, <1>4

(* The sum over nothing, and of natural numbers. *)
LEMMA SumEmpty == \A f : SumFunctionOnSet(f, {}) = 0
<1> SUFFICES ASSUME NEW f PROVE SumFunctionOnSet(f, {}) = 0
  OBVIOUS
<1>1. IsFiniteSet({})
  BY FS_EmptySet
<1>2. PICK g \in [SUBSET {} -> Nat] :
        g = SumBody(f, {}, g) /\ SumFunctionOnSet(f, {}) = g[{}]
  BY <1>1, SumIs
<1>3. SumBody(f, {}, g)[{}] = 0
  BY DEF SumBody
<1> QED
  BY <1>2, <1>3

LEMMA SumType ==
  ASSUME NEW S, IsFiniteSet(S), NEW f, \A x \in S : f[x] \in Nat
  PROVE  SumFunctionOnSet(f, S) \in Nat
<1>1. PICK g \in [SUBSET S -> Nat] :
        g = SumBody(f, S, g) /\ SumFunctionOnSet(f, S) = g[S]
  BY SumIs
<1>2. S \in SUBSET S
  OBVIOUS
<1> QED
  BY <1>1, <1>2

(* The sum takes its members one at a time, in some order.                 *)
LEMMA SumChooses ==
  ASSUME NEW S, IsFiniteSet(S), NEW f, \A x \in S : f[x] \in Nat, S # {}
  PROVE  \E x \in S : SumFunctionOnSet(f, S) = f[x] + SumFunctionOnSet(f, S \ {x})
<1>1. PICK g \in [SUBSET S -> Nat] :
        g = SumBody(f, S, g) /\ SumFunctionOnSet(f, S) = g[S]
  BY SumIs
<1>2. PICK x \in S : x = CHOOSE y \in S : TRUE
  OBVIOUS
<1>3. g[S] = f[x] + g[S \ {x}]
  <2>1. SumBody(f, S, g)[S] = f[x] + g[S \ {x}]
    BY <1>2 DEF SumBody
  <2> QED
    BY <1>1, <2>1
<1> DEFINE V == S \ {x}
<1>4. IsFiniteSet(V) /\ \A y \in V : f[y] \in Nat
  BY FS_Subset
<1>5. V \subseteq S
  OBVIOUS
<1> HIDE DEF V
<1>6. PICK k \in [SUBSET V -> Nat] :
        k = SumBody(f, V, k) /\ SumFunctionOnSet(f, V) = k[V]
  BY <1>4, SumIs
<1>7. g[V] = k[V]
  <2>1. \A s \in SUBSET V : g[s] = k[s]
    BY <1>1, <1>4, <1>5, <1>6, SumUnique
  <2> QED
    BY <2>1
<1> QED
  BY <1>1, <1>3, <1>6, <1>7 DEF V

(* Hence in any order. *)
LEMMA SumRemove ==
  ASSUME NEW S, IsFiniteSet(S), NEW f, \A x \in S : f[x] \in Nat
  PROVE  \A x \in S : SumFunctionOnSet(f, S) = f[x] + SumFunctionOnSet(f, S \ {x})
<1> DEFINE D == SUBSET S
           m == [s \in D |-> Cardinality(s)]
           T == {s \in D : \A x \in s : SumFunctionOnSet(f, s) =
                                          f[x] + SumFunctionOnSet(f, s \ {x})}
<1>1. \A s \in D : IsFiniteSet(s) /\ Cardinality(s) \in Nat
  BY FS_Subset, FS_CardinalityType
<1>2. m \in [D -> Nat]
  BY <1>1
<1>3. ASSUME NEW s \in D, \A u \in D : m[u] < m[s] => u \in T
      PROVE  s \in T
  <2> SUFFICES ASSUME NEW x \in s
               PROVE  SumFunctionOnSet(f, s) = f[x] + SumFunctionOnSet(f, s \ {x})
    OBVIOUS
  <2>1. \A y \in s : f[y] \in Nat
    OBVIOUS
  <2>2. PICK c \in s : SumFunctionOnSet(f, s) = f[c] + SumFunctionOnSet(f, s \ {c})
    BY <1>1, <2>1, SumChooses
  <2>3. CASE c = x
    BY <2>2, <2>3
  <2>4. CASE c # x
    <3>1. /\ s \ {c} \in D /\ s \ {x} \in D
          /\ Cardinality(s \ {c}) = Cardinality(s) - 1
          /\ Cardinality(s \ {x}) = Cardinality(s) - 1
      BY <1>1, FS_RemoveElement
    <3>2. m[s \ {c}] < m[s] /\ m[s \ {x}] < m[s]
      BY <1>1, <3>1
    <3>3. s \ {c} \in T /\ s \ {x} \in T
      BY <1>3, <3>1, <3>2
    <3>4. /\ SumFunctionOnSet(f, s \ {c}) = f[x] + SumFunctionOnSet(f, (s \ {c}) \ {x})
          /\ SumFunctionOnSet(f, s \ {x}) = f[c] + SumFunctionOnSet(f, (s \ {x}) \ {c})
      BY <2>4, <3>3
    <3>5. (s \ {c}) \ {x} = (s \ {x}) \ {c}
      OBVIOUS
    <3> DEFINE r == SumFunctionOnSet(f, (s \ {x}) \ {c})
    <3>6. r \in Nat
      <4>1. IsFiniteSet((s \ {x}) \ {c}) /\ \A y \in (s \ {x}) \ {c} : f[y] \in Nat
        BY <1>1, <2>1, FS_Subset
      <4> QED
        BY <4>1, SumType
    <3>7. /\ SumFunctionOnSet(f, s \ {c}) = f[x] + r
          /\ SumFunctionOnSet(f, s \ {x}) = f[c] + r
      BY <3>4, <3>5
    <3> HIDE DEF r
    <3> QED
      BY <2>1, <2>2, <3>6, <3>7
  <2> QED
    BY <2>3, <2>4
<1> HIDE DEF m, T
<1>4. S \in T
  <2>1. \A s \in D : s \in T
    BY <1>2, <1>3, InductionMeasure
  <2> QED
    BY <2>1
<1> QED
  BY <1>4 DEF T

(* One more summand. *)
LEMMA SumAdd ==
  ASSUME NEW S, IsFiniteSet(S), NEW x, x \notin S,
         NEW f, \A y \in S \cup {x} : f[y] \in Nat
  PROVE  SumFunctionOnSet(f, S \cup {x}) = SumFunctionOnSet(f, S) + f[x]
<1>1. IsFiniteSet(S \cup {x})
  BY FS_AddElement
<1>2. SumFunctionOnSet(f, S \cup {x}) =
        f[x] + SumFunctionOnSet(f, (S \cup {x}) \ {x})
  BY <1>1, SumRemove
<1>3. (S \cup {x}) \ {x} = S
  OBVIOUS
<1>4. SumFunctionOnSet(f, S) \in Nat
  BY SumType
<1>5. f[x] \in Nat
  OBVIOUS
<1> QED
  BY <1>2, <1>3, <1>4, <1>5
=============================================================================
