---------------------------- MODULE OrderLemmas ----------------------------
(***************************************************************************)
(* Facts that several of the proofs need and that are about no part of     *)
(* primd: least and greatest numbers, sets listed in a strict order, and   *)
(* functions that are defined recursively.                                 *)
(***************************************************************************)
EXTENDS Naturals, FiniteSetsExt, FiniteSetTheorems, SequenceTheorems, WellFoundedInduction, TLAPS

-----------------------------------------------------------------------------
(* Numbers. *)

\* Min of a nonempty set of naturals.
LEMMA MinIsLeast ==
  ASSUME NEW S \in SUBSET Nat, S # {}
  PROVE  Min(S) \in S /\ \A y \in S : Min(S) <= y
<1>1. PICK least \in S : \A y \in S : ~(<<y, least>> \in OpToRel(<, Nat))
  BY WFMin, NatLessThanWellFounded, Zenon
<1>2. \A y \in S : least <= y
  <2> TAKE y \in S
  <2>1. y < least => <<y, least>> \in OpToRel(<, Nat)
    BY DEF OpToRel
  <2>2. ~(y < least)
    BY <1>1, <2>1, Zenon
  <2> QED
    BY <2>2
<1> QED
  BY <1>2 DEF Min

\* A nonempty set of naturals below a bound has the maximum Max returns.
LEMMA MaxIsGreatest ==
  ASSUME NEW n \in Nat, NEW S \in SUBSET (0..n), S # {}
  PROVE  /\ Max(S) \in S
         /\ \A x \in S : x <= Max(S)
<1> DEFINE Below == {n - x : x \in S}
<1>1. Below \subseteq Nat /\ Below # {}
  OBVIOUS
<1>2. PICK least \in Below : \A y \in Below : ~(<<y, least>> \in OpToRel(<, Nat))
  BY <1>1, WFMin, NatLessThanWellFounded, Zenon
<1>3. \A y \in Below : least <= y
  <2> TAKE y \in Below
  <2>1. y < least => <<y, least>> \in OpToRel(<, Nat)
    BY <1>1 DEF OpToRel
  <2>2. ~(y < least)
    BY <1>2, <2>1, Zenon
  <2> QED
    BY <1>1, <2>2
<1>4. PICK m \in S : least = n - m
  BY <1>2
<1>5. \A x \in S : x <= m
  <2> TAKE x \in S
  <2>1. n - x \in Below
    OBVIOUS
  <2>2. n - m <= n - x
    BY <2>1, <1>3, <1>4
  <2> QED
    BY <2>2
<1>6. \E x \in S : \A y \in S : x >= y
  BY <1>4, <1>5
<1> QED
  BY <1>6 DEF Max

-----------------------------------------------------------------------------
(* Lists made of sets by a strict order. *)

Ahead(S, R, x) == {y \in S : <<y, x>> \in R}

StrictOrder(S, R) ==
  /\ \A x \in S : <<x, x>> \notin R
  /\ \A x, y, z \in S : <<x, y>> \in R /\ <<y, z>> \in R => <<x, z>> \in R
  /\ \A x, y \in S : x # y => <<x, y>> \in R \/ <<y, x>> \in R

\* No two elements have the same number of elements ahead of them, and every
\* number below that of all elements occurs.
LEMMA EveryRankTaken ==
  ASSUME NEW S, IsFiniteSet(S), NEW R, StrictOrder(S, R)
  PROVE  /\ \A x \in S : 1 + Cardinality(Ahead(S, R, x)) \in 1..Cardinality(S)
         /\ \A x, y \in S : <<x, y>> \in R =>
              Cardinality(Ahead(S, R, x)) < Cardinality(Ahead(S, R, y))
         /\ \A r \in 1..Cardinality(S) : \E x \in S : Cardinality(Ahead(S, R, x)) = r - 1
<1>1. PICK n : n = Cardinality(S)
  OBVIOUS
<1>2. n \in Nat
  BY <1>1, FS_CardinalityType
<1>3. ASSUME NEW x \in S
      PROVE  /\ IsFiniteSet(Ahead(S, R, x))
             /\ Cardinality(Ahead(S, R, x)) \in Nat
             /\ 1 + Cardinality(Ahead(S, R, x)) \in 1..n
  <2>1. Ahead(S, R, x) \subseteq S /\ x \notin Ahead(S, R, x)
    BY DEF StrictOrder, Ahead
  <2>2. /\ IsFiniteSet(Ahead(S, R, x))
        /\ Cardinality(Ahead(S, R, x)) <= Cardinality(S)
        /\ Cardinality(Ahead(S, R, x)) = Cardinality(S) => Ahead(S, R, x) = S
    BY <2>1, FS_Subset
  <2>3. Cardinality(Ahead(S, R, x)) \in Nat
    BY <2>2, FS_CardinalityType
  <2>4. Cardinality(Ahead(S, R, x)) # Cardinality(S)
    BY <2>1, <2>2
  <2> QED
    BY <1>1, <1>2, <2>2, <2>3, <2>4
<1>4. ASSUME NEW x \in S, NEW y \in S, <<x, y>> \in R
      PROVE  Cardinality(Ahead(S, R, x)) < Cardinality(Ahead(S, R, y))
  <2>1. Ahead(S, R, x) \subseteq Ahead(S, R, y)
    BY <1>4 DEF StrictOrder, Ahead
  <2>2. x \in Ahead(S, R, y) /\ x \notin Ahead(S, R, x)
    BY <1>4 DEF StrictOrder, Ahead
  <2>3. PICK a, b : a = Cardinality(Ahead(S, R, x)) /\ b = Cardinality(Ahead(S, R, y))
    OBVIOUS
  <2>4. a <= b /\ (a = b => Ahead(S, R, x) = Ahead(S, R, y))
    BY Zenon, <1>3, <2>1, <2>3, FS_Subset
  <2>5. a \in Nat /\ b \in Nat
    BY Zenon, <1>3, <2>3
  <2>6. a # b
    BY Zenon, <2>2, <2>4
  <2>7. a < b
    BY <2>4, <2>5, <2>6
  <2> QED
    BY Zenon, <2>3, <2>7
<1> DEFINE place == [x \in S |-> 1 + Cardinality(Ahead(S, R, x))]
<1>5. place \in [S -> 1..n]
  BY <1>3
<1>6. ASSUME NEW x \in S, NEW y \in S, x # y
      PROVE  place[x] # place[y]
  <2>1. <<x, y>> \in R \/ <<y, x>> \in R
    BY <1>6 DEF StrictOrder
  <2>2. PICK a, b : a = Cardinality(Ahead(S, R, x)) /\ b = Cardinality(Ahead(S, R, y))
    OBVIOUS
  <2>3. a < b \/ b < a
    BY Zenon, <1>4, <2>1, <2>2
  <2>4. a \in Nat /\ b \in Nat
    BY Zenon, <1>3, <2>2
  <2>5. 1 + a # 1 + b
    BY <2>3, <2>4
  <2> QED
    BY Zenon, <2>2, <2>5
<1>7. place \in Injection(S, 1..n)
  <2> HIDE DEF place
  <2> QED
    BY <1>5, <1>6 DEF Injection, IsInjective
<1>8. IsFiniteSet(1..n) /\ Cardinality(1..n) = n
  BY <1>2, FS_Interval
<1>9. place \in Surjection(S, 1..n)
  <2> HIDE DEF place
  <2> QED
    BY <1>1, <1>7, <1>8, FS_Injection
<1>10. ASSUME NEW r \in 1..n
       PROVE  \E x \in S : Cardinality(Ahead(S, R, x)) = r - 1
  <2>1. PICK x \in S : place[x] = r
    BY <1>9 DEF Surjection
  <2>2. PICK a : a = Cardinality(Ahead(S, R, x))
    OBVIOUS
  <2>3. r = 1 + a /\ a \in Nat
    BY Zenon, <1>3, <2>1, <2>2
  <2>4. a = r - 1
    BY <2>3
  <2> QED
    BY Zenon, <2>2, <2>4
<1> QED
  BY Zenon, <1>1, <1>3, <1>4, <1>10

Listing(S, R) ==
  [r \in 1..Cardinality(S) |-> CHOOSE x \in S : Cardinality(Ahead(S, R, x)) = r - 1]

\* The list names every element once, in order.
LEMMA ListedInOrder ==
  ASSUME NEW S, IsFiniteSet(S), NEW R, StrictOrder(S, R)
  PROVE  /\ Listing(S, R) \in [1..Cardinality(S) -> S]
         /\ \A x \in S : \E r \in 1..Cardinality(S) : Listing(S, R)[r] = x
         /\ \A i, j \in 1..Cardinality(S) : i < j => <<Listing(S, R)[i], Listing(S, R)[j]>> \in R
<1>1. PICK n : n = Cardinality(S)
  OBVIOUS
<1> PICK list : list = Listing(S, R)
  OBVIOUS
<1>2. n \in Nat
  BY <1>1, FS_CardinalityType
<1>3. ASSUME NEW r \in 1..n
      PROVE  list[r] \in S /\ Cardinality(Ahead(S, R, list[r])) = r - 1
  <2>1. \E x \in S : Cardinality(Ahead(S, R, x)) = r - 1
    BY Zenon, <1>1, EveryRankTaken
  <2>2. list[r] = CHOOSE x \in S : Cardinality(Ahead(S, R, x)) = r - 1
    BY Zenon, <1>1 DEF Listing
  <2> QED
    BY Zenon, <2>1, <2>2
<1>4. ASSUME NEW x \in S, NEW y \in S, <<x, y>> \in R
      PROVE  Cardinality(Ahead(S, R, x)) < Cardinality(Ahead(S, R, y))
  BY Zenon, <1>4, EveryRankTaken
<1>5. ASSUME NEW x \in S
      PROVE  \E r \in 1..n : list[r] = x
  <2>1. PICK a : a = Cardinality(Ahead(S, R, x))
    OBVIOUS
  <2>2. 1 + a \in 1..n
    BY Zenon, <1>1, <2>1, EveryRankTaken
  <2>3. PICK r : r = 1 + a
    OBVIOUS
  <2>4. r \in 1..n /\ a \in Nat
    <3>1. Cardinality(Ahead(S, R, x)) \in Nat
      BY FS_Subset, FS_CardinalityType DEF Ahead
    <3> QED
      BY <2>1, <2>2, <2>3, <3>1
  <2>5. Cardinality(Ahead(S, R, list[r])) = r - 1 /\ list[r] \in S
    BY Zenon, <1>3, <2>4
  <2>6. ~(a < a) /\ r - 1 = a
    BY <2>3, <2>4
  <2>7. Cardinality(Ahead(S, R, list[r])) = a /\ Cardinality(Ahead(S, R, x)) = a
    BY Zenon, <2>1, <2>5, <2>6
  <2>8. <<x, list[r]>> \notin R /\ <<list[r], x>> \notin R
    BY Zenon, <1>4, <2>5, <2>6, <2>7
  <2>9. x = list[r]
    BY Zenon, <2>5, <2>8 DEF StrictOrder
  <2> QED
    BY Zenon, <2>4, <2>9
<1>6. ASSUME NEW i \in 1..n, NEW j \in 1..n, i < j
      PROVE  <<list[i], list[j]>> \in R
  <2>1. /\ list[i] \in S /\ Cardinality(Ahead(S, R, list[i])) = i - 1
        /\ list[j] \in S /\ Cardinality(Ahead(S, R, list[j])) = j - 1
    BY Zenon, <1>3
  <2>2. i - 1 # j - 1 /\ ~(j - 1 < i - 1)
    BY <1>2, <1>6
  <2>3. list[i] # list[j]
    BY Zenon, <2>1, <2>2
  <2>4. <<list[j], list[i]>> \notin R
    <3> SUFFICES ASSUME <<list[j], list[i]>> \in R PROVE FALSE
      OBVIOUS
    <3>1. Cardinality(Ahead(S, R, list[j])) < Cardinality(Ahead(S, R, list[i]))
      BY Zenon, <1>4, <2>1
    <3>2. j - 1 < i - 1
      BY Zenon, <2>1, <3>1
    <3> QED
      BY <2>2, <3>2
  <2> QED
    BY Zenon, <2>1, <2>3, <2>4 DEF StrictOrder
<1>7. list \in [1..n -> S]
  <2>1. \A r \in 1..n : (CHOOSE x \in S : Cardinality(Ahead(S, R, x)) = r - 1) \in S
    BY Zenon, <1>1, <1>3
  <2> QED
    BY Zenon, <1>1, <2>1 DEF Listing
<1> QED
  BY Zenon, <1>1, <1>5, <1>6, <1>7

\* Any list of as many elements in order names each element once, and there
\* is only one such list.
InOrder(p, S, R) ==
  /\ p \in [1..Cardinality(S) -> S]
  /\ \A i, j \in 1..Cardinality(S) : i < j => <<p[i], p[j]>> \in R

LEMMA InOrderIsOnto ==
  ASSUME NEW S, IsFiniteSet(S), NEW R, StrictOrder(S, R), NEW p, InOrder(p, S, R)
  PROVE  /\ \A i, j \in 1..Cardinality(S) : i # j => p[i] # p[j]
         /\ \A x \in S : \E r \in 1..Cardinality(S) : p[r] = x
<1>1. PICK n : n = Cardinality(S)
  OBVIOUS
<1>2. n \in Nat
  BY <1>1, FS_CardinalityType
<1>3. p \in [1..n -> S]
  BY <1>1 DEF InOrder
<1>4. ASSUME NEW i \in 1..n, NEW j \in 1..n, i # j
      PROVE  p[i] # p[j]
  <2>1. i < j \/ j < i
    BY <1>2, <1>4
  <2>2. <<p[i], p[j]>> \in R \/ <<p[j], p[i]>> \in R
    BY Zenon, <1>1, <2>1 DEF InOrder
  <2>3. p[i] \in S
    BY <1>3
  <2> QED
    BY Zenon, <2>2, <2>3 DEF StrictOrder
<1>5. p \in Injection(1..n, S)
  BY <1>3, <1>4 DEF Injection, IsInjective
<1>6. IsFiniteSet(1..n) /\ Cardinality(1..n) = n
  BY <1>2, FS_Interval
<1>7. p \in Surjection(1..n, S)
  BY <1>1, <1>5, <1>6, FS_Injection
<1>8. \A x \in S : \E r \in 1..n : p[r] = x
  BY <1>7 DEF Surjection
<1> QED
  BY <1>1, <1>4, <1>8

LEMMA OneOrder ==
  ASSUME NEW S, IsFiniteSet(S), NEW R, StrictOrder(S, R),
         NEW p, InOrder(p, S, R), NEW o, InOrder(o, S, R)
  PROVE  p = o
<1>1. PICK n : n = Cardinality(S)
  OBVIOUS
<1>2. n \in Nat
  BY <1>1, FS_CardinalityType
<1>3. p \in [1..n -> S] /\ o \in [1..n -> S]
  BY <1>1 DEF InOrder
<1>4. (\A i, j \in 1..n : i # j => p[i] # p[j]) /\ (\A x \in S : \E m \in 1..n : p[m] = x)
  BY <1>1, InOrderIsOnto
<1>5. (\A i, j \in 1..n : i # j => o[i] # o[j]) /\ (\A x \in S : \E m \in 1..n : o[m] = x)
  BY <1>1, InOrderIsOnto
<1> DEFINE Apart == {r \in 1..n : p[r] # o[r]}
<1>6. (\A r \in 1..n : p[r] = o[r]) => p = o
  <2>1. p = [r \in 1..n |-> p[r]] /\ o = [r \in 1..n |-> o[r]]
    BY <1>3
  <2> QED
    BY Zenon, <2>1
<1> SUFFICES ASSUME Apart # {} PROVE FALSE
  BY <1>6
<1>7. PICK r : r = Min(Apart)
  OBVIOUS
<1>8. r \in Apart /\ \A y \in Apart : r <= y
  <2>1. Apart \in SUBSET Nat
    BY <1>2
  <2> HIDE DEF Apart
  <2> QED
    BY Zenon, <1>7, <2>1, MinIsLeast
<1>9. r \in 1..n /\ p[r] # o[r]
  BY <1>8
<1>10. ASSUME NEW t \in 1..n, t < r
      PROVE  p[t] = o[t]
  BY <1>8, <1>10
<1>11. PICK t \in 1..n : o[t] = p[r]
  BY <1>3, <1>9, <1>5
<1>12. PICK u \in 1..n : p[u] = o[r]
  BY <1>3, <1>9, <1>4
<1>13. r < t
  <2>1. t # r
    BY <1>9, <1>11
  <2>2. ~(t < r)
    <3> SUFFICES ASSUME t < r PROVE FALSE
      OBVIOUS
    <3>1. p[t] = p[r] /\ t # r
      BY <1>10, <1>11, <2>1
    <3> QED
      BY Zenon, <1>9, <1>4, <3>1
  <2> QED
    BY <1>9, <2>1, <2>2
<1>14. r < u
  <2>1. u # r
    BY <1>9, <1>12
  <2>2. ~(u < r)
    <3> SUFFICES ASSUME u < r PROVE FALSE
      OBVIOUS
    <3>1. o[u] = o[r] /\ u # r
      BY <1>10, <1>12, <2>1
    <3> QED
      BY Zenon, <1>9, <1>5, <3>1
  <2> QED
    BY <1>9, <2>1, <2>2
<1>15. <<o[r], o[t]>> \in R
  BY Zenon, <1>1, <1>9, <1>13 DEF InOrder
<1>16. <<p[r], p[u]>> \in R
  BY Zenon, <1>1, <1>9, <1>14 DEF InOrder
<1>17. p[r] \in S /\ o[r] \in S
  BY <1>3, <1>9
<1> QED
  BY Zenon, <1>11, <1>12, <1>15, <1>16, <1>17 DEF StrictOrder

-----------------------------------------------------------------------------
(* Recursive functions. *)

\* Induction along a rank.
Hereditary(D, rank, P) ==
  \A x \in D : (\A y \in D : rank[y] < rank[x] => y \in P) => x \in P

LEMMA RankInduction ==
  ASSUME NEW D, NEW rank, rank \in [D -> Nat], NEW P, Hereditary(D, rank, P)
  PROVE  D \subseteq P
<1> DEFINE Bad == {rank[x] : x \in D \ P}
<1> SUFFICES ASSUME Bad # {} PROVE FALSE
  OBVIOUS
<1>1. Bad \subseteq Nat
  OBVIOUS
<1>2. PICK least \in Bad : \A y \in Bad : ~(<<y, least>> \in OpToRel(<, Nat))
  BY <1>1, WFMin, NatLessThanWellFounded, Zenon
<1>3. PICK x \in D \ P : least = rank[x]
  BY <1>2
<1>4. ASSUME NEW y \in D, rank[y] < rank[x]
      PROVE  y \in P
  <2>1. rank[y] \in Nat /\ rank[x] \in Nat
    OBVIOUS
  <2>2. <<rank[y], rank[x]>> \in OpToRel(<, Nat)
    BY <1>4, <2>1 DEF OpToRel
  <2>3. y \notin P => rank[y] \in Bad
    OBVIOUS
  <2> QED
    BY Zenon, <1>2, <1>3, <2>2, <2>3
<1> QED
  BY <1>3, <1>4 DEF Hereditary

\* A step that asks only for values of lower rank has a fixed point: the
\* function that a recursive definition chooses exists.
Bounded(D, rank) == \E N \in Nat : \A x \in D : rank[x] < N

AsksBelow(D, V, rank, step) ==
  /\ step \in [[D -> V] -> [D -> V]]
  /\ \A g, h \in [D -> V], x \in D :
       (\A y \in D : rank[y] < rank[x] => g[y] = h[y]) => step[g][x] = step[h][x]

FixedBy(D, V, step) == \E f \in [D -> V] : f = step[f]

LEMMA FixedPoint ==
  ASSUME NEW D, NEW V, V # {}, NEW rank, rank \in [D -> Nat], Bounded(D, rank),
         NEW step, AsksBelow(D, V, rank, step)
  PROVE  FixedBy(D, V, step)
<1> USE DEF AsksBelow
<1> PICK N \in Nat : \A x \in D : rank[x] < N
  BY DEF Bounded
<1> DEFINE upTo(n) == \E g \in [D -> V] : \A x \in D : rank[x] < n => g[x] = step[g][x]
           P == {n \in Nat : upTo(n)}
<1>1. upTo(0)
  <2>1. PICK v \in V : TRUE
    OBVIOUS
  <2>2. [x \in D |-> v] \in [D -> V]
    OBVIOUS
  <2>3. \A x \in D : ~(rank[x] < 0)
    OBVIOUS
  <2> QED
    BY <2>2, <2>3
<1>2. ASSUME NEW n \in Nat, upTo(n)
      PROVE  upTo(n + 1)
  <2>1. PICK g \in [D -> V] : \A x \in D : rank[x] < n => g[x] = step[g][x]
    BY <1>2
  <2>2. PICK h \in [D -> V] : h = step[g]
    OBVIOUS
  <2>3. ASSUME NEW x \in D, rank[x] < n + 1
        PROVE  h[x] = step[h][x]
    <3>1. \A y \in D : rank[y] < rank[x] => rank[y] < n
      BY <2>3
    <3>2. \A y \in D : rank[y] < rank[x] => g[y] = h[y]
      BY Zenon, <2>1, <2>2, <3>1
    <3>3. step[g][x] = step[h][x]
      BY Zenon, <3>2
    <3> QED
      BY Zenon, <2>2, <3>3
  <2> QED
    BY Zenon, <2>3
<1>3. \A n \in Nat : (\A m \in Nat : m < n => m \in P) => n \in P
  <2> TAKE n \in Nat
  <2>1. CASE n = 0
    BY <1>1, <2>1
  <2>2. CASE n # 0
    <3>1. n - 1 \in Nat /\ n - 1 < n /\ (n - 1) + 1 = n
      BY <2>2
    <3>2. ASSUME n - 1 \in P
          PROVE  upTo(n)
      <4>1. upTo((n - 1) + 1)
        BY Zenon, <1>2, <3>1, <3>2
      <4> QED
        BY Zenon, <3>1, <4>1
    <3> QED
      BY Zenon, <3>1, <3>2
  <2> QED
    BY <2>1, <2>2
<1> HIDE DEF P
<1>4. PICK id \in [Nat -> Nat] : \A n \in Nat : id[n] = n
  <2>1. [n \in Nat |-> n] \in [Nat -> Nat]
    OBVIOUS
  <2> QED
    BY <2>1
<1>5. Nat \subseteq P
  <2>1. Hereditary(Nat, id, P)
    BY Zenon, <1>3, <1>4 DEF Hereditary
  <2>2. id \in [Nat -> Nat]
    OBVIOUS
  <2> QED
    BY Zenon, <2>1, <2>2, RankInduction
<1>6. PICK g \in [D -> V] : \A x \in D : rank[x] < N => g[x] = step[g][x]
  BY <1>5 DEF P
<1>7. step[g] \in [D -> V]
  OBVIOUS
<1>8. g = step[g]
  BY <1>6, <1>7
<1> QED
  BY <1>8 DEF FixedBy

\* A recursion from one number to the next, and one that takes the elements
\* out of a finite set one by one.
Unrolled(g, n, base, f) ==
  g = [i \in 0..n |-> IF i = 0 THEN base ELSE f[<<i, g[i - 1]>>]]

LEMMA Unrolls ==
  ASSUME NEW n \in Nat, NEW V, NEW base \in V, NEW f \in [(1..n) \X V -> V]
  PROVE  \E g \in [0..n -> V] : Unrolled(g, n, base, f)
<1> DEFINE D == 0..n
           body(g, i) == IF i = 0 THEN base ELSE f[<<i, g[i - 1]>>]
           step == [g \in [D -> V] |-> [i \in D |-> body(g, i)]]
           rank == [i \in D |-> i]
<1>1. \A i \in D : i # 0 => i - 1 \in D /\ i \in 1..n /\ i - 1 < i
  OBVIOUS
<1>2. ASSUME NEW g \in [D -> V], NEW i \in D
      PROVE  body(g, i) \in V
  <2>1. i # 0 => g[i - 1] \in V /\ <<i, g[i - 1]>> \in (1..n) \X V
    BY <1>1
  <2> QED
    BY <2>1
<1>3. ASSUME NEW g \in [D -> V], NEW h \in [D -> V], NEW i \in D,
             \A m \in D : rank[m] < rank[i] => g[m] = h[m]
      PROVE  body(g, i) = body(h, i)
  <2>1. i # 0 => g[i - 1] = h[i - 1]
    BY <1>1, <1>3
  <2> QED
    BY Zenon, <2>1
<1>4. rank \in [D -> Nat]
  OBVIOUS
<1>5. Bounded(D, rank) /\ V # {}
  <2>1. n + 1 \in Nat /\ \A i \in D : rank[i] < n + 1
    OBVIOUS
  <2> QED
    BY <2>1 DEF Bounded
<1> HIDE DEF D, body, rank
<1>6. step \in [[D -> V] -> [D -> V]]
  BY Zenon, <1>2
<1>7. \A g, h \in [D -> V], i \in D :
        (\A m \in D : rank[m] < rank[i] => g[m] = h[m]) => step[g][i] = step[h][i]
  BY Zenon, <1>3
<1>8. PICK g \in [D -> V] : g = step[g]
  <2> HIDE DEF step
  <2>1. AsksBelow(D, V, rank, step)
    BY Zenon, <1>6, <1>7 DEF AsksBelow
  <2>2. FixedBy(D, V, step)
    BY Zenon, <1>4, <1>5, <2>1, FixedPoint
  <2> QED
    BY Zenon, <2>2 DEF FixedBy
<1>9. g = [i \in D |-> body(g, i)]
  BY Zenon, <1>8
<1> QED
  BY Zenon, <1>9 DEF D, body, Unrolled

Folded(g, S, base, pick, f) ==
  g = [s \in SUBSET S |-> IF s = {} THEN base ELSE f[<<pick[s], g[s \ {pick[s]}]>>]]

LEMMA Folds ==
  ASSUME NEW S, IsFiniteSet(S), NEW V, NEW base \in V, NEW f \in [S \X V -> V],
         NEW pick, \A s \in SUBSET S : s # {} => pick[s] \in s
  PROVE  \E g \in [SUBSET S -> V] : Folded(g, S, base, pick, f)
<1> DEFINE D == SUBSET S
           body(g, s) == IF s = {} THEN base ELSE f[<<pick[s], g[s \ {pick[s]}]>>]
           step == [g \in [D -> V] |-> [s \in D |-> body(g, s)]]
           rank == [s \in D |-> Cardinality(s)]
<1>1. \A s \in D : s # {} => pick[s] \in S /\ s \ {pick[s]} \in D
  OBVIOUS
<1>2. ASSUME NEW s \in D, s # {}
      PROVE  rank[s \ {pick[s]}] < rank[s]
  <2>1. IsFiniteSet(s) /\ pick[s] \in s /\ s \ {pick[s]} \in D
    BY <1>1, <1>2, FS_Subset
  <2>2. Cardinality(s \ {pick[s]}) = Cardinality(s) - 1 /\ Cardinality(s) \in Nat
    BY Zenon, <2>1, FS_RemoveElement, FS_CardinalityType
  <2> QED
    BY <2>1, <2>2
<1>3. ASSUME NEW g \in [D -> V], NEW s \in D
      PROVE  body(g, s) \in V
  <2>1. s # {} => g[s \ {pick[s]}] \in V /\ <<pick[s], g[s \ {pick[s]}]>> \in S \X V
    BY <1>1
  <2> QED
    BY <2>1
<1>4. ASSUME NEW g \in [D -> V], NEW h \in [D -> V], NEW s \in D,
             \A t \in D : rank[t] < rank[s] => g[t] = h[t]
      PROVE  body(g, s) = body(h, s)
  <2> HIDE DEF rank
  <2>1. s # {} => g[s \ {pick[s]}] = h[s \ {pick[s]}]
    BY <1>1, <1>2, <1>4
  <2> QED
    BY Zenon, <2>1
<1>5. rank \in [D -> Nat]
  BY FS_Subset, FS_CardinalityType
<1>6. Bounded(D, rank) /\ V # {}
  <2>1. PICK n \in Nat : n = Cardinality(S)
    BY FS_CardinalityType
  <2>2. \A s \in D : rank[s] <= n
    BY Zenon, <2>1, FS_Subset
  <2>3. n + 1 \in Nat /\ \A s \in D : rank[s] < n + 1
    <3> HIDE DEF rank
    <3> QED
      BY <1>5, <2>2
  <2> HIDE DEF D, rank
  <2> QED
    BY <2>3 DEF Bounded
<1> HIDE DEF D, body, rank
<1>7. step \in [[D -> V] -> [D -> V]]
  BY Zenon, <1>3
<1>8. \A g, h \in [D -> V], s \in D :
        (\A t \in D : rank[t] < rank[s] => g[t] = h[t]) => step[g][s] = step[h][s]
  <2> SUFFICES ASSUME NEW g \in [D -> V], NEW h \in [D -> V], NEW s \in D,
                      \A t \in D : rank[t] < rank[s] => g[t] = h[t]
               PROVE  step[g][s] = step[h][s]
    OBVIOUS
  <2>1. step[g][s] = body(g, s) /\ step[h][s] = body(h, s)
    BY Zenon
  <2>2. body(g, s) = body(h, s)
    BY Zenon, <1>4
  <2> QED
    BY Zenon, <2>1, <2>2
<1>9. PICK g \in [D -> V] : g = step[g]
  <2> HIDE DEF step
  <2>1. AsksBelow(D, V, rank, step)
    BY Zenon, <1>7, <1>8 DEF AsksBelow
  <2>2. FixedBy(D, V, step)
    BY Zenon, <1>5, <1>6, <2>1, FixedPoint
  <2> QED
    BY Zenon, <2>2 DEF FixedBy
<1>10. g = [s \in D |-> body(g, s)]
  BY Zenon, <1>9
<1> QED
  BY Zenon, <1>10 DEF D, body, Folded

\* Induction on the subsets of a finite set.
GrowsInto(S, P) == \A s \in SUBSET S : (\A x \in s : s \ {x} \in P) => s \in P

LEMMA SubsetInduction ==
  ASSUME NEW S, IsFiniteSet(S), NEW P, GrowsInto(S, P)
  PROVE  SUBSET S \subseteq P
<1> DEFINE rank == [s \in SUBSET S |-> Cardinality(s)]
<1>1. rank \in [SUBSET S -> Nat]
  BY FS_Subset, FS_CardinalityType
<1>2. ASSUME NEW s \in SUBSET S, \A t \in SUBSET S : rank[t] < rank[s] => t \in P
      PROVE  s \in P
  <2>1. ASSUME NEW x \in s
        PROVE  s \ {x} \in P
    <3>1. IsFiniteSet(s) /\ s \ {x} \in SUBSET S
      BY FS_Subset
    <3>2. Cardinality(s \ {x}) = Cardinality(s) - 1 /\ Cardinality(s) \in Nat
      BY Zenon, <3>1, FS_RemoveElement, FS_CardinalityType
    <3>3. rank[s \ {x}] < rank[s]
      BY <3>1, <3>2
    <3> QED
      BY Zenon, <1>2, <3>1, <3>3
  <2> QED
    BY <2>1 DEF GrowsInto
<1> HIDE DEF rank
<1>3. Hereditary(SUBSET S, rank, P)
  BY Zenon, <1>2 DEF Hereditary
<1> QED
  BY Zenon, <1>1, <1>3, RankInduction

\* Induction up to a number.
LEMMA UpwardInduction ==
  ASSUME NEW n \in Nat, NEW P, 0 \in P, \A i \in 1..n : i - 1 \in P => i \in P
  PROVE  0..n \subseteq P
<1> DEFINE rank == [i \in 0..n |-> i]
<1>1. rank \in [0..n -> Nat]
  OBVIOUS
<1>2. ASSUME NEW i \in 0..n, \A j \in 0..n : rank[j] < rank[i] => j \in P
      PROVE  i \in P
  <2>1. i # 0 => i \in 1..n /\ i - 1 \in 0..n /\ rank[i - 1] < rank[i]
    OBVIOUS
  <2> HIDE DEF rank
  <2> QED
    BY Zenon, <1>2, <2>1
<1> HIDE DEF rank
<1>3. Hereditary(0..n, rank, P)
  BY Zenon, <1>2 DEF Hereditary
<1> QED
  BY Zenon, <1>1, <1>3, RankInduction

=============================================================================
