--------------------------- MODULE ColdTier_proofs ---------------------------
(***************************************************************************)
(* Theorems about the cold tier, for signatures of any length, blocks of   *)
(* any size, any threshold and any evictions: what waits is bounded, rank  *)
(* and select of every layer are counts and their inverse, and the tier is *)
(* a log of its evictions (module EvictionLog), compacted or not, saved or *)
(* not.                                                                    *)
(***************************************************************************)
EXTENDS ColdTier, OrderLemmas

-----------------------------------------------------------------------------
(* Positions, words and blocks. *)

\* Products in the order of their factors, one factor at a time.
LEMMA TimesKeepsOrder ==
  ASSUME NEW a \in Nat, NEW b \in Nat, NEW d \in Nat
  PROVE  /\ a * d \in Nat
         /\ (a + 1) * d = a * d + d
         /\ a <= b => a * d <= b * d
<1>1. a <= b => \E c \in Nat : b = a + c
  <2>1. a <= b => b - a \in Nat /\ b = a + (b - a)
    OBVIOUS
  <2> QED
    BY <2>1
<1>2. \A c \in Nat : (a + c) * d = a * d + c * d /\ c * d \in Nat
  OBVIOUS
<1>3. a * d \in Nat
  OBVIOUS
<1>4. (a + 1) * d = a * d + d
  OBVIOUS
<1>5. ASSUME a <= b
      PROVE  a * d <= b * d
  <2>1. PICK c \in Nat : b = a + c
    BY <1>1, <1>5
  <2>2. b * d = a * d + c * d /\ c * d \in Nat
    BY <1>2, <2>1
  <2> QED
    BY <1>3, <2>2
<1> QED
  BY <1>3, <1>4, <1>5

\* Dividing rounds down.
LEMMA DivRounds ==
  ASSUME NEW n \in Nat, NEW d \in Nat \ {0}
  PROVE  /\ n \div d \in Nat
         /\ (n \div d) * d <= n
         /\ n < (n \div d) * d + d
OBVIOUS

\* A quotient is known by the multiples around it.
LEMMA DivIs ==
  ASSUME NEW n \in Nat, NEW d \in Nat \ {0}, NEW q \in Nat, q * d <= n, n < q * d + d
  PROVE  n \div d = q
<1>1. PICK p \in Nat : p = n \div d
  BY DivRounds
<1>2. p * d <= n /\ n < p * d + d
  BY <1>1, DivRounds
<1>3. /\ p * d \in Nat /\ q * d \in Nat
      /\ (p + 1) * d = p * d + d /\ (q + 1) * d = q * d + d
      /\ p + 1 <= q => (p + 1) * d <= q * d
      /\ q + 1 <= p => (q + 1) * d <= p * d
  BY TimesKeepsOrder
<1>4. ~(p + 1 <= q) /\ ~(q + 1 <= p)
  BY <1>2, <1>3
<1> QED
  BY <1>1, <1>4

\* div_ceil covers what it divides: every position is in one of its parts.
LEMMA RoundedUp ==
  ASSUME NEW n \in Nat, NEW d \in Nat \ {0}
  PROVE  /\ DivCeil(n, d) \in Nat
         /\ n <= DivCeil(n, d) * d
         /\ \A i \in Nat : i < n => i \div d \in 0..(DivCeil(n, d) - 1)
<1>1. n + d - 1 \in Nat
  OBVIOUS
<1>2. PICK c \in Nat : c = DivCeil(n, d)
  BY <1>1, DivRounds DEF DivCeil
<1>3. c * d <= n + d - 1 /\ n + d - 1 < c * d + d
  BY <1>1, <1>2, DivRounds DEF DivCeil
<1>4. c * d \in Nat /\ n <= c * d
  BY <1>3, TimesKeepsOrder
<1>5. ASSUME NEW i \in Nat, i < n
      PROVE  i \div d \in 0..(c - 1)
  <2>1. PICK q \in Nat : q = i \div d
    BY DivRounds
  <2>2. q * d <= i
    BY <2>1, DivRounds
  <2>3. c <= q => c * d <= q * d
    BY TimesKeepsOrder
  <2>4. q * d \in Nat
    BY TimesKeepsOrder
  <2>5. ~(c <= q)
    BY <1>4, <1>5, <2>2, <2>3, <2>4
  <2> QED
    BY <2>1, <2>5
<1> QED
  BY <1>2, <1>4, <1>5

\* A block is a whole number of words.
LEMMA Blocks ==
  /\ BlockBits \in Nat \ {0}
  /\ \A b \in Nat : b * BlockBits = (b * SubblocksPerBlock) * SubblockBits
  /\ \A i \in Nat : (i \div SubblockBits) \div SubblocksPerBlock = i \div BlockBits
<1>1. PICK s, k : s = SubblockBits /\ k = SubblocksPerBlock /\ s \in Nat \ {0} /\ k \in Nat \ {0}
  BY BlockSizes
<1>2. BlockBits = s * k
  BY <1>1 DEF BlockBits
<1>3. s * k \in Nat \ {0}
  <2>1. 1 <= k => 1 * s <= k * s
    BY <1>1, TimesKeepsOrder
  <2> QED
    BY <1>1, <2>1
<1>4. \A b \in Nat : b * (s * k) = (b * k) * s
  BY <1>1
<1>5. ASSUME NEW i \in Nat
      PROVE  (i \div s) \div k = i \div (s * k)
  <2>1. PICK w \in Nat : w = i \div s /\ w * s <= i /\ i < w * s + s
    BY <1>1, DivRounds
  <2>2. PICK b \in Nat : b = w \div k /\ b * k <= w /\ w < b * k + k
    BY <1>1, DivRounds
  <2>3. PICK f \in Nat : f = b * k
    BY <1>1, TimesKeepsOrder
  <2>4. f * s <= w * s /\ w + 1 <= f + k
    BY <1>1, <2>2, <2>3, TimesKeepsOrder
  <2>5. (w + 1) * s <= (f + k) * s /\ (w + 1) * s = w * s + s
    BY <1>1, <2>4, TimesKeepsOrder
  <2>6. (f + k) * s = f * s + s * k
    BY <1>1
  <2>7. f * s = b * (s * k)
    BY <1>1, <2>3
  <2>8. PICK u, v, x, t : u = f * s /\ v = w * s /\ x = s * k /\ t = (f + k) * s
    OBVIOUS
  <2>9. u \in Nat /\ v \in Nat /\ x \in Nat
    BY <1>1, <2>8, TimesKeepsOrder
  <2>10. u <= v /\ v <= i /\ i < v + s /\ v + s <= t /\ t = u + x
    BY <2>1, <2>4, <2>5, <2>6, <2>8
  <2>11. u <= i /\ i < u + x
    BY <1>1, <2>9, <2>10
  <2>12. b * (s * k) <= i /\ i < b * (s * k) + s * k
    BY <2>7, <2>8, <2>11
  <2>13. i \div (s * k) = b
    BY <1>3, <2>12, DivIs
  <2> QED
    BY <2>1, <2>2, <2>13
<1> QED
  BY <1>1, <1>2, <1>3, <1>4, <1>5

-----------------------------------------------------------------------------
(* Counting positions. *)

\* Popcounts are numbers.
LEMMA PopType ==
  ASSUME NEW bits \in SUBSET Nat, NEW a \in Nat, NEW c \in Nat
  PROVE  /\ IsFiniteSet({i \in bits : a <= i /\ i < c})
         /\ Pop(bits, a, c) \in Nat
<1>1. {i \in bits : a <= i /\ i < c} \subseteq 0..c
  <2>1. \A i \in bits : i \in Nat
    OBVIOUS
  <2>2. \A i \in bits : i < c => i \in 0..c
    BY <2>1
  <2> QED
    BY <2>2
<1>2. IsFiniteSet(0..c)
  BY FS_Interval
<1> QED
  BY <1>1, <1>2, FS_Subset, FS_CardinalityType DEF Pop

\* The count of a range is the sum of the counts of its halves.
LEMMA PopSplit ==
  ASSUME NEW bits \in SUBSET Nat, NEW a \in Nat, NEW b \in Nat, NEW c \in Nat, a <= b, b <= c
  PROVE  Pop(bits, a, c) = Pop(bits, a, b) + Pop(bits, b, c)
<1> DEFINE from(x, y) == {i \in bits : x <= i /\ i < y}
<1>1. IsFiniteSet(from(a, b)) /\ IsFiniteSet(from(b, c))
  BY PopType
<1>2. from(a, c) = from(a, b) \cup from(b, c) /\ from(a, b) \cap from(b, c) = {}
  <2>1. \A i \in bits : i \in Nat
    OBVIOUS
  <2>2. \A i \in bits : /\ a <= i /\ i < c <=> (a <= i /\ i < b) \/ (b <= i /\ i < c)
                        /\ ~(i < b /\ b <= i)
    BY <2>1
  <2> QED
    BY Zenon, <2>2
<1>3. Pop(bits, a, c) = Cardinality(from(a, c)) /\ Pop(bits, a, b) = Cardinality(from(a, b))
        /\ Pop(bits, b, c) = Cardinality(from(b, c))
  BY DEF Pop
<1> HIDE DEF from
<1>4. Cardinality(from(a, b) \cup from(b, c)) =
        Cardinality(from(a, b)) + Cardinality(from(b, c)) - Cardinality(from(a, b) \cap from(b, c))
  BY <1>1, FS_Union
<1>5. Cardinality(from(a, b) \cap from(b, c)) = 0
  BY <1>2, FS_EmptySet
<1>6. Cardinality(from(a, b)) \in Nat /\ Cardinality(from(b, c)) \in Nat
  BY <1>1, FS_CardinalityType
<1> QED
  BY <1>2, <1>3, <1>4, <1>5, <1>6

\* None in nothing, none past the length, and at most one per position.
LEMMA PopFacts ==
  ASSUME NEW bits \in SUBSET Nat, NEW a \in Nat, NEW c \in Nat, NEW len \in Nat
  PROVE  /\ Pop(bits, a, a) = 0
         /\ a \in bits => Pop(bits, a, a + 1) = 1
         /\ bits \subseteq 0..(len - 1) => Pop(bits, a, Lower(c, len)) = Pop(bits, a, c)
<1> \A i \in bits : i \in Nat
  OBVIOUS
<1>1. {i \in bits : a <= i /\ i < a} = {}
  <2>1. \A i \in Nat : ~(a <= i /\ i < a)
    OBVIOUS
  <2> QED
    BY Zenon, <2>1
<1>2. a \in bits => {i \in bits : a <= i /\ i < a + 1} = {a}
  <2>1. \A i \in Nat : (a <= i /\ i < a + 1) <=> i = a
    OBVIOUS
  <2> QED
    BY Zenon, <2>1
<1>3. bits \subseteq 0..(len - 1) =>
        {i \in bits : a <= i /\ i < Lower(c, len)} = {i \in bits : a <= i /\ i < c}
  <2>1. \A i \in bits : bits \subseteq 0..(len - 1) => (i < Lower(c, len) <=> i < c)
    BY DEF Lower
  <2> QED
    BY Zenon, <2>1
<1> QED
  BY <1>1, <1>2, <1>3, FS_EmptySet, FS_Singleton DEF Pop

\* Past the length there is nothing to count.
LEMMA PopPast ==
  ASSUME NEW len \in Nat, NEW bits \in SUBSET Nat, bits \subseteq 0..(len - 1),
         NEW c \in Nat, len <= c
  PROVE  Pop(bits, 0, c) = Pop(bits, 0, len)
<1>1. \A i \in bits : i < c <=> i < len
  OBVIOUS
<1>2. {i \in bits : 0 <= i /\ i < c} = {i \in bits : 0 <= i /\ i < len}
  BY Zenon, <1>1
<1> QED
  BY Zenon, <1>2 DEF Pop

\* A longer range has no fewer.
LEMMA PopGrows ==
  ASSUME NEW bits \in SUBSET Nat, NEW a \in Nat, NEW b \in Nat, a <= b
  PROVE  Pop(bits, 0, a) <= Pop(bits, 0, b)
<1>1. Pop(bits, 0, b) = Pop(bits, 0, a) + Pop(bits, a, b)
  BY PopSplit
<1>2. Pop(bits, 0, a) \in Nat /\ Pop(bits, a, b) \in Nat
  BY PopType
<1> QED
  BY <1>1, <1>2

-----------------------------------------------------------------------------
(* The tables hold the counts. *)

\* A function that adds to its value before, from somewhere on, is the only one.
Adds(f, D, zero, amount) ==
  f = [x \in D |-> IF x \in zero THEN 0 ELSE f[x - 1] + amount[x]]

\* Two such functions are the same.
LEMMA AddsOnce ==
  ASSUME NEW D \in SUBSET Nat, NEW zero, NEW amount,
         \A x \in D : x \in zero \/ x - 1 \in D,
         NEW f, Adds(f, D, zero, amount), NEW g, Adds(g, D, zero, amount)
  PROVE  f = g
<1> DEFINE P == {x \in D : f[x] = g[x]}
<1>1. \A x \in D : /\ f[x] = IF x \in zero THEN 0 ELSE f[x - 1] + amount[x]
                  /\ g[x] = IF x \in zero THEN 0 ELSE g[x - 1] + amount[x]
  BY DEF Adds
<1>2. PICK id \in [D -> Nat] : \A x \in D : id[x] = x
  <2>1. [x \in D |-> x] \in [D -> Nat]
    OBVIOUS
  <2> QED
    BY <2>1
<1>3. ASSUME NEW x \in D, \A y \in D : id[y] < id[x] => y \in P
      PROVE  x \in P
  <2>1. CASE x \in zero
    BY <1>1, <2>1
  <2>2. CASE x \notin zero
    <3>1. x - 1 \in D /\ x \in Nat
      BY <2>2
    <3>2. x - 1 < x
      BY <3>1
    <3>3. id[x - 1] < id[x]
      BY <1>2, <3>1, <3>2
    <3>4. f[x - 1] = g[x - 1]
      BY <1>3, <3>1, <3>3
    <3> QED
      BY <1>1, <2>2, <3>4
  <2> QED
    BY <2>1, <2>2
<1>4. D \subseteq P
  <2> HIDE DEF P
  <2>1. Hereditary(D, id, P)
    BY Zenon, <1>3 DEF Hereditary
  <2> QED
    BY Zenon, <1>2, <2>1, RankInduction
<1>5. \A x \in D : f[x] = g[x]
  BY <1>4
<1>6. f = [x \in D |-> f[x]] /\ g = [x \in D |-> g[x]]
  BY DEF Adds
<1> QED
  BY <1>5, <1>6

\* A block rank is the count of all before the block.
LEMMA BlockCounts ==
  ASSUME NEW len \in Nat, NEW words \in SUBSET Nat, words \subseteq 0..(len - 1)
  PROVE  \A b \in 0..DivCeil(len, BlockBits) :
           BlockRanks(words, len)[b] = Pop(words, 0, b * BlockBits)
<1> DEFINE D == 0..DivCeil(len, BlockBits)
           amount == [b \in D |-> Pop(words, (b - 1) * BlockBits, Lower(b * BlockBits, len))]
           counts == [b \in D |-> Pop(words, 0, b * BlockBits)]
           body(r) == [b \in D |-> IF b = 0 THEN 0
                                   ELSE r[b - 1] + Pop(words, (b - 1) * BlockBits, Lower(b * BlockBits, len))]
<1>1. DivCeil(len, BlockBits) \in Nat /\ BlockBits \in Nat
  BY Blocks, RoundedUp
<1>2. D \subseteq Nat /\ \A b \in D : b \in {0} \/ b - 1 \in D
  BY <1>1
<1>3. ASSUME NEW b \in D
      PROVE  Pop(words, 0, b * BlockBits) =
               IF b = 0 THEN 0
               ELSE Pop(words, 0, (b - 1) * BlockBits)
                      + Pop(words, (b - 1) * BlockBits, Lower(b * BlockBits, len))
  <2>1. CASE b = 0
    <3>1. 0 * BlockBits = 0
      BY <1>1
    <3> QED
      BY <2>1, <3>1, PopFacts
  <2>2. CASE b # 0
    <3>1. b \in Nat /\ b - 1 \in Nat /\ b - 1 <= b
      BY <1>2, <2>2
    <3>2. /\ (b - 1) * BlockBits \in Nat /\ b * BlockBits \in Nat
          /\ (b - 1) * BlockBits <= b * BlockBits
      BY <1>1, <3>1, TimesKeepsOrder
    <3>3. PICK x \in Nat, y \in Nat : x = (b - 1) * BlockBits /\ y = b * BlockBits /\ x <= y
      BY <3>2
    <3>4. Pop(words, 0, y) = Pop(words, 0, x) + Pop(words, x, y)
      BY <3>3, PopSplit
    <3>5. Pop(words, x, Lower(y, len)) = Pop(words, x, y)
      BY <3>3, PopFacts
    <3> QED
      BY Zenon, <2>2, <3>3, <3>4, <3>5
  <2> QED
    BY <2>1, <2>2
<1>4. \A r : body(r) = [b \in D |-> IF b \in {0} THEN 0 ELSE r[b - 1] + amount[b]]
  OBVIOUS
<1>5. \A b \in D : b # 0 => counts[b - 1] = Pop(words, 0, (b - 1) * BlockBits)
  BY <1>2
<1>6. counts = body(counts)
  BY <1>3, <1>5
<1>7. PICK ranks : ranks = BlockRanks(words, len)
  OBVIOUS
<1>8. ranks = body(ranks)
  <2>1. BlockRanks(words, len) = CHOOSE r : r = body(r)
    BY DEF BlockRanks
  <2> HIDE DEF body, counts, D
  <2> QED
    BY Zenon, <1>6, <1>7, <2>1
<1> HIDE DEF body, amount
<1>9. Adds(ranks, D, {0}, amount) /\ Adds(counts, D, {0}, amount)
  <2> HIDE DEF D, counts
  <2> QED
    BY Zenon, <1>4, <1>6, <1>8 DEF Adds
<1>10. ranks = counts
  <2> HIDE DEF D, counts
  <2> QED
    BY Zenon, <1>2, <1>9, AddsOnce
<1> QED
  BY <1>7, <1>10

\* The word a word's count starts over at is the first of its block.
LEMMA WordsOfBlock ==
  ASSUME NEW w \in Nat
  PROVE  /\ (w \div SubblocksPerBlock) * BlockBits \in Nat
         /\ w * SubblockBits \in Nat
         /\ w % SubblocksPerBlock = 0 =>
              (w \div SubblocksPerBlock) * BlockBits = w * SubblockBits
         /\ w % SubblocksPerBlock # 0 =>
              /\ w - 1 \in Nat
              /\ (w - 1) * SubblockBits \in Nat
              /\ (w - 1) * SubblockBits <= w * SubblockBits
              /\ (w - 1) \div SubblocksPerBlock = w \div SubblocksPerBlock
              /\ (w \div SubblocksPerBlock) * BlockBits <= (w - 1) * SubblockBits
<1>1. PICK s, k : s = SubblockBits /\ k = SubblocksPerBlock /\ s \in Nat \ {0} /\ k \in Nat \ {0}
  BY BlockSizes
<1>2. PICK b \in Nat : b = w \div k /\ b * k <= w /\ w < b * k + k
  BY <1>1, DivRounds
<1>3. PICK f \in Nat : f = b * k
  BY <1>1, TimesKeepsOrder
<1>4. b * BlockBits = f * s
  BY <1>1, <1>2, <1>3, Blocks
<1>5. w = f + (w % k) /\ w % k \in Nat
  BY <1>1, <1>2, <1>3
<1>6. f * s \in Nat /\ w * s \in Nat
  BY <1>1, TimesKeepsOrder
<1>7. ASSUME w % k # 0
      PROVE  /\ w - 1 \in Nat
             /\ (w - 1) * s \in Nat
             /\ (w - 1) * s <= w * s
             /\ (w - 1) \div k = b
             /\ f * s <= (w - 1) * s
  <2>1. w - 1 \in Nat /\ f <= w - 1 /\ w - 1 <= w /\ w - 1 < f + k
    BY <1>1, <1>2, <1>3, <1>5, <1>7
  <2>2. (w - 1) \div k = b
    BY <1>1, <1>3, <2>1, DivIs
  <2> QED
    BY <1>1, <2>1, <2>2, TimesKeepsOrder
<1>8. w % k = 0 => b * BlockBits = w * s
  BY <1>4, <1>5
<1> QED
  BY <1>1, <1>2, <1>4, <1>6, <1>7, <1>8

\* A word rank is the count since its block began.
LEMMA WordCounts ==
  ASSUME NEW len \in Nat, NEW words \in SUBSET Nat, words \subseteq 0..(len - 1)
  PROVE  /\ DOMAIN SubblockRanks(words, len) = 0..(DivCeil(len, SubblockBits) - 1)
         /\ \A w \in 0..(DivCeil(len, SubblockBits) - 1) :
              SubblockRanks(words, len)[w] =
                Pop(words, (w \div SubblocksPerBlock) * BlockBits, w * SubblockBits)
<1> DEFINE D == 0..(DivCeil(len, SubblockBits) - 1)
           start(w) == (w \div SubblocksPerBlock) * BlockBits
           amount == [w \in D |-> PopWord(words, len, w - 1)]
           zero == {w \in D : w % SubblocksPerBlock = 0}
           counts == [w \in D |-> Pop(words, start(w), w * SubblockBits)]
           body(r) == [w \in D |-> IF w % SubblocksPerBlock = 0 THEN 0
                                   ELSE r[w - 1] + PopWord(words, len, w - 1)]
<1>1. DivCeil(len, SubblockBits) \in Nat
  BY BlockSizes, RoundedUp
<1>2. D \subseteq Nat /\ \A w \in D : w # 0 => w - 1 \in D
  BY <1>1
<1>3. \A w \in D : w \in zero \/ w - 1 \in D
  <2>1. 0 % SubblocksPerBlock = 0
    BY BlockSizes
  <2> QED
    BY <1>2, <2>1
<1>4. ASSUME NEW w \in D
      PROVE  Pop(words, start(w), w * SubblockBits) =
               IF w % SubblocksPerBlock = 0 THEN 0
               ELSE Pop(words, start(w - 1), (w - 1) * SubblockBits) + PopWord(words, len, w - 1)
  <2>1. w \in Nat /\ start(w) \in Nat /\ w * SubblockBits \in Nat
    BY <1>2, WordsOfBlock
  <2>2. CASE w % SubblocksPerBlock = 0
    <3>1. start(w) = w * SubblockBits
      BY <2>1, <2>2, WordsOfBlock
    <3>2. PICK x \in Nat : x = start(w)
      BY <2>1
    <3>3. Pop(words, x, x) = 0
      BY PopFacts
    <3> QED
      BY Zenon, <2>2, <3>1, <3>2, <3>3
  <2>3. CASE w % SubblocksPerBlock # 0
    <3>1. PICK x \in Nat, y \in Nat, z \in Nat :
            /\ x = start(w) /\ y = (w - 1) * SubblockBits /\ z = w * SubblockBits
            /\ x <= y /\ y <= z
      BY <2>1, <2>3, WordsOfBlock
    <3>2. start(w - 1) = x
      BY <2>1, <2>3, <3>1, WordsOfBlock
    <3>3. Pop(words, x, z) = Pop(words, x, y) + Pop(words, y, z)
      BY <3>1, PopSplit
    <3>4. Pop(words, y, Lower(z, len)) = Pop(words, y, z)
      BY <3>1, PopFacts
    <3>5. (w - 1) + 1 = w
      BY <2>1
    <3>6. PopWord(words, len, w - 1) = Pop(words, y, z)
      BY <3>1, <3>4, <3>5 DEF PopWord
    <3> QED
      BY Zenon, <2>3, <3>1, <3>2, <3>3, <3>6
  <2> QED
    BY <2>2, <2>3
<1>5. \A r : body(r) = [w \in D |-> IF w \in zero THEN 0 ELSE r[w - 1] + amount[w]]
  OBVIOUS
<1>6. \A w \in D : w % SubblocksPerBlock # 0 =>
        counts[w - 1] = Pop(words, start(w - 1), (w - 1) * SubblockBits)
  BY <1>3
<1>7. counts = body(counts)
  BY <1>4, <1>6
<1>8. PICK ranks : ranks = SubblockRanks(words, len)
  OBVIOUS
<1>9. ranks = body(ranks)
  <2>1. SubblockRanks(words, len) = CHOOSE r : r = body(r)
    BY DEF SubblockRanks
  <2> HIDE DEF body, counts, D
  <2> QED
    BY Zenon, <1>7, <1>8, <2>1
<1> HIDE DEF body, amount, zero
<1>10. Adds(ranks, D, zero, amount) /\ Adds(counts, D, zero, amount)
  <2> HIDE DEF D, counts
  <2> QED
    BY Zenon, <1>5, <1>7, <1>9 DEF Adds
<1>11. ranks = counts
  <2>1. D \in SUBSET Nat
    BY <1>2
  <2> HIDE DEF D, counts
  <2> QED
    BY Zenon, <1>3, <1>10, <2>1, AddsOnce
<1> QED
  BY <1>8, <1>11

\* What New makes of the words.
Counted(v, words, len) ==
  /\ v.words = words
  /\ v.len = len
  /\ \A b \in 0..DivCeil(len, BlockBits) : v.blockRanks[b] = Pop(words, 0, b * BlockBits)
  /\ DOMAIN v.subblockRanks = 0..(DivCeil(len, SubblockBits) - 1)
  /\ \A w \in 0..(DivCeil(len, SubblockBits) - 1) :
       v.subblockRanks[w] =
         Pop(words, (w \div SubblocksPerBlock) * BlockBits, w * SubblockBits)
  /\ Ones(v) = Pop(words, 0, len)

\* The tables of New.
LEMMA NewCounts ==
  ASSUME NEW len \in Nat, NEW words \in SUBSET Nat, words \subseteq 0..(len - 1),
         NEW v, v = New(words, len)
  PROVE  Counted(v, words, len)
<1>1. /\ v.words = words /\ v.len = len
      /\ v.blockRanks = BlockRanks(words, len) /\ v.subblockRanks = SubblockRanks(words, len)
  BY DEF New
<1>2. \A b \in 0..DivCeil(len, BlockBits) : v.blockRanks[b] = Pop(words, 0, b * BlockBits)
  BY Zenon, <1>1, BlockCounts
<1>3. PICK last \in Nat : last = DivCeil(len, BlockBits) /\ len <= last * BlockBits
  BY Blocks, RoundedUp
<1>4. last \in 0..last /\ 0 \in Nat /\ last * BlockBits \in Nat
  BY Blocks, TimesKeepsOrder
<1>5. v.blockRanks[last] = Pop(words, 0, last * BlockBits)
  BY Zenon, <1>2, <1>3, <1>4
<1>6. Pop(words, 0, last * BlockBits) = Pop(words, 0, len)
  BY Zenon, <1>3, <1>4, PopPast
<1>7. Ones(v) = Pop(words, 0, len)
  BY Zenon, <1>1, <1>3, <1>5, <1>6 DEF Ones
<1> QED
  BY Zenon, <1>1, <1>2, <1>7, WordCounts DEF Counted

\* rank_1 adds the two tables and the part of a word: the count of all before.
LEMMA RankCounts ==
  ASSUME NEW len \in Nat, NEW words \in SUBSET Nat, words \subseteq 0..(len - 1),
         NEW v, Counted(v, words, len)
  PROVE  RanksCount(v)
<1>1. /\ v.words = words /\ v.len = len /\ Ones(v) = Pop(words, 0, len)
      /\ \A b \in 0..DivCeil(len, BlockBits) : v.blockRanks[b] = Pop(words, 0, b * BlockBits)
      /\ DOMAIN v.subblockRanks = 0..(DivCeil(len, SubblockBits) - 1)
      /\ \A w \in 0..(DivCeil(len, SubblockBits) - 1) :
           v.subblockRanks[w] =
             Pop(words, (w \div SubblocksPerBlock) * BlockBits, w * SubblockBits)
  BY Zenon DEF Counted
<1>2. ASSUME NEW i \in 0..len, i < len
      PROVE  Rank1(v, i) = Pop(words, 0, i)
  <2>1. i \in Nat /\ len # 0 /\ Lower(i, len) = i
    BY <1>2 DEF Lower
  <2>2. PICK w \in Nat : w = i \div SubblockBits /\ w * SubblockBits <= i
    BY <2>1, BlockSizes, DivRounds
  <2>3. PICK b \in Nat : b = i \div BlockBits /\ b = w \div SubblocksPerBlock
    BY <2>1, <2>2, Blocks, DivRounds
  <2>4. w \in 0..(DivCeil(len, SubblockBits) - 1)
    BY <1>2, <2>1, <2>2, BlockSizes, RoundedUp
  <2>5. b \in 0..DivCeil(len, BlockBits)
    <3>1. b \in 0..(DivCeil(len, BlockBits) - 1) /\ DivCeil(len, BlockBits) \in Nat
      BY <1>2, <2>1, <2>3, Blocks, RoundedUp
    <3> QED
      BY <3>1
  <2>6. PICK x \in Nat, y \in Nat : x = b * BlockBits /\ y = w * SubblockBits /\ x <= y
    <3>1. /\ b * BlockBits \in Nat /\ w * SubblockBits \in Nat
          /\ w % SubblocksPerBlock = 0 => b * BlockBits = w * SubblockBits
          /\ w % SubblocksPerBlock # 0 =>
               /\ (w - 1) * SubblockBits \in Nat
               /\ (w - 1) * SubblockBits <= w * SubblockBits
               /\ b * BlockBits <= (w - 1) * SubblockBits
      BY Zenon, <2>3, WordsOfBlock
    <3>2. b * BlockBits <= w * SubblockBits
      BY <3>1
    <3> QED
      BY <3>1, <3>2
  <2>7. v.blockRanks[b] = Pop(words, 0, x) /\ v.subblockRanks[w] = Pop(words, x, y)
    BY Zenon, <1>1, <2>3, <2>4, <2>5, <2>6
  <2>8. Rank1(v, i) = v.blockRanks[b] + (v.subblockRanks[w] + Pop(words, y, i))
    BY Zenon, <1>1, <2>1, <2>2, <2>3, <2>4, <2>6 DEF Rank1
  <2>9. Pop(words, 0, y) = Pop(words, 0, x) + Pop(words, x, y)
    BY <2>6, PopSplit
  <2>10. Pop(words, 0, i) = Pop(words, 0, y) + Pop(words, y, i)
    BY <2>1, <2>2, <2>6, PopSplit
  <2>11. Pop(words, 0, x) \in Nat /\ Pop(words, x, y) \in Nat /\ Pop(words, y, i) \in Nat
    BY <2>1, <2>6, PopType
  <2> QED
    BY <2>7, <2>8, <2>9, <2>10, <2>11
<1> QED
  BY Zenon, <1>1, <1>2 DEF RanksCount

-----------------------------------------------------------------------------
(* Select. *)

\* The j-th member has j - 1 before it.
LEMMA SelectCounts ==
  ASSUME NEW bits \in SUBSET Nat, NEW j
  PROVE  SelectBit(bits, j) = {p \in bits : Pop(bits, 0, p + 1) = j}
<1>1. ASSUME NEW p \in bits
      PROVE  Cardinality({b \in bits : b <= p}) = Pop(bits, 0, p + 1)
  <2>1. \A b \in Nat : b <= p <=> 0 <= b /\ b < p + 1
    OBVIOUS
  <2>2. {b \in bits : b <= p} = {b \in bits : 0 <= b /\ b < p + 1}
    BY Zenon, <2>1
  <2> QED
    BY Zenon, <2>2 DEF Pop
<1> QED
  BY Zenon, <1>1 DEF SelectBit

\* No bit is the 0th, none comes after the last.
LEMMA SelectNone ==
  ASSUME NEW len \in Nat, NEW bits \in SUBSET Nat, bits \subseteq 0..(len - 1),
         NEW j \in Nat, j = 0 \/ j > Pop(bits, 0, len)
  PROVE  SelectBit(bits, j) = {}
<1>1. ASSUME NEW p \in bits
      PROVE  Pop(bits, 0, p + 1) # j
  <2>1. p \in Nat /\ p + 1 \in Nat /\ p <= p + 1 /\ p + 1 <= len
    OBVIOUS
  <2>2. Pop(bits, 0, p + 1) = Pop(bits, 0, p) + Pop(bits, p, p + 1)
    BY <2>1, PopSplit
  <2>3. Pop(bits, p, p + 1) = 1 /\ Pop(bits, 0, p) \in Nat
    BY <2>1, PopFacts, PopType
  <2>4. Pop(bits, 0, p + 1) <= Pop(bits, 0, len) /\ Pop(bits, 0, len) \in Nat
    BY <2>1, PopGrows, PopType
  <2> QED
    BY <2>2, <2>3, <2>4
<1> QED
  BY Zenon, <1>1, SelectCounts

\* The least of a set of naturals.
LEMMA LeastIs ==
  ASSUME NEW S \in SUBSET Nat, S # {}
  PROVE  Least(S) \in S /\ \A m \in S : Least(S) <= m
<1>1. PICK n \in S : \A m \in S : n <= m
  BY MinIsLeast
<1> QED
  BY Zenon, <1>1 DEF Least

\* The block the block ranks lead to holds the bit.
Candidates(bits, last, j) == {b \in 0..last : b = last \/ Pop(bits, 0, (b + 1) * BlockBits) >= j}

HoldsBit(block, bits, last, j) ==
  /\ block \in 0..last
  /\ Pop(bits, 0, block * BlockBits) < j
  /\ j <= Pop(bits, 0, (block + 1) * BlockBits)

LEMMA BlockFound ==
  ASSUME NEW len \in Nat, NEW bits \in SUBSET Nat, bits \subseteq 0..(len - 1),
         NEW j \in Nat, j # 0, j <= Pop(bits, 0, len),
         NEW last \in Nat, len <= last * BlockBits
  PROVE  HoldsBit(Least(Candidates(bits, last, j)), bits, last, j)
<1> PICK block : block = Least(Candidates(bits, last, j))
  OBVIOUS
<1> DEFINE S == {b \in 0..last : b = last \/ Pop(bits, 0, (b + 1) * BlockBits) >= j}
<1>1. \A b \in Nat : b * BlockBits \in Nat /\ Pop(bits, 0, b * BlockBits) \in Nat
  BY Blocks, TimesKeepsOrder, PopType
<1>2. Pop(bits, 0, len) \in Nat /\ Pop(bits, 0, last * BlockBits) = Pop(bits, 0, len)
  <2>1. last * BlockBits \in Nat
    BY <1>1
  <2>2. Pop(bits, 0, len) \in Nat
    BY PopType
  <2> QED
    BY Zenon, <2>1, <2>2, PopPast
<1>3. 0 * BlockBits = 0 /\ Pop(bits, 0, 0) = 0
  <2>1. 0 * BlockBits = 0
    BY Blocks
  <2> QED
    BY <2>1, PopFacts
<1>4. last # 0
  BY <1>2, <1>3
<1>5. last \in S /\ S \in SUBSET Nat
  OBVIOUS
<1>6. block \in S /\ \A m \in S : block <= m
  BY Zenon, <1>5, LeastIs DEF Candidates
<1>7. last - 1 \in S
  <2>1. last - 1 \in 0..last /\ (last - 1) + 1 = last
    BY <1>4
  <2>2. Pop(bits, 0, ((last - 1) + 1) * BlockBits) >= j
    BY <1>2, <2>1
  <2> QED
    BY Zenon, <2>1, <2>2
<1>8. block \in 0..last /\ block # last
  BY <1>6, <1>7
<1>9. Pop(bits, 0, (block + 1) * BlockBits) >= j
  BY Zenon, <1>6, <1>8
<1>10. block + 1 \in Nat /\ Pop(bits, 0, (block + 1) * BlockBits) \in Nat
  BY <1>1, <1>8
<1>11. Pop(bits, 0, block * BlockBits) < j
  <2>1. CASE block = 0
    BY <1>3, <2>1
  <2>2. CASE block # 0
    <3>1. block - 1 \in 0..last /\ ~(block <= block - 1) /\ (block - 1) + 1 = block
      BY <1>8, <2>2
    <3>2. block - 1 \notin S
      BY Zenon, <1>6, <3>1
    <3>3. ~(Pop(bits, 0, ((block - 1) + 1) * BlockBits) >= j)
      BY Zenon, <3>1, <3>2
    <3>4. ~(Pop(bits, 0, block * BlockBits) >= j)
      BY Zenon, <3>1, <3>3
    <3> QED
      BY <1>1, <1>8, <3>4
  <2> QED
    BY <2>1, <2>2
<1>12. j <= Pop(bits, 0, (block + 1) * BlockBits)
  BY <1>9, <1>10
<1> QED
  BY Zenon, <1>8, <1>11, <1>12 DEF HoldsBit

\* The word the counts in a block lead to holds the bit.
LEMMA InBlockFinds ==
  ASSUME NEW bits \in SUBSET Nat, NEW block \in Nat, NEW j \in Nat,
         Pop(bits, 0, block * BlockBits) < j,
         j <= Pop(bits, 0, (block + 1) * BlockBits)
  PROVE  InBlock(bits, block, j - Pop(bits, 0, block * BlockBits)) = SelectBit(bits, j)
<1>1. PICK s, k : s = SubblockBits /\ k = SubblocksPerBlock /\ s \in Nat \ {0} /\ k \in Nat \ {0}
  BY BlockSizes
<1>2. PICK x \in Nat, z \in Nat : x = block * BlockBits /\ z = (block + 1) * BlockBits /\ x <= z
  BY Blocks, TimesKeepsOrder
<1>3. PICK f \in Nat, t \in Nat :
        /\ f = block * k /\ t + 1 = (block + 1) * k /\ f <= t
        /\ f * s = x /\ (t + 1) * s = z
  <2>1. /\ block * k \in Nat /\ (block + 1) * k = block * k + k
        /\ (block * k) * s = x /\ ((block + 1) * k) * s = z
    <3>1. block * k \in Nat /\ (block + 1) * k = block * k + k
      BY <1>1, TimesKeepsOrder
    <3>2. block + 1 \in Nat
      OBVIOUS
    <3> QED
      BY Zenon, <1>1, <1>2, <3>1, <3>2, Blocks
  <2>2. PICK t \in Nat : block * k <= t /\ t + 1 = (block + 1) * k
    <3>1. /\ block * k + k - 1 \in Nat /\ block * k <= block * k + k - 1
          /\ (block * k + k - 1) + 1 = (block + 1) * k
      BY <1>1, <2>1
    <3> QED
      BY Zenon, <3>1
  <2> QED
    BY Zenon, <2>1, <2>2
<1>4. PICK c \in Nat, e \in Nat : c = Pop(bits, 0, x) /\ e = j - c /\ e # 0
  <2>1. Pop(bits, 0, x) \in Nat /\ Pop(bits, 0, x) < j
    BY <1>2, PopType
  <2> QED
    BY <2>1
<1> DEFINE through(w) == Pop(bits, x, (w + 1) * s)
           enough == {w \in f..t : through(w) >= e}
<1>5. ASSUME NEW w \in f..t
      PROVE  /\ w \in Nat /\ w * s \in Nat /\ (w + 1) * s \in Nat
             /\ x <= w * s /\ (w + 1) * s = w * s + s
  BY <1>1, <1>3, TimesKeepsOrder
<1>6. t \in enough
  <2>1. Pop(bits, 0, z) = Pop(bits, 0, x) + Pop(bits, x, z)
    BY <1>2, PopSplit
  <2>2. Pop(bits, x, z) \in Nat
    BY PopType
  <2>3. Pop(bits, x, z) >= e
    BY <1>2, <1>4, <2>1, <2>2
  <2> QED
    BY <1>3, <2>3
<1>7. PICK word : word = Least(enough)
  OBVIOUS
<1>8. word \in enough /\ \A m \in enough : word <= m
  BY Zenon, <1>5, <1>6, <1>7, LeastIs
<1>9. PICK y \in Nat, u \in Nat : y = word * s /\ u = (word + 1) * s /\ x <= y /\ u = y + s
  BY <1>5, <1>8
<1>10. word \in f..t /\ word \in Nat
  BY <1>5, <1>8
<1>11. PICK d \in Nat : d = Pop(bits, x, y) /\ d < e
  <2>1. Pop(bits, x, y) \in Nat
    BY PopType
  <2>2. CASE word = f
    <3>1. x = y
      BY <1>3, <1>9, <2>2
    <3>2. Pop(bits, x, y) = 0
      BY <3>1, PopFacts
    <3> QED
      BY <1>4, <3>2
  <2>3. CASE word # f
    <3>1. word - 1 \in f..t /\ ~(word <= word - 1) /\ (word - 1) + 1 = word
      BY <1>3, <1>10, <2>3
    <3>2. word - 1 \notin enough
      BY Zenon, <1>8, <3>1
    <3>3. ~(Pop(bits, x, y) >= e)
      BY Zenon, <1>9, <3>1, <3>2
    <3> QED
      BY <1>4, <2>1, <3>3
  <2> QED
    BY <2>2, <2>3
<1>12. PICK below \in Nat, upto \in Nat :
         /\ below = Pop(bits, 0, y) /\ upto = Pop(bits, 0, u)
         /\ below = c + d /\ upto >= j
  <2>1. Pop(bits, 0, y) = Pop(bits, 0, x) + Pop(bits, x, y)
    BY <1>9, PopSplit
  <2>2. Pop(bits, 0, u) = Pop(bits, 0, x) + Pop(bits, x, u)
    BY <1>1, <1>9, PopSplit
  <2>3. Pop(bits, x, u) >= e /\ Pop(bits, x, u) \in Nat
    BY <1>8, <1>9, PopType
  <2> QED
    BY <1>4, <1>11, <2>1, <2>2, <2>3
<1> DEFINE inWord == {b \in bits : b \div s = word}
<1>13. ASSUME NEW b \in bits
       PROVE  b \in inWord <=> y <= b /\ b < u
  <2>1. b \in Nat
    OBVIOUS
  <2>2. b \div s = word => y <= b /\ b < u
    BY <1>1, <1>9, <2>1, DivRounds
  <2>3. y <= b /\ b < u => b \div s = word
    BY <1>1, <1>9, <1>10, <2>1, DivIs
  <2> QED
    BY <2>2, <2>3
<1>14. InBlock(bits, block, e) = SelectBit(inWord, e - d)
  <2>1. InBlock(bits, block, e) =
          IF enough = {} THEN {}
          ELSE SelectBit({b \in bits : b \div s = Least(enough)}, e - Pop(bits, x, Least(enough) * s))
    <3>1. \A w : Pop(bits, block * BlockBits, (w + 1) * SubblockBits) = through(w)
      BY <1>1, <1>2
    <3>2. (block * SubblocksPerBlock)..((block + 1) * SubblocksPerBlock - 1) = f..t
      BY <1>1, <1>3
    <3> DEFINE raw == {w \in (block * SubblocksPerBlock)..((block + 1) * SubblocksPerBlock - 1) :
                        Pop(bits, block * BlockBits, (w + 1) * SubblockBits) >= e}
    <3>4. InBlock(bits, block, e) =
            IF raw = {} THEN {}
            ELSE SelectBit({b \in bits : b \div SubblockBits = Least(raw)},
                           e - Pop(bits, block * BlockBits, Least(raw) * SubblockBits))
      BY Zenon DEF InBlock
    <3>5. ASSUME NEW w
          PROVE  w \in raw <=> w \in enough
      BY Zenon, <3>1, <3>2
    <3>6. raw = enough
      <4> HIDE DEF raw, enough
      <4> QED
        BY Zenon, <3>5
    <3> HIDE DEF enough, raw
    <3> QED
      BY Zenon, <1>1, <1>2, <3>4, <3>6
  <2> QED
    BY Zenon, <1>6, <1>7, <1>9, <1>11, <2>1
<1>15. inWord \in SUBSET Nat
  OBVIOUS
<1>16. ASSUME NEW p \in bits
       PROVE  (p \in inWord /\ Pop(inWord, 0, p + 1) = e - d) <=> Pop(bits, 0, p + 1) = j
  <2>1. p \in Nat /\ p + 1 \in Nat /\ p <= p + 1
    OBVIOUS
  <2>2. Pop(bits, 0, p + 1) \in Nat /\ Pop(bits, 0, p) \in Nat
    BY <2>1, PopType
  <2>3. CASE p \in inWord
    <3>1. y <= p /\ p < u
      BY <1>13, <2>3
    <3>2. \A b \in bits : b \in inWord /\ 0 <= b /\ b < p + 1 <=> y <= b /\ b < p + 1
      <4> TAKE b \in bits
      <4>1. b \in Nat
        OBVIOUS
      <4>2. b < p + 1 => b < u
        BY <1>9, <2>1, <3>1, <4>1
      <4>3. 0 <= b
        BY <4>1
      <4> HIDE DEF inWord
      <4> QED
        BY Zenon, <1>13, <4>2, <4>3
    <3>3. {b \in inWord : 0 <= b /\ b < p + 1} = {b \in bits : y <= b /\ b < p + 1}
      <4>1. inWord \subseteq bits
        OBVIOUS
      <4> HIDE DEF inWord
      <4> QED
        BY Zenon, <3>2, <4>1
    <3>4. Pop(inWord, 0, p + 1) = Pop(bits, y, p + 1)
      BY Zenon, <3>3 DEF Pop
    <3>5. Pop(bits, 0, p + 1) = Pop(bits, 0, y) + Pop(bits, y, p + 1)
      BY <2>1, <3>1, PopSplit
    <3>6. Pop(bits, y, p + 1) \in Nat
      BY <2>1, PopType
    <3> HIDE DEF inWord
    <3> QED
      BY <1>4, <1>12, <2>3, <3>4, <3>5, <3>6
  <2>4. CASE p \notin inWord
    <3>1. ~(y <= p /\ p < u)
      BY <1>13, <2>4
    <3>2. CASE p < y
      <4>1. p + 1 <= y
        BY <2>1, <3>2
      <4>2. Pop(bits, 0, p + 1) <= below
        BY <1>12, <2>1, <4>1, PopGrows
      <4>3. Pop(bits, 0, p + 1) # j
        BY <1>4, <1>11, <1>12, <2>2, <4>2
      <4> QED
        BY Zenon, <2>4, <4>3
    <3>3. CASE u <= p
      <4>1. upto <= Pop(bits, 0, p)
        BY <1>12, <2>1, <3>3, PopGrows
      <4>2. Pop(bits, 0, p + 1) = Pop(bits, 0, p) + Pop(bits, p, p + 1)
        BY <2>1, PopSplit
      <4>3. Pop(bits, p, p + 1) = 1
        BY <2>1, PopFacts
      <4>4. Pop(bits, 0, p + 1) # j
        BY <1>12, <2>2, <4>1, <4>2, <4>3
      <4> QED
        BY Zenon, <2>4, <4>4
    <3> QED
      BY <1>9, <2>1, <3>1, <3>2, <3>3
  <2> QED
    BY <2>3, <2>4
<1>17. SelectBit(inWord, e - d) = {p \in inWord : Pop(inWord, 0, p + 1) = e - d}
  BY Zenon, <1>15, SelectCounts
<1>18. SelectBit(bits, j) = {p \in bits : Pop(bits, 0, p + 1) = j}
  BY Zenon, SelectCounts
<1>19. inWord \subseteq bits
  OBVIOUS
<1> HIDE DEF inWord
<1>20. SelectBit(inWord, e - d) = SelectBit(bits, j)
  BY Zenon, <1>16, <1>17, <1>18, <1>19
<1> QED
  BY Zenon, <1>2, <1>4, <1>14, <1>20

\* Below the length a position is set or is a zero.
LEMMA ZerosCount ==
  ASSUME NEW len \in Nat, NEW words \in SUBSET Nat, words \subseteq 0..(len - 1), NEW c \in Nat
  PROVE  Pop((0..(len - 1)) \ words, 0, c) = Lower(c, len) - Pop(words, 0, c)
<1> DEFINE Z == {i \in (0..(len - 1)) \ words : 0 <= i /\ i < c}
           O == {i \in words : 0 <= i /\ i < c}
<1>1. Z \cup O = 0..(Lower(c, len) - 1) /\ Z \cap O = {}
  <2>1. ASSUME NEW i
        PROVE  i \in Z \cup O <=> i \in 0..(Lower(c, len) - 1)
    <3>1. i \in 0..(Lower(c, len) - 1) <=> i \in 0..(len - 1) /\ 0 <= i /\ i < c
      BY DEF Lower
    <3>2. i \in words => i \in 0..(len - 1)
      OBVIOUS
    <3> QED
      BY Zenon, <3>1, <3>2
  <2> QED
    BY Zenon, <2>1
<1>2. IsFiniteSet(Z) /\ IsFiniteSet(O)
  <2>1. (0..(len - 1)) \ words \in SUBSET Nat
    OBVIOUS
  <2> QED
    BY <2>1, PopType
<1>3. Lower(c, len) \in Nat
  BY DEF Lower
<1>4. PICK n \in Nat : n = Lower(c, len)
  BY <1>3
<1>5. Cardinality(0..(n - 1)) = n
  BY <1>4, FS_Interval
<1>6. /\ Pop((0..(len - 1)) \ words, 0, c) = Cardinality(Z)
      /\ Pop(words, 0, c) = Cardinality(O)
  BY DEF Pop
<1> HIDE DEF Z, O
<1>7. Cardinality(Z \cup O) = Cardinality(Z) + Cardinality(O) - Cardinality(Z \cap O)
  BY <1>2, FS_Union
<1>8. Cardinality(Z \cap O) = 0
  BY <1>1, FS_EmptySet
<1>9. Cardinality(Z) \in Nat /\ Cardinality(O) \in Nat
  BY <1>2, FS_CardinalityType
<1>10. Cardinality(Z \cup O) = n
  BY Zenon, <1>1, <1>4, <1>5
<1>11. n = Cardinality(Z) + Cardinality(O)
  BY <1>7, <1>8, <1>9, <1>10
<1>12. Cardinality(Z) = n - Cardinality(O)
  BY <1>9, <1>11
<1> QED
  BY Zenon, <1>4, <1>6, <1>12

\* Both selects: a block is looked for among counts, then a word in it.
Lead(before, last, j) == Least({b \in 0..last : b = last \/ before[b + 1] >= j})

BlocksCount(before, bits, last) == \A b \in 0..last : before[b] = Pop(bits, 0, b * BlockBits)

Finds(before, bits, last, j) ==
  /\ Lead(before, last, j) \in 0..last
  /\ InBlock(bits, Lead(before, last, j), j - before[Lead(before, last, j)]) = SelectBit(bits, j)

\* The j-th bit of the block found is the j-th bit of all.
LEMMA SelectFinds ==
  ASSUME NEW len \in Nat, NEW bits \in SUBSET Nat, bits \subseteq 0..(len - 1),
         NEW j \in Nat, j # 0, j <= Pop(bits, 0, len),
         NEW last \in Nat, len <= last * BlockBits,
         NEW before, BlocksCount(before, bits, last)
  PROVE  Finds(before, bits, last, j)
<1>1. ASSUME NEW b \in 0..last
      PROVE  (b = last \/ before[b + 1] >= j)
               <=> (b = last \/ Pop(bits, 0, (b + 1) * BlockBits) >= j)
  <2>1. b # last => b + 1 \in 0..last
    OBVIOUS
  <2> QED
    BY Zenon, <2>1 DEF BlocksCount
<1>2. {b \in 0..last : b = last \/ before[b + 1] >= j} = Candidates(bits, last, j)
  BY Zenon, <1>1 DEF Candidates
<1>3. PICK block : block = Lead(before, last, j) /\ block = Least(Candidates(bits, last, j))
  BY Zenon, <1>2 DEF Lead
<1>4. HoldsBit(block, bits, last, j)
  BY Zenon, <1>3, BlockFound
<1>5. /\ block \in 0..last
      /\ Pop(bits, 0, block * BlockBits) < j
      /\ j <= Pop(bits, 0, (block + 1) * BlockBits)
  BY Zenon, <1>4 DEF HoldsBit
<1>6. before[block] = Pop(bits, 0, block * BlockBits)
  BY Zenon, <1>5 DEF BlocksCount
<1>7. block \in Nat
  BY <1>5
<1>8. InBlock(bits, block, j - Pop(bits, 0, block * BlockBits)) = SelectBit(bits, j)
  BY Zenon, <1>5, <1>7, InBlockFinds
<1> QED
  BY Zenon, <1>3, <1>5, <1>6, <1>8 DEF Finds

\* select_1 on the words, select_0 on what they leave out.
LEMMA SelectsAreInverse ==
  ASSUME NEW len \in Nat, NEW words \in SUBSET Nat, words \subseteq 0..(len - 1),
         NEW v, Counted(v, words, len)
  PROVE  SelectsInvert(v)
<1> DEFINE zeros == (0..(len - 1)) \ words
<1>1. /\ v.words = words /\ v.len = len /\ Ones(v) = Pop(words, 0, len)
      /\ \A b \in 0..DivCeil(len, BlockBits) : v.blockRanks[b] = Pop(words, 0, b * BlockBits)
  BY Zenon DEF Counted
<1>2. {i \in words : i < len} = words /\ {i \in 0..len : i < len} \ words = zeros
  <2>1. \A i \in words : i < len
    OBVIOUS
  <2>2. {i \in 0..len : i < len} = 0..(len - 1)
    OBVIOUS
  <2> QED
    BY Zenon, <2>1, <2>2
<1>3. zeros \in SUBSET Nat /\ zeros \subseteq 0..(len - 1)
  OBVIOUS
<1>4. PICK last \in Nat : last = DivCeil(len, BlockBits) /\ len <= last * BlockBits
  BY Blocks, RoundedUp
<1>5. ASSUME NEW b \in 0..last
      PROVE  Lower(b * BlockBits, len) - v.blockRanks[b] = Pop(zeros, 0, b * BlockBits)
  <2>1. b * BlockBits \in Nat
    BY Blocks, TimesKeepsOrder
  <2>2. Pop(zeros, 0, b * BlockBits) = Lower(b * BlockBits, len) - Pop(words, 0, b * BlockBits)
    BY Zenon, <2>1, ZerosCount
  <2> QED
    BY Zenon, <1>1, <1>4, <2>2
<1>6. Zeros(v) = Pop(zeros, 0, len)
  <2>1. Lower(len, len) = len
    BY DEF Lower
  <2>2. Pop(zeros, 0, len) = Lower(len, len) - Pop(words, 0, len)
    BY Zenon, ZerosCount
  <2> QED
    BY Zenon, <1>1, <2>1, <2>2 DEF Zeros
<1>7. Pop(words, 0, len) \in Nat /\ Pop(zeros, 0, len) \in Nat
  BY <1>3, PopType
<1> HIDE DEF zeros
<1>8. ASSUME NEW j \in Nat
      PROVE  Select1(v, j) = SelectBit(words, j)
  <2>1. CASE j = 0 \/ j > Pop(words, 0, len)
    <3>1. Select1(v, j) = {}
      BY Zenon, <1>1, <2>1 DEF Select1
    <3> QED
      BY Zenon, <2>1, <3>1, SelectNone
  <2>2. CASE ~(j = 0 \/ j > Pop(words, 0, len))
    <3>1. j # 0 /\ j <= Pop(words, 0, len)
      BY <1>7, <2>2
    <3>2. BlocksCount(v.blockRanks, words, last)
      BY Zenon, <1>1, <1>4 DEF BlocksCount
    <3>3. PICK block : block = Lead(v.blockRanks, last, j)
      OBVIOUS
    <3>4. Select1(v, j) = InBlock(words, block, j - v.blockRanks[block])
      BY Zenon, <1>1, <1>4, <2>2, <3>3 DEF Select1, Lead
    <3>5. Finds(v.blockRanks, words, last, j)
      BY Zenon, <1>4, <3>1, <3>2, SelectFinds
    <3> QED
      BY Zenon, <3>3, <3>4, <3>5 DEF Finds
  <2> QED
    BY <2>1, <2>2
<1>9. ASSUME NEW j \in Nat
      PROVE  Select0(v, j) = SelectBit(zeros, j)
  <2>1. CASE j = 0 \/ j > Pop(zeros, 0, len)
    <3>1. Select0(v, j) = {}
      BY Zenon, <1>6, <2>1 DEF Select0
    <3> QED
      BY Zenon, <1>3, <2>1, <3>1, SelectNone
  <2>2. CASE ~(j = 0 \/ j > Pop(zeros, 0, len))
    <3>1. j # 0 /\ j <= Pop(zeros, 0, len)
      BY <1>7, <2>2
    <3> DEFINE before == [b \in 0..last |-> Lower(b * BlockBits, len) - v.blockRanks[b]]
    <3>2. BlocksCount(before, zeros, last)
      BY Zenon, <1>5 DEF BlocksCount
    <3>3. ASSUME NEW b \in 0..last
          PROVE  (b = last \/ before[b + 1] >= j)
                   <=> (b = last \/ Lower((b + 1) * BlockBits, len) - v.blockRanks[b + 1] >= j)
      <4>1. b # last => b + 1 \in 0..last
        OBVIOUS
      <4> QED
        BY Zenon, <4>1
    <3>4. \A b \in 0..last : before[b] = Lower(b * BlockBits, len) - v.blockRanks[b]
      BY Zenon
    <3> HIDE DEF before
    <3>5. {b \in 0..last : b = last \/ before[b + 1] >= j}
            = {b \in 0..last : b = last \/ Lower((b + 1) * BlockBits, len) - v.blockRanks[b + 1] >= j}
      BY Zenon, <3>3
    <3>6. PICK block : block = Lead(before, last, j)
      OBVIOUS
    <3>7. /\ block \in 0..last
          /\ InBlock(zeros, block, j - before[block]) = SelectBit(zeros, j)
      <4>1. Finds(before, zeros, last, j)
        BY Zenon, <1>3, <1>4, <3>1, <3>2, SelectFinds
      <4> QED
        BY Zenon, <3>6, <4>1 DEF Finds
    <3>8. Select0(v, j) = InBlock(zeros, block, j - (Lower(block * BlockBits, len) - v.blockRanks[block]))
      BY Zenon, <1>1, <1>4, <1>6, <2>2, <3>5, <3>6 DEF Select0, Lead, zeros
    <3> QED
      BY Zenon, <3>4, <3>7, <3>8
  <2> QED
    BY <2>1, <2>2
<1>10. \A j \in 0..(len + 1) : j \in Nat
  OBVIOUS
<1> QED
  BY Zenon, <1>1, <1>2, <1>8, <1>9, <1>10 DEF SelectsInvert

-----------------------------------------------------------------------------
(* Bit vectors and layers. *)

\* Get reads the words a vector was made of, whatever its tables hold.
LEMMA GetOfNew ==
  ASSUME NEW words, NEW len, NEW i
  PROVE  /\ New(words, len).len = len
         /\ Get(New(words, len), i) <=> (i < len /\ i \in words)
BY DEF New, Get

LEMMA LayersFinite ==
  /\ IsFiniteSet(Layers)
  /\ \A a, b \in Signature : Hamming(a, b) \in Nat
<1>1. IsFiniteSet(0..SigBits)
  BY SigBitsAssumption, FS_Interval
<1>2. IsFiniteSet(Layers)
  BY <1>1, FS_Subset DEF Layers
<1>3. ASSUME NEW a \in Signature, NEW b \in Signature
      PROVE  Hamming(a, b) \in Nat
  <2>1. (a \ b) \cup (b \ a) \subseteq Layers
    BY DEF Signature
  <2>2. IsFiniteSet((a \ b) \cup (b \ a))
    BY <1>2, <2>1, FS_Subset
  <2> QED
    BY <2>2, FS_CardinalityType DEF Hamming
<1> QED
  BY <1>2, <1>3

-----------------------------------------------------------------------------
(* The parts of a store.  The steps below speak of the parts by name: the  *)
(* provers reason about the length of a sequence, not of a field.          *)

ValuesOf(st)  == st.values
TailOf(st) == st.tail
TailValuesOf(st) == st.tailValues

LEMMA Parts ==
  ASSUME NEW st
  PROVE  /\ Length(st) = Len(ValuesOf(st)) + Len(TailOf(st))
         /\ PendingTail(st) = Len(TailOf(st))
         /\ Compacted(st) = [i \in 1..Len(ValuesOf(st)) |-> GetCompacted(st, i - 1)]
         /\ AllSigs(st) = Compacted(st) \o TailOf(st)
         /\ AllValues(st) = ValuesOf(st) \o TailValuesOf(st)
         /\ \A i : i < Len(ValuesOf(st)) =>
              /\ SigAt(st, i) = GetCompacted(st, i)
              /\ ValueAt(st, i) = ValuesOf(st)[i + 1]
         /\ \A i : ~(i < Len(ValuesOf(st))) =>
              /\ SigAt(st, i) = TailOf(st)[i - Len(ValuesOf(st)) + 1]
              /\ ValueAt(st, i) = TailValuesOf(st)[i - Len(ValuesOf(st)) + 1]
BY DEF ValuesOf, TailOf, TailValuesOf, Length, PendingTail, Compacted, AllSigs, AllValues, SigAt, ValueAt

LEMMA PartsOK ==
  ASSUME NEW st
  PROVE  StoreOK(st) <=>
           /\ DOMAIN st = {"layers", "values", "tail", "tailValues"}
           /\ DOMAIN st.layers = Layers
           /\ \A k \in Layers : st.layers[k].len = Len(ValuesOf(st))
           /\ ValuesOf(st) \in Seq(Nat)
           /\ TailOf(st) \in Seq(Signature)
           /\ TailValuesOf(st) \in Seq(Nat)
           /\ Len(TailValuesOf(st)) = Len(TailOf(st))
BY Zenon DEF StoreOK, ValuesOf, TailOf, TailValuesOf

LEMMA StoreType ==
  ASSUME NEW st, StoreOK(st)
  PROVE  /\ ValuesOf(st) \in Seq(Nat)
         /\ TailOf(st) \in Seq(Signature)
         /\ TailValuesOf(st) \in Seq(Nat)
         /\ Len(TailValuesOf(st)) = Len(TailOf(st))
         /\ Len(ValuesOf(st)) \in Nat
         /\ Len(TailOf(st)) \in Nat
         /\ Length(st) \in Nat
         /\ PendingTail(st) \in Nat
<1>1. /\ ValuesOf(st) \in Seq(Nat)
      /\ TailOf(st) \in Seq(Signature)
      /\ TailValuesOf(st) \in Seq(Nat)
      /\ Len(TailValuesOf(st)) = Len(TailOf(st))
  BY PartsOK
<1>2. Len(ValuesOf(st)) \in Nat /\ Len(TailOf(st)) \in Nat
  BY <1>1
<1> QED
  BY <1>1, <1>2, Parts

\* A store built from signatures and values gives them back, in order.
LEMMA BuildReads ==
  ASSUME NEW sigs \in Seq(Signature), NEW values \in Seq(Nat), Len(values) = Len(sigs)
  PROVE  /\ StoreOK(Build(sigs, values))
         /\ PendingTail(Build(sigs, values)) = 0
         /\ Length(Build(sigs, values)) = Len(sigs)
         /\ \A i \in 1..Len(sigs) :
              /\ SigAt(Build(sigs, values), i - 1) = sigs[i]
              /\ ValueAt(Build(sigs, values), i - 1) = values[i]
<1> DEFINE bits(k) == {i - 1 : i \in {j \in DOMAIN sigs : k \in sigs[j]}}
<1>1. PICK b : b = Build(sigs, values)
  OBVIOUS
<1>2. /\ b.layers = [k \in Layers |-> New(bits(k), Len(sigs))]
      /\ ValuesOf(b) = values
      /\ TailOf(b) = <<>>
      /\ TailValuesOf(b) = <<>>
  BY <1>1 DEF Build, ValuesOf, TailOf, TailValuesOf
<1> HIDE DEF bits
<1>3. ASSUME NEW k \in Layers
      PROVE  b.layers[k] = New(bits(k), Len(sigs))
  BY Zenon, <1>2
<1>4. \A k \in Layers : b.layers[k].len = Len(ValuesOf(b))
  <2> TAKE k \in Layers
  <2>1. b.layers[k].len = New(bits(k), Len(sigs)).len
    BY Zenon, <1>3
  <2> QED
    BY Zenon, <1>2, <2>1, GetOfNew
<1>5. /\ DOMAIN b = {"layers", "values", "tail", "tailValues"}
      /\ DOMAIN b.layers = Layers
      /\ TailOf(b) \in Seq(Signature)
      /\ TailValuesOf(b) \in Seq(Nat)
      /\ Len(TailValuesOf(b)) = Len(TailOf(b))
      /\ Len(TailOf(b)) = 0
      /\ Len(ValuesOf(b)) = Len(sigs)
      /\ Len(sigs) \in Nat
  BY <1>1, <1>2 DEF Build
<1>6. StoreOK(b)
  BY <1>2, <1>4, <1>5, PartsOK
<1>7. ASSUME NEW i \in 1..Len(sigs)
      PROVE  SigAt(b, i - 1) = sigs[i] /\ ValueAt(b, i - 1) = values[i]
  <2>1. i - 1 < Len(sigs) /\ i \in DOMAIN sigs /\ i - 1 + 1 = i
    BY <1>5
  <2>2. sigs[i] \in Signature
    BY ElementOfSeq
  <2>3. \A k \in Layers : Get(b.layers[k], i - 1) <=> i - 1 \in bits(k)
    BY <1>3, <2>1, GetOfNew
  <2>4. \A k \in Layers : i - 1 \in bits(k) <=> k \in sigs[i]
    BY <2>1 DEF bits
  <2>5. GetCompacted(b, i - 1) = sigs[i]
    BY <2>2, <2>3, <2>4 DEF GetCompacted, Signature
  <2> QED
    BY <1>2, <1>5, <2>1, <2>5, Parts
<1>8. PendingTail(b) = 0 /\ Length(b) = Len(sigs)
  BY <1>5, Parts
<1> QED
  BY Zenon, <1>1, <1>6, <1>7, <1>8

-----------------------------------------------------------------------------
(* What a store holds. *)

LEMMA Joined ==
  ASSUME NEW S, NEW s \in Seq(S), NEW t \in Seq(S)
  PROVE  /\ s \o t \in Seq(S)
         /\ Len(s \o t) = Len(s) + Len(t)
         /\ \A i \in 1..(Len(s) + Len(t)) :
              (s \o t)[i] = IF i <= Len(s) THEN s[i] ELSE t[i - Len(s)]
OBVIOUS

LEMMA ReadsInOrder ==
  ASSUME NEW st, StoreOK(st)
  PROVE  /\ AllSigs(st) \in Seq(Signature)
         /\ AllValues(st) \in Seq(Nat)
         /\ Len(AllSigs(st)) = Length(st)
         /\ Len(AllValues(st)) = Length(st)
         /\ \A i \in 1..Length(st) :
              /\ AllSigs(st)[i] = SigAt(st, i - 1)
              /\ AllValues(st)[i] = ValueAt(st, i - 1)
<1>1. /\ ValuesOf(st) \in Seq(Nat)
      /\ TailOf(st) \in Seq(Signature)
      /\ TailValuesOf(st) \in Seq(Nat)
      /\ Len(TailValuesOf(st)) = Len(TailOf(st))
      /\ Len(ValuesOf(st)) \in Nat
      /\ Len(TailOf(st)) \in Nat
      /\ Length(st) = Len(ValuesOf(st)) + Len(TailOf(st))
  BY StoreType, Parts
<1>2. \A i : GetCompacted(st, i) \in Signature
  BY DEF GetCompacted, Signature
<1>3. /\ Compacted(st) \in Seq(Signature)
      /\ Len(Compacted(st)) = Len(ValuesOf(st))
      /\ \A i \in 1..Len(ValuesOf(st)) : Compacted(st)[i] = GetCompacted(st, i - 1)
  <2>1. PICK n \in Nat : n = Len(ValuesOf(st))
    BY <1>1
  <2>2. Compacted(st) = [i \in 1..n |-> GetCompacted(st, i - 1)]
    BY <2>1, Parts
  <2>3. Compacted(st) \in [1..n -> Signature]
    BY <1>2, <2>2
  <2>4. Compacted(st) \in Seq(Signature) /\ Len(Compacted(st)) = n
    BY <2>3
  <2> QED
    BY <2>1, <2>2, <2>4
<1>4. /\ AllSigs(st) \in Seq(Signature)
      /\ Len(AllSigs(st)) = Length(st)
      /\ \A i \in 1..Length(st) :
           AllSigs(st)[i] = IF i <= Len(ValuesOf(st)) THEN Compacted(st)[i]
                            ELSE TailOf(st)[i - Len(ValuesOf(st))]
  <2>1. PICK c, t : c = Compacted(st) /\ t = TailOf(st)
    OBVIOUS
  <2>2. c \in Seq(Signature) /\ t \in Seq(Signature)
    BY <1>1, <1>3, <2>1
  <2>3. /\ c \o t \in Seq(Signature)
        /\ Len(c \o t) = Len(c) + Len(t)
        /\ \A i \in 1..(Len(c) + Len(t)) :
             (c \o t)[i] = IF i <= Len(c) THEN c[i] ELSE t[i - Len(c)]
    BY <2>2, Joined
  <2>4. AllSigs(st) = c \o t /\ Len(c) = Len(ValuesOf(st)) /\ Length(st) = Len(c) + Len(t)
    BY Zenon, <1>1, <1>3, <2>1, Parts
  <2> QED
    BY Zenon, <2>1, <2>3, <2>4
<1>5. /\ AllValues(st) \in Seq(Nat)
      /\ Len(AllValues(st)) = Length(st)
      /\ \A i \in 1..Length(st) :
           AllValues(st)[i] = IF i <= Len(ValuesOf(st)) THEN ValuesOf(st)[i]
                              ELSE TailValuesOf(st)[i - Len(ValuesOf(st))]
  <2>1. PICK c, t : c = ValuesOf(st) /\ t = TailValuesOf(st)
    OBVIOUS
  <2>2. c \in Seq(Nat) /\ t \in Seq(Nat)
    BY <1>1, <2>1
  <2>3. /\ c \o t \in Seq(Nat)
        /\ Len(c \o t) = Len(c) + Len(t)
        /\ \A i \in 1..(Len(c) + Len(t)) :
             (c \o t)[i] = IF i <= Len(c) THEN c[i] ELSE t[i - Len(c)]
    BY <2>2, Joined
  <2>4. AllValues(st) = c \o t /\ Length(st) = Len(c) + Len(t)
    BY Zenon, <1>1, <2>1, Parts
  <2> QED
    BY Zenon, <2>1, <2>3, <2>4
<1>6. ASSUME NEW i \in 1..Length(st)
      PROVE  AllSigs(st)[i] = SigAt(st, i - 1) /\ AllValues(st)[i] = ValueAt(st, i - 1)
  <2>1. /\ i \in 1..(Len(ValuesOf(st)) + Len(TailOf(st)))
        /\ i - 1 < Len(ValuesOf(st)) <=> i <= Len(ValuesOf(st))
        /\ i - 1 + 1 = i
        /\ i - 1 - Len(ValuesOf(st)) + 1 = i - Len(ValuesOf(st))
    BY <1>1
  <2>2. CASE i <= Len(ValuesOf(st))
    <3>1. i \in 1..Len(ValuesOf(st)) /\ i - 1 < Len(ValuesOf(st))
      BY <1>1, <2>1, <2>2
    <3>2. SigAt(st, i - 1) = GetCompacted(st, i - 1) /\ ValueAt(st, i - 1) = ValuesOf(st)[i]
      BY <2>1, <3>1, Parts
    <3> QED
      BY <1>3, <1>4, <1>5, <2>2, <3>1, <3>2
  <2>3. CASE ~(i <= Len(ValuesOf(st)))
    <3>1. /\ SigAt(st, i - 1) = TailOf(st)[i - Len(ValuesOf(st))]
          /\ ValueAt(st, i - 1) = TailValuesOf(st)[i - Len(ValuesOf(st))]
      BY <2>1, <2>3, Parts
    <3> QED
      BY <1>4, <1>5, <2>3, <3>1
  <2> QED
    BY <2>2, <2>3
<1> QED
  BY <1>4, <1>5, <1>6

LogEntry == [sig : Signature, event : Int, doc : Int]

\* An entry is what its signature and its value say.
LEMMA LogShape ==
  ASSUME NEW st, StoreOK(st)
  PROVE  /\ LogOf(st) \in Seq(LogEntry)
         /\ Len(LogOf(st)) = Length(st)
         /\ \A i \in 1..Length(st) :
              LogOf(st)[i] = Entry(SigAt(st, i - 1), ValueAt(st, i - 1))
<1>1. PICK n \in Nat : n = Length(st)
  BY StoreType
<1>2. ASSUME NEW i \in 1..n
      PROVE  Entry(SigAt(st, i - 1), ValueAt(st, i - 1)) \in LogEntry
  <2>1. SigAt(st, i - 1) \in Signature /\ ValueAt(st, i - 1) \in Nat
    BY <1>1, ReadsInOrder, ElementOfSeq
  <2> QED
    BY <2>1, ColdTierAssumption DEF Entry, Decode, LogEntry
<1>3. LogOf(st) = [i \in 1..n |-> Entry(SigAt(st, i - 1), ValueAt(st, i - 1))]
  BY <1>1 DEF LogOf
<1>4. LogOf(st) \in [1..n -> LogEntry]
  BY <1>2, <1>3
<1>5. LogOf(st) \in Seq(LogEntry) /\ Len(LogOf(st)) = n
  BY <1>4
<1> QED
  BY <1>1, <1>3, <1>5

LEMMA CompactKeeps ==
  ASSUME NEW st, StoreOK(st)
  PROVE  /\ StoreOK(Compact(st))
         /\ PendingTail(Compact(st)) = 0
         /\ LogOf(Compact(st)) = LogOf(st)
<1>1. CASE st.tail = <<>>
  BY <1>1 DEF Compact, PendingTail
<1>2. CASE st.tail # <<>>
  <2>1. PICK c : c = Build(AllSigs(st), AllValues(st))
    OBVIOUS
  <2>2. /\ StoreOK(c)
        /\ PendingTail(c) = 0
        /\ Length(c) = Length(st)
        /\ \A i \in 1..Length(st) :
             SigAt(c, i - 1) = SigAt(st, i - 1) /\ ValueAt(c, i - 1) = ValueAt(st, i - 1)
    BY <2>1, ReadsInOrder, BuildReads
  <2>3. LogOf(c) = LogOf(st)
    BY <2>2 DEF LogOf
  <2> QED
    BY <1>2, <2>1, <2>2, <2>3 DEF Compact
<1> QED
  BY <1>1, <1>2

\* A push changes the two tails and nothing else.
LEMMA PushFields ==
  ASSUME NEW st, StoreOK(st), NEW sig, NEW value
  PROVE  /\ DOMAIN Push(st, sig, value) = DOMAIN st
         /\ Push(st, sig, value).layers = st.layers
         /\ ValuesOf(Push(st, sig, value)) = ValuesOf(st)
         /\ TailOf(Push(st, sig, value)) = Append(TailOf(st), sig)
         /\ TailValuesOf(Push(st, sig, value)) = Append(TailValuesOf(st), value)
BY DEF Push, ValuesOf, TailOf, TailValuesOf, StoreOK

LEMMA PushAppends ==
  ASSUME NEW st, StoreOK(st), NEW sig \in Signature, NEW value \in Nat
  PROVE  /\ StoreOK(Push(st, sig, value))
         /\ PendingTail(Push(st, sig, value)) = PendingTail(st) + 1
         /\ LogOf(Push(st, sig, value)) = Append(LogOf(st), Entry(sig, value))
<1>1. PICK p : p = Push(st, sig, value)
  OBVIOUS
<1>2. PICK v, t, w : v = ValuesOf(st) /\ t = TailOf(st) /\ w = TailValuesOf(st)
  OBVIOUS
<1>3. /\ v \in Seq(Nat) /\ t \in Seq(Signature) /\ w \in Seq(Nat)
      /\ Len(w) = Len(t) /\ Len(v) \in Nat /\ Len(t) \in Nat
      /\ Length(st) = Len(v) + Len(t)
      /\ PendingTail(st) = Len(t)
  BY <1>2, StoreType, Parts
<1>4. /\ DOMAIN p = DOMAIN st
      /\ p.layers = st.layers
      /\ ValuesOf(p) = v
      /\ TailOf(p) = Append(t, sig)
      /\ TailValuesOf(p) = Append(w, value)
  BY <1>1, <1>2, PushFields
<1>5. /\ Append(t, sig) \in Seq(Signature)
      /\ Len(Append(t, sig)) = Len(t) + 1
      /\ Append(w, value) \in Seq(Nat)
      /\ Len(Append(w, value)) = Len(t) + 1
      /\ \A i \in 1..Len(t) : Append(t, sig)[i] = t[i] /\ Append(w, value)[i] = w[i]
      /\ Append(t, sig)[Len(t) + 1] = sig
      /\ Append(w, value)[Len(t) + 1] = value
  BY <1>3
<1>6. StoreOK(p)
  BY <1>2, <1>3, <1>4, <1>5, PartsOK
<1>7. PendingTail(p) = Len(t) + 1 /\ Length(p) = Len(v) + Len(t) + 1
  <2>1. PendingTail(p) = Len(Append(t, sig)) /\ Length(p) = Len(v) + Len(Append(t, sig))
    BY Zenon, <1>4, Parts
  <2> QED
    BY <1>3, <1>5, <2>1
<1>8. /\ \A i : i < Len(v) => SigAt(p, i) = SigAt(st, i) /\ ValueAt(p, i) = ValueAt(st, i)
      /\ \A i : ~(i < Len(v)) =>
           /\ SigAt(p, i) = Append(t, sig)[i - Len(v) + 1]
           /\ ValueAt(p, i) = Append(w, value)[i - Len(v) + 1]
           /\ SigAt(st, i) = t[i - Len(v) + 1]
           /\ ValueAt(st, i) = w[i - Len(v) + 1]
  <2>1. \A i : GetCompacted(p, i) = GetCompacted(st, i)
    BY <1>4 DEF GetCompacted
  <2>2. /\ \A i : i < Len(v) => SigAt(p, i) = GetCompacted(p, i) /\ ValueAt(p, i) = v[i + 1]
        /\ \A i : ~(i < Len(v)) =>
             /\ SigAt(p, i) = Append(t, sig)[i - Len(v) + 1]
             /\ ValueAt(p, i) = Append(w, value)[i - Len(v) + 1]
    BY Zenon, <1>4, Parts
  <2>3. /\ \A i : i < Len(v) => SigAt(st, i) = GetCompacted(st, i) /\ ValueAt(st, i) = v[i + 1]
        /\ \A i : ~(i < Len(v)) =>
             /\ SigAt(st, i) = t[i - Len(v) + 1]
             /\ ValueAt(st, i) = w[i - Len(v) + 1]
    BY Zenon, <1>2, Parts
  <2> QED
    BY Zenon, <2>1, <2>2, <2>3
<1>9. PICK n \in Nat : n = Length(st)
  BY <1>3
<1>10. PICK e : e = Entry(sig, value)
  OBVIOUS
<1>11. ASSUME NEW i \in 1..n
       PROVE  LogOf(p)[i] = LogOf(st)[i]
  <2>1. SigAt(p, i - 1) = SigAt(st, i - 1) /\ ValueAt(p, i - 1) = ValueAt(st, i - 1)
    <3>1. CASE i - 1 < Len(v)
      BY Zenon, <1>8, <3>1
    <3>2. CASE ~(i - 1 < Len(v))
      <4>1. i - 1 - Len(v) + 1 \in 1..Len(t)
        BY <1>3, <1>9, <3>2
      <4>2. /\ SigAt(p, i - 1) = Append(t, sig)[i - 1 - Len(v) + 1]
            /\ ValueAt(p, i - 1) = Append(w, value)[i - 1 - Len(v) + 1]
            /\ SigAt(st, i - 1) = t[i - 1 - Len(v) + 1]
            /\ ValueAt(st, i - 1) = w[i - 1 - Len(v) + 1]
        BY Zenon, <1>8, <3>2
      <4> QED
        BY <1>5, <4>1, <4>2
    <3> QED
      BY <3>1, <3>2
  <2>2. i \in 1..Length(p)
    BY <1>3, <1>7, <1>9
  <2> QED
    BY <1>6, <1>9, <2>1, <2>2, LogShape
<1>12. LogOf(p)[n + 1] = e
  <2>1. /\ n + 1 \in 1..Length(p) /\ n + 1 - 1 = n
        /\ ~(n < Len(v)) /\ n - Len(v) + 1 = Len(t) + 1
    BY <1>3, <1>7, <1>9
  <2>2. /\ SigAt(p, n) = Append(t, sig)[n - Len(v) + 1]
        /\ ValueAt(p, n) = Append(w, value)[n - Len(v) + 1]
    BY Zenon, <1>8, <2>1
  <2>3. SigAt(p, n + 1 - 1) = sig /\ ValueAt(p, n + 1 - 1) = value
    BY <1>5, <2>1, <2>2
  <2> QED
    BY <1>6, <1>10, <2>1, <2>3, LogShape
<1>13. LogOf(p) = Append(LogOf(st), e)
  <2>1. PICK s, r : s = LogOf(st) /\ r = LogOf(p)
    OBVIOUS
  <2>2. s \in Seq(LogEntry) /\ Len(s) = n
    BY <1>9, <2>1, LogShape
  <2>3. r \in Seq(LogEntry) /\ Len(r) = n + 1
    BY <1>3, <1>6, <1>7, <1>9, <2>1, LogShape
  <2>4. e \in LogEntry
    BY <1>10, ColdTierAssumption DEF Entry, Decode, LogEntry
  <2>5. Append(s, e) \in Seq(LogEntry) /\ Len(Append(s, e)) = n + 1
    BY <2>2, <2>4
  <2>6. \A i \in 1..(n + 1) : r[i] = Append(s, e)[i]
    BY <1>11, <1>12, <2>1, <2>2, <2>4
  <2>7. r = Append(s, e)
    BY <2>3, <2>5, <2>6, SeqEqual
  <2> QED
    BY <2>1, <2>7
<1> QED
  BY Zenon, <1>1, <1>3, <1>6, <1>7, <1>10, <1>13

\* The halves of a value come back as they went in.
LEMMA EncodeDecode ==
  ASSUME NEW e \in Entries
  PROVE  /\ Encode(e.event, e.doc) \in Nat
         /\ Entry(e.sig, Encode(e.event, e.doc)) = e
<1>1. /\ e \in [sig : Signature, event : Nat, doc : 0..(DocRange - 1)]
      /\ DocRange \in Nat \ {0}
      /\ e.event \in Nat /\ e.doc \in 0..(DocRange - 1)
  BY ColdTierAssumption
<1>2. e.doc % DocRange = e.doc
  BY <1>1
<1>3. ASSUME NEW n \in Nat, NEW d \in 0..(DocRange - 1)
      PROVE  /\ n * DocRange + d \in Nat
             /\ (n * DocRange + d) \div DocRange = n
             /\ (n * DocRange + d) % DocRange = d
  <2>1. n * DocRange \in Nat
    BY <1>1
  <2> QED
    BY <1>1, <2>1
<1>4. Encode(e.event, e.doc) = e.event * DocRange + e.doc
  BY <1>2 DEF Encode
<1> QED
  BY <1>1, <1>3, <1>4 DEF Entry, Decode

-----------------------------------------------------------------------------
(* Ranking: by distance, and by arrival among equals.                      *)

Before(d, i, j) == d[i] < d[j] \/ (d[i] = d[j] /\ i < j)
Place(d, n)     == [i \in 1..n |-> 1 + Cardinality({j \in 1..n : Before(d, j, i)})]
At(S, p, r)     == CHOOSE i \in S : p[i] = r
Nth(d, n, r)    == At(1..n, Place(d, n), r)

\* The order of a stable sort.
Order(d, n) == {e \in (1..n) \X (1..n) : Before(d, e[1], e[2])}

LEMMA StableOrder ==
  ASSUME NEW n \in Nat, NEW d \in [1..n -> Nat]
  PROVE  /\ StrictOrder(1..n, Order(d, n))
         /\ \A i, j \in 1..n : <<i, j>> \in Order(d, n) <=> Before(d, i, j)
         /\ \A i \in 1..n : Ahead(1..n, Order(d, n), i) = {j \in 1..n : Before(d, j, i)}
         /\ IsFiniteSet(1..n) /\ Cardinality(1..n) = n
<1>1. \A i, j \in 1..n : <<i, j>> \in Order(d, n) <=> Before(d, i, j)
  BY DEF Order
<1>2. \A i \in 1..n : d[i] \in Nat
  OBVIOUS
<1>3. /\ \A i \in 1..n : ~Before(d, i, i)
      /\ \A i, j, k \in 1..n : Before(d, i, j) /\ Before(d, j, k) => Before(d, i, k)
      /\ \A i, j \in 1..n : i # j => Before(d, i, j) \/ Before(d, j, i)
  BY <1>2 DEF Before
<1>4. StrictOrder(1..n, Order(d, n))
  BY Zenon, <1>1, <1>3 DEF StrictOrder
<1>5. \A i \in 1..n : Ahead(1..n, Order(d, n), i) = {j \in 1..n : Before(d, j, i)}
  BY Zenon, <1>1 DEF Ahead
<1>6. IsFiniteSet(1..n) /\ Cardinality(1..n) = n
  BY FS_Interval
<1> QED
  BY Zenon, <1>1, <1>4, <1>5, <1>6

\* Every place from 1 to n is taken by exactly one entry, in the sort's order.
LEMMA EveryPlaceTaken ==
  ASSUME NEW n \in Nat, NEW d \in [1..n -> Nat]
  PROVE  /\ \A r \in 1..n : /\ Nth(d, n, r) \in 1..n
                            /\ Cardinality({j \in 1..n : Before(d, j, Nth(d, n, r))}) = r - 1
         /\ \A r, s \in 1..n : r < s => Before(d, Nth(d, n, r), Nth(d, n, s))
<1> DEFINE ahead(i) == {j \in 1..n : Before(d, j, i)}
<1>1. \A i \in 1..n : Place(d, n)[i] = 1 + Cardinality(ahead(i)) /\ Cardinality(ahead(i)) \in Nat
  <2>1. ASSUME NEW i \in 1..n
        PROVE  Cardinality(ahead(i)) \in Nat
    BY StableOrder, FS_Subset, FS_CardinalityType
  <2> QED
    BY <2>1 DEF Place
<1> HIDE DEF ahead
<1>2. PICK S, R : S = 1..n /\ R = Order(d, n)
  OBVIOUS
<1>3. /\ IsFiniteSet(S) /\ StrictOrder(S, R) /\ Cardinality(S) = n
      /\ \A i, j \in 1..n : <<i, j>> \in R <=> Before(d, i, j)
      /\ \A i \in 1..n : Ahead(S, R, i) = ahead(i)
  BY Zenon, <1>2, StableOrder DEF ahead
<1>4. /\ \A i, j \in S : <<i, j>> \in R => Cardinality(Ahead(S, R, i)) < Cardinality(Ahead(S, R, j))
      /\ \A r \in 1..Cardinality(S) : \E i \in S : Cardinality(Ahead(S, R, i)) = r - 1
  BY Zenon, <1>3, EveryRankTaken
<1>5. /\ \A i, j \in 1..n : Before(d, i, j) => Cardinality(ahead(i)) < Cardinality(ahead(j))
      /\ \A r \in 1..n : \E i \in 1..n : Cardinality(ahead(i)) = r - 1
  BY Zenon, <1>2, <1>3, <1>4
<1>6. ASSUME NEW r \in 1..n
      PROVE  Nth(d, n, r) \in 1..n /\ Cardinality(ahead(Nth(d, n, r))) = r - 1
  <2>1. PICK i \in 1..n : Cardinality(ahead(i)) = r - 1
    BY <1>5
  <2>2. Place(d, n)[i] = r
    BY <1>1, <2>1
  <2>3. Nth(d, n, r) \in 1..n /\ Place(d, n)[Nth(d, n, r)] = r
    BY Zenon, <2>2 DEF Nth, At
  <2>4. PICK m, a : m = Nth(d, n, r) /\ a = Cardinality(ahead(m))
    OBVIOUS
  <2>5. a \in Nat /\ 1 + a = r
    BY Zenon, <1>1, <2>3, <2>4
  <2>6. a = r - 1
    BY <2>5
  <2> QED
    BY Zenon, <2>3, <2>4, <2>6
<1>7. ASSUME NEW r \in 1..n, NEW s \in 1..n, r < s
      PROVE  Before(d, Nth(d, n, r), Nth(d, n, s))
  <2>1. PICK i \in 1..n, j \in 1..n : i = Nth(d, n, r) /\ j = Nth(d, n, s)
    BY <1>6
  <2>2. Cardinality(ahead(i)) = r - 1 /\ Cardinality(ahead(j)) = s - 1
    BY Zenon, <1>6, <2>1
  <2>3. ~(Cardinality(ahead(j)) < Cardinality(ahead(i))) /\ Cardinality(ahead(i)) # Cardinality(ahead(j))
    BY <1>7, <2>2
  <2>4. i # j /\ ~Before(d, j, i)
    BY Zenon, <1>5, <2>3
  <2>5. Before(d, i, j)
    BY <2>4 DEF Before
  <2> QED
    BY Zenon, <2>1, <2>5
<1> QED
  BY Zenon, <1>6, <1>7 DEF ahead

\* A sorted answer is the entries in the order of their places.
LEMMA SortedByPlace ==
  ASSUME NEW n \in Nat, NEW d \in [1..n -> Nat], NEW hits, DOMAIN hits = 1..n,
         \A i \in 1..n : hits[i].dist = d[i]
  PROVE  SortedByDistance(hits) = [r \in 1..n |-> hits[Nth(d, n, r)]]
<1> DEFINE before(i, j) == hits[i].dist < hits[j].dist \/ (hits[i].dist = hits[j].dist /\ i < j)
           place == [i \in DOMAIN hits |-> 1 + Cardinality({j \in DOMAIN hits : before(j, i)})]
<1>1. ASSUME NEW i \in 1..n
      PROVE  {j \in 1..n : before(j, i)} = {j \in 1..n : Before(d, j, i)}
  BY DEF Before
<1>2. place = Place(d, n)
  BY Zenon, <1>1 DEF Place
<1>3. SortedByDistance(hits) = [r \in DOMAIN hits |-> hits[At(DOMAIN hits, place, r)]]
  BY Zenon DEF SortedByDistance, At
<1> HIDE DEF place
<1>4. \A r : At(DOMAIN hits, place, r) = Nth(d, n, r)
  BY Zenon, <1>2 DEF Nth
<1> QED
  BY Zenon, <1>3, <1>4

-----------------------------------------------------------------------------
(* A part of a list, in the order it was met. *)

Less == {e \in Nat \X Nat : e[1] < e[2]}

LEMMA LessOrders ==
  ASSUME NEW I \in SUBSET Nat
  PROVE  StrictOrder(I, Less) /\ \A i, j \in Nat : <<i, j>> \in Less <=> i < j
BY DEF StrictOrder, Less

\* The members of I in hits, in order.
Picked(kept, hits, I) ==
  \E p : InOrder(p, I, Less) /\ kept = [r \in 1..Cardinality(I) |-> hits[p[r]]]

LEMMA PickedMore ==
  ASSUME NEW n \in Nat, NEW I \in SUBSET (1..n), NEW H, NEW hits \in [1..(n + 1) -> H],
         NEW kept \in Seq(H), Picked(kept, hits, I)
  PROVE  Picked(Append(kept, hits[n + 1]), hits, I \cup {n + 1})
<1>1. PICK p : InOrder(p, I, Less) /\ kept = [r \in 1..Cardinality(I) |-> hits[p[r]]]
  BY DEF Picked
<1>2. PICK c \in Nat : c = Cardinality(I) /\ c + 1 = Cardinality(I \cup {n + 1}) /\ IsFiniteSet(I)
  <2>1. IsFiniteSet(1..n) /\ n + 1 \notin I
    BY FS_Interval
  <2>2. IsFiniteSet(I)
    BY <2>1, FS_Subset
  <2>3. Cardinality(I) \in Nat /\ Cardinality(I \cup {n + 1}) = Cardinality(I) + 1
    BY <2>1, <2>2, FS_AddElement, FS_CardinalityType
  <2>4. PICK c : c = Cardinality(I)
    OBVIOUS
  <2> QED
    BY <2>2, <2>3, <2>4
<1>3. p \in [1..c -> I] /\ \A i, j \in 1..c : i < j => p[i] < p[j]
  <2>1. p \in [1..c -> I] /\ \A i, j \in 1..c : i < j => <<p[i], p[j]>> \in Less
    BY Zenon, <1>1, <1>2 DEF InOrder
  <2> QED
    BY <2>1 DEF Less
<1>4. Len(kept) = c /\ \A r \in 1..c : kept[r] = hits[p[r]]
  BY <1>1, <1>2
<1> DEFINE o == [r \in 1..(c + 1) |-> IF r <= c THEN p[r] ELSE n + 1]
<1>5. o \in [1..(c + 1) -> I \cup {n + 1}]
  <2>1. ASSUME NEW r \in 1..(c + 1)
        PROVE  (IF r <= c THEN p[r] ELSE n + 1) \in I \cup {n + 1}
    <3>1. CASE r <= c
      <4>1. r \in 1..c
        BY <3>1
      <4> QED
        BY <1>3, <3>1, <4>1
    <3>2. CASE ~(r <= c)
      BY <3>2
    <3> QED
      BY <3>1, <3>2
  <2> QED
    BY <2>1
<1>6. \A i, j \in 1..(c + 1) : i < j => <<o[i], o[j]>> \in Less
  <2> TAKE i \in 1..(c + 1), j \in 1..(c + 1)
  <2> HAVE i < j
  <2>1. i \in 1..c /\ o[i] = p[i]
    OBVIOUS
  <2>2. PICK a \in 1..n : a = p[i]
    BY <1>3, <2>1
  <2>3. CASE j <= c
    <3>1. j \in 1..c /\ o[j] = p[j]
      BY <2>3
    <3>2. PICK b \in 1..n : b = p[j] /\ a < b
      BY <1>3, <2>1, <2>2, <3>1
    <3>3. <<a, b>> \in Less
      BY <3>2 DEF Less
    <3> QED
      BY Zenon, <2>1, <2>2, <3>1, <3>2, <3>3
  <2>4. CASE ~(j <= c)
    <3>1. o[j] = n + 1
      BY <2>4
    <3>2. <<a, n + 1>> \in Less
      BY DEF Less
    <3> QED
      BY Zenon, <2>1, <2>2, <3>1, <3>2
  <2> QED
    BY <2>3, <2>4
<1>7. Append(kept, hits[n + 1]) = [r \in 1..(c + 1) |-> hits[o[r]]]
  <2>1. \A r \in 1..(c + 1) : Append(kept, hits[n + 1])[r] = hits[o[r]]
    <3> TAKE r \in 1..(c + 1)
    <3>1. CASE r <= c
      <4>1. r \in 1..c /\ o[r] = p[r]
        BY <3>1
      <4> QED
        BY <1>4, <4>1
    <3>2. CASE ~(r <= c)
      <4>1. r = c + 1 /\ o[r] = n + 1
        BY <3>2
      <4> QED
        BY <1>4, <4>1
    <3> QED
      BY <3>1, <3>2
  <2>2. Append(kept, hits[n + 1]) \in [1..(c + 1) -> H]
    <3>1. PICK x \in H : x = hits[n + 1]
      OBVIOUS
    <3>2. PICK s : s = Append(kept, x)
      OBVIOUS
    <3>3. s \in Seq(H) /\ Len(s) = c + 1
      BY <1>4, <3>2
    <3>4. s \in [1..(c + 1) -> H]
      BY <3>3
    <3> QED
      BY Zenon, <3>1, <3>2, <3>4
  <2> HIDE DEF o
  <2> QED
    BY <2>1, <2>2
<1> HIDE DEF o
<1>8. InOrder(o, I \cup {n + 1}, Less)
  BY Zenon, <1>2, <1>5, <1>6 DEF InOrder
<1> QED
  BY Zenon, <1>2, <1>7, <1>8 DEF Picked

\* within_radius goes through the hits once, and the test on each is its own.
MetBy(met, hits, n, radius) ==
  met = [i \in 0..n |-> IF i = 0 THEN <<>>
                        ELSE IF hits[i].dist <= radius THEN Append(met[i - 1], hits[i]) ELSE met[i - 1]]

LEMMA MetExists ==
  ASSUME NEW n \in Nat, NEW H, NEW hits \in [1..n -> H], NEW radius
  PROVE  \E met \in [0..n -> Seq(H)] : MetBy(met, hits, n, radius)
<1> DEFINE D == 0..n
           V == Seq(H)
           body(g, i) == IF i = 0 THEN <<>>
                         ELSE IF hits[i].dist <= radius THEN Append(g[i - 1], hits[i]) ELSE g[i - 1]
           step == [g \in [D -> V] |-> [i \in D |-> body(g, i)]]
           rank == [i \in D |-> i]
<1>1. \A i \in D : i # 0 => i - 1 \in D /\ i \in 1..n /\ i - 1 < i
  OBVIOUS
<1>2. ASSUME NEW g \in [D -> V], NEW i \in D
      PROVE  body(g, i) \in V
  <2>1. <<>> \in V
    OBVIOUS
  <2>2. ASSUME i # 0
        PROVE  g[i - 1] \in V /\ Append(g[i - 1], hits[i]) \in V
    <3>1. PICK s \in V, x \in H : s = g[i - 1] /\ x = hits[i]
      BY <1>1, <2>2
    <3>2. Append(s, x) \in V
      OBVIOUS
    <3> QED
      BY Zenon, <3>1, <3>2
  <2> HIDE DEF V, D
  <2> QED
    BY Zenon, <2>1, <2>2
<1>3. ASSUME NEW g \in [D -> V], NEW h \in [D -> V], NEW i \in D,
             \A m \in D : rank[m] < rank[i] => g[m] = h[m]
      PROVE  body(g, i) = body(h, i)
  <2>1. CASE i = 0
    BY <2>1
  <2>2. CASE i # 0
    <3>1. g[i - 1] = h[i - 1]
      BY <1>1, <1>3, <2>2
    <3> QED
      BY Zenon, <3>1
  <2> QED
    BY <2>1, <2>2
<1>4. rank \in [D -> Nat]
  OBVIOUS
<1>5. Bounded(D, rank) /\ V # {}
  <2>1. n + 1 \in Nat /\ \A i \in D : rank[i] < n + 1
    OBVIOUS
  <2>2. <<>> \in V
    OBVIOUS
  <2> QED
    BY <2>1, <2>2 DEF Bounded
<1> HIDE DEF D, V, body, rank
<1>6. step \in [[D -> V] -> [D -> V]]
  BY Zenon, <1>2
<1>7. \A g, h \in [D -> V], i \in D :
        (\A m \in D : rank[m] < rank[i] => g[m] = h[m]) => step[g][i] = step[h][i]
  BY Zenon, <1>3
<1>8. PICK f \in [D -> V] : f = step[f]
  <2> HIDE DEF step
  <2>1. AsksBelow(D, V, rank, step)
    BY Zenon, <1>6, <1>7 DEF AsksBelow
  <2>2. FixedBy(D, V, step)
    BY Zenon, <1>4, <1>5, <2>1, FixedPoint
  <2> QED
    BY Zenon, <2>2 DEF FixedBy
<1>9. f = [i \in D |-> body(f, i)]
  BY Zenon, <1>8
<1>10. MetBy(f, hits, n, radius)
  BY Zenon, <1>9 DEF body, D, MetBy
<1> QED
  BY Zenon, <1>10 DEF D, V

\* What lies within the radius, each once and in order.
LEMMA WithinPicks ==
  ASSUME NEW n \in Nat, NEW H, NEW hits \in [1..n -> H], NEW radius
  PROVE  /\ Within(hits, radius) \in Seq(H)
         /\ Picked(Within(hits, radius), hits, {i \in 1..n : hits[i].dist <= radius})
<1> DEFINE near(i) == {j \in 1..i : hits[j].dist <= radius}
<1>1. Len(hits) = n
  OBVIOUS
<1>2. PICK met : met = CHOOSE f : MetBy(f, hits, n, radius)
  OBVIOUS
<1>3. MetBy(met, hits, n, radius)
  BY Zenon, <1>2, MetExists
<1>4. Within(hits, radius) = met[n]
  BY Zenon, <1>1, <1>2 DEF Within, MetBy
<1>5. /\ met[0] = <<>>
      /\ \A i \in 1..n :
           met[i] = IF hits[i].dist <= radius THEN Append(met[i - 1], hits[i]) ELSE met[i - 1]
  <2>1. 0 \in 0..n /\ \A i \in 1..n : i \in 0..n /\ i # 0
    OBVIOUS
  <2> QED
    BY Zenon, <1>3, <2>1 DEF MetBy
<1> DEFINE P == {i \in 0..n : met[i] \in Seq(H) /\ Picked(met[i], hits, near(i))}
<1>6. 0 \in P
  <2>1. near(0) = {} /\ Cardinality({}) = 0
    BY FS_EmptySet
  <2>2. InOrder(<<>>, {}, Less) /\ <<>> = [r \in 1..Cardinality({}) |-> hits[<<>>[r]]]
    BY <2>1 DEF InOrder
  <2>3. Picked(<<>>, hits, {})
    BY Zenon, <2>2 DEF Picked
  <2>4. <<>> \in Seq(H) /\ 0 \in 0..n
    OBVIOUS
  <2> QED
    BY Zenon, <1>5, <2>1, <2>3, <2>4
<1>7. ASSUME NEW i \in 1..n, i - 1 \in P
      PROVE  i \in P
  <2>0. i \in 0..n
    OBVIOUS
  <2>1. met[i - 1] \in Seq(H) /\ Picked(met[i - 1], hits, near(i - 1))
    BY <1>7
  <2>2. CASE ~(hits[i].dist <= radius)
    <3>1. near(i) = near(i - 1)
      BY <2>2
    <3> QED
      BY Zenon, <1>5, <2>0, <2>1, <2>2, <3>1
  <2>3. CASE hits[i].dist <= radius
    <3>1. PICK m \in Nat : m = i - 1 /\ i = m + 1
      OBVIOUS
    <3>2. near(i) = near(m) \cup {m + 1} /\ near(m) \in SUBSET (1..m)
      BY <2>3, <3>1
    <3>3. PICK some : some = [j \in 1..(m + 1) |-> hits[j]]
      OBVIOUS
    <3>4. some \in [1..(m + 1) -> H] /\ \A j \in 1..(m + 1) : some[j] = hits[j]
      BY <3>1, <3>3
    <3>5. Picked(met[m], some, near(m))
      <4>1. PICK p : InOrder(p, near(m), Less) /\ met[m] = [r \in 1..Cardinality(near(m)) |-> hits[p[r]]]
        BY Zenon, <2>1, <3>1 DEF Picked
      <4>2. \A r \in 1..Cardinality(near(m)) : p[r] \in 1..(m + 1)
        BY <4>1 DEF InOrder
      <4>3. met[m] = [r \in 1..Cardinality(near(m)) |-> some[p[r]]]
        BY Zenon, <3>4, <4>1, <4>2
      <4> QED
        BY Zenon, <4>1, <4>3 DEF Picked
    <3>6. Picked(Append(met[m], some[m + 1]), some, near(m) \cup {m + 1})
      BY Zenon, <2>1, <3>1, <3>2, <3>4, <3>5, PickedMore
    <3>7. met[i] = Append(met[m], some[m + 1]) /\ met[i] \in Seq(H)
      <4>1. PICK s \in Seq(H), x \in H : s = met[m] /\ x = hits[i]
        BY <2>1, <3>1
      <4>2. Append(s, x) \in Seq(H)
        OBVIOUS
      <4>3. some[m + 1] = x
        BY <3>1, <3>4, <4>1
      <4>4. met[i] = Append(s, x)
        BY Zenon, <1>5, <2>3, <3>1, <4>1
      <4> QED
        BY Zenon, <4>1, <4>2, <4>3, <4>4
    <3>8. Picked(met[i], hits, near(i))
      <4>1. PICK p : /\ InOrder(p, near(i), Less)
                     /\ met[i] = [r \in 1..Cardinality(near(i)) |-> some[p[r]]]
        BY Zenon, <3>2, <3>6, <3>7 DEF Picked
      <4>2. \A r \in 1..Cardinality(near(i)) : p[r] \in 1..(m + 1)
        BY <3>1, <4>1 DEF InOrder
      <4>3. met[i] = [r \in 1..Cardinality(near(i)) |-> hits[p[r]]]
        BY Zenon, <3>4, <4>1, <4>2
      <4> QED
        BY Zenon, <4>1, <4>3 DEF Picked
    <3> QED
      BY Zenon, <2>0, <3>7, <3>8
  <2> QED
    BY <2>2, <2>3
<1> HIDE DEF P
<1>8. n \in P
  <2> DEFINE rank == [i \in 0..n |-> i]
  <2>1. rank \in [0..n -> Nat]
    OBVIOUS
  <2>2. ASSUME NEW i \in 0..n, \A j \in 0..n : rank[j] < rank[i] => j \in P
        PROVE  i \in P
    <3>1. CASE i = 0
      BY <1>6, <3>1
    <3>2. CASE i # 0
      <4>1. i \in 1..n /\ i - 1 \in P
        BY <2>2, <3>2
      <4> QED
        BY <1>7, <4>1
    <3> QED
      BY <3>1, <3>2
  <2> HIDE DEF rank
  <2>3. Hereditary(0..n, rank, P)
    BY Zenon, <2>2 DEF Hereditary
  <2>4. 0..n \subseteq P
    BY Zenon, <2>1, <2>3, RankInduction
  <2>5. n \in 0..n
    OBVIOUS
  <2> QED
    BY <2>4, <2>5
<1> QED
  BY Zenon, <1>4, <1>8 DEF P, near

\* A stable sort of what lies within the radius is the beginning of a stable
\* sort of all: the members of I come first, I being the nearest.
Nearer(d, n, I) == \A i \in I, j \in (1..n) \ I : d[i] < d[j]

Along(e, d, p, m) == e = [r \in 1..m |-> d[p[r]]]

Leads(d, n, I, p, e) ==
  /\ Cardinality(I) \in 0..n
  /\ \A r \in 1..n : Nth(d, n, r) \in I <=> r <= Cardinality(I)
  /\ \A r \in 1..Cardinality(I) : p[Nth(e, Cardinality(I), r)] = Nth(d, n, r)

LEMMA NearestFirst ==
  ASSUME NEW n \in Nat, NEW d \in [1..n -> Nat], NEW I \in SUBSET (1..n), Nearer(d, n, I),
         NEW p, InOrder(p, I, Less), NEW e, Along(e, d, p, Cardinality(I))
  PROVE  Leads(d, n, I, p, e)
<1>1. IsFiniteSet(I) /\ Cardinality(I) \in 0..n
  <2>1. IsFiniteSet(1..n) /\ Cardinality(1..n) = n
    BY FS_Interval
  <2>2. IsFiniteSet(I) /\ Cardinality(I) <= Cardinality(1..n)
    BY Zenon, <2>1, FS_Subset
  <2>3. PICK c : c = Cardinality(I)
    OBVIOUS
  <2>4. c \in Nat
    BY Zenon, <2>2, <2>3, FS_CardinalityType
  <2>5. c <= n
    BY Zenon, <2>1, <2>2, <2>3
  <2>6. c \in 0..n
    BY <2>4, <2>5
  <2> QED
    BY Zenon, <2>2, <2>3, <2>6
<1>2. PICK m \in 0..n : m = Cardinality(I)
  BY <1>1
<1>3. PICK R : R = Order(d, n)
  OBVIOUS
<1>4. /\ StrictOrder(1..n, R)
      /\ \A i, j \in 1..n : <<i, j>> \in R <=> Before(d, i, j)
  BY Zenon, <1>3, StableOrder
<1>5. StrictOrder(I, R)
  BY <1>4 DEF StrictOrder
<1>6. p \in [1..m -> I] /\ \A i, j \in 1..m : i < j => p[i] < p[j]
  <2>1. p \in [1..m -> I] /\ \A i, j \in 1..m : i < j => <<p[i], p[j]>> \in Less
    BY Zenon, <1>2 DEF InOrder
  <2> QED
    BY <2>1 DEF Less
<1>7. e \in [1..m -> Nat] /\ \A r \in 1..m : e[r] = d[p[r]]
  <2>1. e = [r \in 1..m |-> d[p[r]]]
    BY Zenon, <1>2 DEF Along
  <2> QED
    BY <1>6, <2>1
<1> DEFINE ours == [r \in 1..m |-> p[Nth(e, m, r)]]
           all  == [r \in 1..m |-> Nth(d, n, r)]
<1>8. ASSUME NEW r \in 1..n
      PROVE  Nth(d, n, r) \in 1..n /\ (r <= m => Nth(d, n, r) \in I)
  <2>1. PICK x \in 1..n : x = Nth(d, n, r)
    BY EveryPlaceTaken
  <2>2. Cardinality({j \in 1..n : Before(d, j, x)}) = r - 1
    BY Zenon, <2>1, EveryPlaceTaken
  <2>3. ASSUME x \notin I
        PROVE  m <= r - 1
    <3>1. I \subseteq {j \in 1..n : Before(d, j, x)}
      BY <2>3 DEF Before, Nearer
    <3>2. IsFiniteSet({j \in 1..n : Before(d, j, x)})
      BY FS_Interval, FS_Subset
    <3> QED
      BY <1>2, <2>2, <3>1, <3>2, FS_Subset
  <2>4. r <= m => ~(m <= r - 1)
    OBVIOUS
  <2> QED
    BY Zenon, <2>1, <2>3, <2>4
<1>9. InOrder(all, I, R)
  <2>1. \A r \in 1..m : r \in 1..n /\ r <= m
    OBVIOUS
  <2>2. all \in [1..m -> I]
    BY Zenon, <1>8, <2>1
  <2>3. ASSUME NEW i \in 1..m, NEW j \in 1..m, i < j
        PROVE  <<all[i], all[j]>> \in R
    <3>1. Before(d, Nth(d, n, i), Nth(d, n, j))
      BY Zenon, <2>1, <2>3, EveryPlaceTaken
    <3>2. Nth(d, n, i) \in 1..n /\ Nth(d, n, j) \in 1..n
      BY Zenon, <1>8, <2>1
    <3> QED
      BY Zenon, <1>4, <3>1, <3>2
  <2> QED
    BY Zenon, <1>2, <2>2, <2>3 DEF InOrder
<1>10. InOrder(ours, I, R)
  <2>0. m \in Nat
    OBVIOUS
  <2>1. \A r \in 1..m : Nth(e, m, r) \in 1..m
    BY Zenon, <1>7, <2>0, EveryPlaceTaken
  <2>2. ours \in [1..m -> I]
    BY <1>6, <2>1
  <2>3. ASSUME NEW i \in 1..m, NEW j \in 1..m, i < j
        PROVE  <<ours[i], ours[j]>> \in R
    <3>1. PICK a \in 1..m, b \in 1..m : a = Nth(e, m, i) /\ b = Nth(e, m, j)
      BY <2>1
    <3>2. Before(e, a, b)
      <4>1. Before(e, Nth(e, m, i), Nth(e, m, j))
        BY Zenon, <1>7, <2>0, <2>3, EveryPlaceTaken
      <4> QED
        BY Zenon, <3>1, <4>1
    <3>3. p[a] \in 1..n /\ p[b] \in 1..n /\ (a < b => p[a] < p[b])
      BY <1>6
    <3>4. e[a] = d[p[a]] /\ e[b] = d[p[b]]
      BY <1>7
    <3>5. Before(d, p[a], p[b])
      BY Zenon, <3>2, <3>3, <3>4 DEF Before
    <3> QED
      BY Zenon, <1>4, <3>1, <3>3, <3>5
  <2> QED
    BY Zenon, <1>2, <2>2, <2>3 DEF InOrder
<1> HIDE DEF ours, all
<1>11. ours = all
  BY Zenon, <1>1, <1>5, <1>9, <1>10, OneOrder
<1>12. \A r \in 1..m : p[Nth(e, m, r)] = Nth(d, n, r)
  BY Zenon, <1>11 DEF ours, all
<1>13. ASSUME NEW r \in 1..n, Nth(d, n, r) \in I
       PROVE  r <= m
  <2>0. \A x \in I : \E s \in 1..Cardinality(I) : all[s] = x
    <3>1. PICK o : o = all
      OBVIOUS
    <3>2. InOrder(o, I, R)
      BY Zenon, <1>9, <3>1
    <3>3. /\ \A i, j \in 1..Cardinality(I) : i # j => o[i] # o[j]
          /\ \A x \in I : \E s \in 1..Cardinality(I) : o[s] = x
      BY <1>1, <1>5, <3>2, InOrderIsOnto
    <3> QED
      BY Zenon, <3>1, <3>3
  <2>1. PICK s \in 1..m : all[s] = Nth(d, n, r)
    BY Zenon, <1>2, <1>13, <2>0
  <2>2. s \in 1..n /\ Nth(d, n, s) = Nth(d, n, r)
    BY <2>1 DEF all
  <2>3. /\ Cardinality({j \in 1..n : Before(d, j, Nth(d, n, r))}) = r - 1
        /\ Cardinality({j \in 1..n : Before(d, j, Nth(d, n, s))}) = s - 1
    BY Zenon, <2>2, EveryPlaceTaken
  <2>4. r - 1 = s - 1
    BY Zenon, <2>2, <2>3
  <2> QED
    BY <2>4
<1> QED
  BY Zenon, <1>1, <1>2, <1>8, <1>12, <1>13 DEF Leads

\* A function from 1 to n is a list.
LEMMA FunctionIsSeq ==
  ASSUME NEW n \in Nat, NEW S, NEW f \in [1..n -> S]
  PROVE  f \in Seq(S) /\ Len(f) = n
OBVIOUS

\* The hits within a radius, sorted, are the beginning of the ranking of all.
LEMMA RadiusPrefix ==
  ASSUME NEW s \in Seq(Signature), NEW v \in Seq(Nat), Len(v) = Len(s),
         NEW q \in Signature, NEW radius \in Nat,
         NEW all, all = NearestOf(q, s, v, Len(s))
  PROVE  SortedByDistance(Within(Distances(q, s, v), radius))
           = Truncate(all, Cardinality({r \in DOMAIN all : all[r].dist <= radius}))
<1>1. PICK n \in Nat : n = Len(s) /\ DOMAIN s = 1..n
  OBVIOUS
<1>2. PICK d : d = [i \in 1..n |-> Hamming(q, s[i])]
  OBVIOUS
<1>3. d \in [1..n -> Nat]
  <2>1. \A i \in 1..n : s[i] \in Signature
    BY <1>1
  <2>2. \A i \in 1..n : Hamming(q, s[i]) \in Nat
    BY Zenon, <2>1, LayersFinite
  <2> QED
    BY <1>2, <2>2
<1>4. PICK H, hits : H = [dist : Nat, value : Nat] /\ hits = Distances(q, s, v)
  OBVIOUS
<1>5. hits \in [1..n -> H] /\ DOMAIN hits = 1..n /\ \A i \in 1..n : hits[i].dist = d[i]
  <2>1. hits = [i \in 1..n |-> [dist |-> d[i], value |-> v[i]]]
    BY Zenon, <1>1, <1>2, <1>4 DEF Distances
  <2>2. \A i \in 1..n : d[i] \in Nat /\ v[i] \in Nat
    BY <1>1, <1>3
  <2> QED
    BY <1>4, <2>1, <2>2
<1>6. PICK sorted : sorted = SortedByDistance(hits)
  OBVIOUS
<1>7. sorted = [r \in 1..n |-> hits[Nth(d, n, r)]]
  BY Zenon, <1>3, <1>5, <1>6, SortedByPlace
<1>8. \A r \in 1..n : Nth(d, n, r) \in 1..n
  BY Zenon, <1>3, EveryPlaceTaken
<1>9. sorted \in Seq(H) /\ Len(sorted) = n
  <2>1. sorted \in [1..n -> H]
    BY <1>5, <1>7, <1>8
  <2> QED
    BY <2>1, FunctionIsSeq
<1>10. all = sorted
  <2>1. Lower(n, n) = n
    BY DEF Lower
  <2>2. all = SubSeq(sorted, 1, n)
    BY Zenon, <1>1, <1>4, <1>6, <1>9, <2>1 DEF NearestOf, Truncate
  <2>3. SubSeq(sorted, 1, n) = sorted
    BY <1>9
  <2> QED
    BY Zenon, <2>2, <2>3
<1>11. PICK I : I = {i \in 1..n : hits[i].dist <= radius}
  OBVIOUS
<1>12. /\ I \in SUBSET (1..n) /\ I \in SUBSET Nat
       /\ Nearer(d, n, I)
  BY <1>3, <1>5, <1>11 DEF Nearer
<1>13. PICK kept : kept = Within(hits, radius)
  OBVIOUS
<1>14. Picked(kept, hits, I)
  BY Zenon, <1>5, <1>11, <1>13, WithinPicks
<1>15. PICK m : m = Cardinality(I)
  OBVIOUS
<1>16. PICK p : InOrder(p, I, Less) /\ kept = [r \in 1..m |-> hits[p[r]]]
  BY Zenon, <1>14, <1>15 DEF Picked
<1>17. PICK e : e = [r \in 1..m |-> d[p[r]]]
  OBVIOUS
<1>18. /\ m \in 0..n
       /\ \A r \in 1..n : Nth(d, n, r) \in I <=> r <= m
       /\ \A r \in 1..m : p[Nth(e, m, r)] = Nth(d, n, r)
  <2>1. Along(e, d, p, Cardinality(I))
    BY Zenon, <1>15, <1>17 DEF Along
  <2>2. Leads(d, n, I, p, e)
    BY Zenon, <1>3, <1>12, <1>16, <2>1, NearestFirst
  <2> QED
    BY Zenon, <1>15, <2>2 DEF Leads
<1>19. p \in [1..m -> I]
  BY Zenon, <1>15, <1>16 DEF InOrder
<1>20. e \in [1..m -> Nat] /\ DOMAIN kept = 1..m /\ \A r \in 1..m : kept[r].dist = e[r]
  <2>1. \A r \in 1..m : p[r] \in 1..n
    BY <1>12, <1>19
  <2>2. \A r \in 1..m : d[p[r]] \in Nat
    BY <1>3, <2>1
  <2>3. \A r \in 1..m : hits[p[r]].dist = d[p[r]]
    BY Zenon, <1>5, <2>1
  <2> QED
    BY Zenon, <1>16, <1>17, <2>2, <2>3
<1>21. SortedByDistance(kept) = [r \in 1..m |-> hits[Nth(d, n, r)]]
  <2>1. m \in Nat
    BY <1>18
  <2>2. SortedByDistance(kept) = [r \in 1..m |-> kept[Nth(e, m, r)]]
    BY Zenon, <1>20, <2>1, SortedByPlace
  <2>3. \A r \in 1..m : Nth(e, m, r) \in 1..m
    BY Zenon, <1>20, <2>1, EveryPlaceTaken
  <2>4. \A r \in 1..m : kept[Nth(e, m, r)] = hits[Nth(d, n, r)]
    BY Zenon, <1>16, <1>18, <2>3
  <2> QED
    BY Zenon, <2>2, <2>4
<1>22. Cardinality({r \in DOMAIN all : all[r].dist <= radius}) = m
  <2>1. \A r \in 1..n : all[r].dist <= radius <=> r <= m
    <3> TAKE r \in 1..n
    <3>1. all[r] = hits[Nth(d, n, r)] /\ Nth(d, n, r) \in 1..n
      BY <1>7, <1>8, <1>10
    <3> QED
      BY Zenon, <1>11, <1>18, <3>1
  <2>2. {r \in 1..n : r <= m} = 1..m
    BY <1>18
  <2>3. DOMAIN all = 1..n
    BY <1>7, <1>10
  <2>4. {r \in DOMAIN all : all[r].dist <= radius} = 1..m
    BY Zenon, <2>1, <2>2, <2>3
  <2>5. Cardinality(1..m) = m
    BY <1>18, FS_Interval
  <2> QED
    BY Zenon, <2>4, <2>5
<1>23. Truncate(all, m) = [r \in 1..m |-> hits[Nth(d, n, r)]]
  <2>1. Lower(m, n) = m
    BY <1>18 DEF Lower
  <2>2. Truncate(all, m) = SubSeq(sorted, 1, m)
    BY Zenon, <1>9, <1>10, <2>1 DEF Truncate
  <2>3. SubSeq(sorted, 1, m) = [r \in 1..m |-> sorted[r]]
    BY <1>9, <1>18
  <2>4. \A r \in 1..m : sorted[r] = hits[Nth(d, n, r)]
    BY <1>7, <1>18
  <2> QED
    BY Zenon, <2>2, <2>3, <2>4
<1> QED
  BY Zenon, <1>4, <1>13, <1>21, <1>22, <1>23

-----------------------------------------------------------------------------
(* Searching. *)

\* The log counts as the store does.
LEMMA SameCardinality ==
  ASSUME NEW S
  PROVE  Log!Cardinality(S) = Cardinality(S)
BY Zenon DEF Log!Cardinality, Cardinality, Log!IsFiniteSet, IsFiniteSet

LEMMA EntryFields ==
  ASSUME NEW sig, NEW value
  PROVE  /\ Entry(sig, value).sig = sig
         /\ Entry(sig, value).event = Decode(value).event
         /\ Entry(sig, value).doc = Decode(value).doc
BY DEF Entry

\* The ranked entries of the log are those of the store.
LEMMA LogRanks ==
  ASSUME StoreOK(dwm), NEW q \in Signature, NEW n \in Nat, n = Length(dwm),
         NEW d \in [1..n -> Nat],
         \A i \in 1..n : d[i] = Hamming(q, AllSigs(dwm)[i])
  PROVE  /\ \A i \in 1..n :
              /\ Log!Distance(q, LogOf(dwm)[i]) = d[i]
              /\ LogOf(dwm)[i] = Entry(AllSigs(dwm)[i], AllValues(dwm)[i])
         /\ \A k \in Nat :
              Log!Answer(q, k) =
                [r \in 1..Lower(k, n) |->
                   <<Log!Distance(q, LogOf(dwm)[Nth(d, n, r)]),
                     LogOf(dwm)[Nth(d, n, r)].event,
                     LogOf(dwm)[Nth(d, n, r)].doc>>]
<1> DEFINE l == LogOf(dwm)
<1>1. DOMAIN l = 1..n /\ Len(l) = n
  BY LogShape
<1>2. ASSUME NEW i \in 1..n
      PROVE  l[i] = Entry(AllSigs(dwm)[i], AllValues(dwm)[i])
  BY LogShape, ReadsInOrder
<1>3. ASSUME NEW i \in 1..n
      PROVE  Log!Distance(q, l[i]) = d[i]
  <2>1. l[i].sig = AllSigs(dwm)[i]
    <3> HIDE DEF l
    <3> QED
      BY <1>2, EntryFields
  <2>2. Log!Distance(q, l[i]) = Hamming(q, l[i].sig)
    BY Zenon, SameCardinality DEF Log!Distance, Hamming
  <2> QED
    BY Zenon, <2>1, <2>2
<1> DEFINE place == [i \in DOMAIN l |->
                       1 + Log!Cardinality({j \in DOMAIN l : Log!Ahead(q, j, i)})]
<1>4. ASSUME NEW i \in 1..n, NEW j \in 1..n
      PROVE  Log!Ahead(q, j, i) <=> Before(d, j, i)
  BY Zenon, <1>3 DEF Log!Ahead, Before
<1>5. \A i \in 1..n : {j \in 1..n : Log!Ahead(q, j, i)} = {j \in 1..n : Before(d, j, i)}
  BY Zenon, <1>4
<1>6. place = Place(d, n)
  BY Zenon, <1>1, <1>5, SameCardinality DEF Place
<1>7. ASSUME NEW k \in Nat
      PROVE  Log!Answer(q, k) =
               [r \in 1..Lower(k, Len(l)) |->
                  <<Log!Distance(q, l[At(DOMAIN l, place, r)]),
                    l[At(DOMAIN l, place, r)].event,
                    l[At(DOMAIN l, place, r)].doc>>]
  BY Zenon DEF Log!Answer, At, Lower
<1> HIDE DEF place
<1>8. \A r : At(DOMAIN l, place, r) = Nth(d, n, r)
  BY Zenon, <1>1, <1>6 DEF Nth
<1>9. ASSUME NEW k \in Nat
      PROVE  Log!Answer(q, k) =
               [r \in 1..Lower(k, n) |->
                  <<Log!Distance(q, l[Nth(d, n, r)]), l[Nth(d, n, r)].event, l[Nth(d, n, r)].doc>>]
  <2> DEFINE row(c) == <<Log!Distance(q, l[c]), l[c].event, l[c].doc>>
  <2>1. Log!Answer(q, k) = [r \in 1..Lower(k, Len(l)) |-> row(At(DOMAIN l, place, r))]
    BY Zenon, <1>7
  <2> HIDE DEF l, row
  <2>2. Log!Answer(q, k) = [r \in 1..Lower(k, n) |-> row(Nth(d, n, r))]
    BY Zenon, <1>1, <1>8, <2>1
  <2> QED
    BY Zenon, <2>2 DEF row
<1> QED
  BY Zenon, <1>2, <1>3, <1>9

\* A search of the store, compacted or not, is a search of the log.
LEMMA AnswersAgree ==
  ASSUME StoreOK(dwm), NEW q \in Signature, NEW k \in Nat
  PROVE  Answers(q, k) = Log!Answer(q, k)
<1>1. PICK n \in Nat : n = Length(dwm)
  BY StoreType
<1>2. PICK s, v : s = AllSigs(dwm) /\ v = AllValues(dwm)
  OBVIOUS
<1>3. /\ s \in Seq(Signature) /\ Len(s) = n /\ DOMAIN s = 1..n
      /\ v \in Seq(Nat) /\ Len(v) = n /\ DOMAIN v = 1..n
  BY <1>1, <1>2, ReadsInOrder
<1>4. PICK d : d = [i \in 1..n |-> Hamming(q, s[i])]
  OBVIOUS
<1>5. d \in [1..n -> Nat] /\ \A i \in 1..n : d[i] = Hamming(q, s[i])
  BY <1>3, <1>4, LayersFinite
<1>6. PICK hits : hits = Distances(q, s, v)
  OBVIOUS
<1>7. /\ DOMAIN hits = 1..n
      /\ \A i \in 1..n : hits[i] = [dist |-> d[i], value |-> v[i]]
  BY Zenon, <1>3, <1>5, <1>6 DEF Distances
<1>8. PICK m \in Nat : m = Lower(k, n) /\ m <= n
  BY DEF Lower
<1>9. PICK sorted : sorted = SortedByDistance(hits)
  OBVIOUS
<1>10. sorted = [r \in 1..n |-> hits[Nth(d, n, r)]]
  <2>1. \A i \in 1..n : hits[i].dist = d[i]
    BY <1>7
  <2> QED
    BY <1>5, <1>7, <1>9, <2>1, SortedByPlace
<1>11. \A r \in 1..n : Nth(d, n, r) \in 1..n
  BY <1>5, EveryPlaceTaken
<1>12. sorted \in Seq([dist : Nat, value : Nat]) /\ Len(sorted) = n
  <2>1. \A i \in 1..n : v[i] \in Nat
    BY <1>3
  <2>2. \A i \in 1..n : hits[i] \in [dist : Nat, value : Nat]
    BY <1>5, <1>7, <2>1
  <2>3. sorted \in [1..n -> [dist : Nat, value : Nat]]
    BY <1>10, <1>11, <2>2
  <2> QED
    BY <2>3, FunctionIsSeq
<1>13. /\ DOMAIN SubSeq(sorted, 1, m) = 1..m
       /\ \A r \in 1..m : SubSeq(sorted, 1, m)[r] = hits[Nth(d, n, r)]
  BY <1>8, <1>10, <1>12
<1>14. Nearest(dwm, q, k) = SubSeq(sorted, 1, m)
  BY Zenon, <1>2, <1>6, <1>8, <1>9, <1>12 DEF Nearest, NearestOf, Truncate
<1>15. Answers(q, k) =
         [r \in 1..m |-> <<hits[Nth(d, n, r)].dist,
                           Decode(hits[Nth(d, n, r)].value).event,
                           Decode(hits[Nth(d, n, r)].value).doc>>]
  BY Zenon, <1>13, <1>14 DEF Answers
<1>16. ASSUME NEW r \in 1..m
       PROVE  /\ hits[Nth(d, n, r)].dist = Log!Distance(q, LogOf(dwm)[Nth(d, n, r)])
              /\ Decode(hits[Nth(d, n, r)].value).event = LogOf(dwm)[Nth(d, n, r)].event
              /\ Decode(hits[Nth(d, n, r)].value).doc = LogOf(dwm)[Nth(d, n, r)].doc
  <2>1. PICK c : c = Nth(d, n, r)
    OBVIOUS
  <2>2. c \in 1..n
    BY <1>8, <1>11, <2>1
  <2>3. Log!Distance(q, LogOf(dwm)[c]) = d[c] /\ LogOf(dwm)[c] = Entry(s[c], v[c])
    BY <1>1, <1>2, <1>5, <2>2, LogRanks
  <2>4. hits[c].dist = d[c] /\ hits[c].value = v[c]
    BY <1>7, <2>2
  <2>5. Entry(s[c], v[c]).event = Decode(v[c]).event /\ Entry(s[c], v[c]).doc = Decode(v[c]).doc
    BY EntryFields
  <2> QED
    BY Zenon, <2>1, <2>3, <2>4, <2>5
<1>17. Log!Answer(q, k) =
         [r \in 1..m |-> <<Log!Distance(q, LogOf(dwm)[Nth(d, n, r)]),
                           LogOf(dwm)[Nth(d, n, r)].event,
                           LogOf(dwm)[Nth(d, n, r)].doc>>]
  BY <1>1, <1>2, <1>5, <1>8, LogRanks
<1> QED
  BY Zenon, <1>15, <1>16, <1>17

-----------------------------------------------------------------------------
(* The stores a tier starts with. *)

LEMMA EmptyStore ==
  StoreOK(Empty) /\ PendingTail(Empty) = 0 /\ LogOf(Empty) = <<>>
<1>1. /\ <<>> \in Seq(Signature) /\ <<>> \in Seq(Nat) /\ Len(<<>>) = 0
  OBVIOUS
<1>2. StoreOK(Empty) /\ PendingTail(Empty) = 0 /\ Length(Empty) = 0
  BY <1>1, BuildReads DEF Empty
<1>3. LogOf(Empty) \in Seq(LogEntry) /\ Len(LogOf(Empty)) = 0
  BY <1>2, LogShape
<1>4. PICK l : l = LogOf(Empty)
  OBVIOUS
<1>5. l = <<>>
  BY <1>3, <1>4
<1> QED
  BY <1>2, <1>4, <1>5

LEMMA BatchStore ==
  ASSUME NEW e \in Entries, NEW f \in Entries
  PROVE  /\ StoreOK(FromBatch(<<e, f>>))
         /\ PendingTail(FromBatch(<<e, f>>)) = 0
         /\ LogOf(FromBatch(<<e, f>>)) = <<e, f>>
<1>1. PICK b : b = <<e, f>>
  OBVIOUS
<1>2. DOMAIN b = 1..2 /\ b[1] = e /\ b[2] = f /\ \A i \in 1..2 : b[i] \in Entries
  BY <1>1
<1>3. PICK s, v : /\ s = [i \in DOMAIN b |-> b[i].sig]
                  /\ v = [i \in DOMAIN b |-> Encode(b[i].event, b[i].doc)]
  OBVIOUS
<1>4. \A i \in 1..2 : s[i] = b[i].sig /\ v[i] = Encode(b[i].event, b[i].doc)
  BY Zenon, <1>2, <1>3
<1>5. \A i \in 1..2 : s[i] \in Signature /\ v[i] \in Nat
  <2> TAKE i \in 1..2
  <2>1. PICK x \in Entries : x = b[i]
    BY <1>2
  <2>2. x.sig \in Signature
    BY ColdTierAssumption
  <2>3. Encode(x.event, x.doc) \in Nat
    BY EncodeDecode
  <2> QED
    BY Zenon, <1>4, <2>1, <2>2, <2>3
<1>6. s \in [1..2 -> Signature] /\ v \in [1..2 -> Nat]
  BY <1>2, <1>3, <1>5
<1>7. s \in Seq(Signature) /\ Len(s) = 2 /\ v \in Seq(Nat) /\ Len(v) = 2
  BY <1>6, FunctionIsSeq
<1>8. PICK c : c = Build(s, v)
  OBVIOUS
<1>9. FromBatch(b) = c
  BY Zenon, <1>3, <1>8 DEF FromBatch
<1>10. /\ StoreOK(c) /\ PendingTail(c) = 0 /\ Length(c) = 2
       /\ \A i \in 1..2 : SigAt(c, i - 1) = s[i] /\ ValueAt(c, i - 1) = v[i]
  BY <1>7, <1>8, BuildReads
<1>11. ASSUME NEW i \in 1..2
       PROVE  LogOf(c)[i] = b[i]
  <2>1. PICK x \in Entries : x = b[i]
    BY <1>2
  <2>2. LogOf(c)[i] = Entry(s[i], v[i])
    BY <1>10, LogShape
  <2>3. Entry(s[i], v[i]) = Entry(x.sig, Encode(x.event, x.doc))
    BY Zenon, <1>4, <2>1
  <2> QED
    BY Zenon, <2>1, <2>2, <2>3, EncodeDecode
<1>12. PICK l : l = LogOf(c)
  OBVIOUS
<1>13. l \in Seq(LogEntry) /\ Len(l) = 2
  BY <1>10, <1>12, LogShape
<1>14. l = <<e, f>>
  <2>1. l[1] = e /\ l[2] = f
    BY <1>2, <1>11, <1>12
  <2> QED
    BY <1>13, <2>1
<1> QED
  BY Zenon, <1>1, <1>9, <1>10, <1>12, <1>14

-----------------------------------------------------------------------------
(* The invariant.  What was saved had less than its threshold pending, or  *)
(* a reload would bring more.                                              *)

SavedBounded == \A f \in file : PendingTail(f.dwm) < f.threshold

TierInv == TypeOK /\ TailBounded /\ SavedBounded

\* What add_evicted leaves of a store.
LEMMA Settled ==
  ASSUME NEW st, StoreOK(st), threshold \in Nat \ {0}
  PROVE  /\ StoreOK(AutoCompact(st))
         /\ PendingTail(AutoCompact(st)) < threshold
         /\ LogOf(AutoCompact(st)) = LogOf(st)
<1>1. CASE PendingTail(st) >= threshold
  BY <1>1, CompactKeeps DEF AutoCompact
<1>2. CASE ~(PendingTail(st) >= threshold)
  BY <1>2, StoreType DEF AutoCompact
<1> QED
  BY <1>1, <1>2

\* An eviction adds one entry at the end.
LEMMA EvictAppends ==
  ASSUME TypeOK, NEW e \in Entries, AddEvicted(e)
  PROVE  /\ StoreOK(dwm')
         /\ PendingTail(dwm') < threshold
         /\ LogOf(dwm') = Append(LogOf(dwm), e)
<1>1. PICK p : p = Push(dwm, e.sig, Encode(e.event, e.doc))
  OBVIOUS
<1>2. /\ StoreOK(dwm) /\ threshold \in Nat \ {0}
      /\ e.sig \in Signature
      /\ Encode(e.event, e.doc) \in Nat
      /\ Entry(e.sig, Encode(e.event, e.doc)) = e
  BY ColdTierAssumption, EncodeDecode DEF TypeOK
<1>3. StoreOK(p) /\ LogOf(p) = Append(LogOf(dwm), e)
  BY <1>1, <1>2, PushAppends
<1>4. dwm' = AutoCompact(p)
  BY <1>1 DEF AddEvicted
<1> QED
  BY Zenon, <1>2, <1>3, <1>4, Settled

LEMMA TierInvInit == Init => TierInv
<1> SUFFICES ASSUME Init
             PROVE  TierInv
  OBVIOUS
<1>1. StoreOK(dwm) /\ PendingTail(dwm) = 0
  <2>1. CASE dwm = Empty
    BY Zenon, <2>1, EmptyStore
  <2>2. ASSUME NEW e \in Entries, NEW f \in Entries, dwm = FromBatch(<<e, f>>)
        PROVE  StoreOK(dwm) /\ PendingTail(dwm) = 0
    BY Zenon, <2>2, BatchStore
  <2> QED
    BY Zenon, <2>1, <2>2 DEF Init
<1>2. threshold \in Nat \ {0} /\ file = {}
  BY ColdTierAssumption DEF Init
<1> QED
  BY <1>1, <1>2 DEF TierInv, TypeOK, TailBounded, SavedBounded

LEMMA TierInvNext == TierInv /\ [Next]_vars => TierInv'
<1> SUFFICES ASSUME TierInv, [Next]_vars
             PROVE  TierInv'
  OBVIOUS
<1>1. /\ StoreOK(dwm) /\ threshold \in Nat \ {0}
      /\ PendingTail(dwm) < threshold
      /\ \A f \in file : /\ StoreOK(f.dwm) /\ f.threshold \in Nat \ {0}
                         /\ PendingTail(f.dwm) < f.threshold
  BY DEF TierInv, TypeOK, TailBounded, SavedBounded
<1>2. ASSUME NEW e \in Entries, AddEvicted(e)
      PROVE  TierInv'
  <2>1. StoreOK(dwm') /\ PendingTail(dwm') < threshold
    BY <1>2, EvictAppends DEF TierInv
  <2>2. UNCHANGED <<threshold, file>>
    BY <1>2 DEF AddEvicted
  <2> QED
    BY <1>1, <2>1, <2>2 DEF TierInv, TypeOK, TailBounded, SavedBounded
<1>3. CASE ForceCompact
  <2>1. StoreOK(dwm') /\ PendingTail(dwm') = 0 /\ UNCHANGED <<threshold, file>>
    BY <1>1, <1>3, CompactKeeps DEF ForceCompact
  <2> QED
    BY <1>1, <2>1 DEF TierInv, TypeOK, TailBounded, SavedBounded
<1>4. ASSUME NEW q \in Queries, NEW k \in TopKs, Search(q, k)
      PROVE  TierInv'
  BY <1>1, <1>4 DEF Search, TierInv, TypeOK, TailBounded, SavedBounded
<1>5. CASE Save
  <2>1. UNCHANGED <<dwm, threshold>> /\ file' = {[dwm |-> dwm, threshold |-> threshold]}
    BY <1>5 DEF Save
  <2>2. \A f \in file' : f.dwm = dwm /\ f.threshold = threshold
    BY <2>1
  <2> QED
    BY <1>1, <2>1, <2>2 DEF TierInv, TypeOK, TailBounded, SavedBounded
<1>6. CASE Reload
  <2>1. CASE file = {} /\ dwm' = Empty /\ UNCHANGED <<threshold, file>>
    BY <1>1, <2>1, EmptyStore DEF TierInv, TypeOK, TailBounded, SavedBounded
  <2>2. ASSUME NEW f \in file, dwm' = f.dwm, threshold' = f.threshold, file' = file
        PROVE  TierInv'
    BY <1>1, <2>2 DEF TierInv, TypeOK, TailBounded, SavedBounded
  <2> QED
    BY <1>6, <2>1, <2>2 DEF Reload
<1>7. CASE UNCHANGED vars
  BY <1>1, <1>7 DEF vars, TierInv, TypeOK, TailBounded, SavedBounded
<1> QED
  BY <1>2, <1>3, <1>4, <1>5, <1>6, <1>7 DEF Next

\* The store is well formed in every reachable state: a layer is as long as
\* the values, and what waits has its values (SignatureDwm in signature_dwm.rs,
\* kept by push, compact and the loading of a file).
THEOREM TypeCorrect == Spec => []TypeOK
<1>1. TierInv => TypeOK
  BY DEF TierInv
<1> QED
  BY TierInvInit, TierInvNext, <1>1, PTL DEF Spec

\* add_evicted never leaves a threshold's worth pending, whatever was
\* compacted by hand, saved and loaded before (cold_tier.rs, add_evicted).
THEOREM TailBoundedAlways == Spec => []TailBounded
<1>1. TierInv => TailBounded
  BY DEF TierInv
<1> QED
  BY TierInvInit, TierInvNext, <1>1, PTL DEF Spec

-----------------------------------------------------------------------------
(* The tables.  A compaction builds them from nothing, a push and a search *)
(* leave them alone, and a file keeps them: whatever is loaded agrees.     *)

StoreAgrees(st) == \A k \in Layers : RanksCount(st.layers[k]) /\ SelectsInvert(st.layers[k])

FileAgrees == \A f \in file : StoreAgrees(f.dwm)

TablesInv == StoreAgrees(dwm) /\ FileAgrees

\* A vector agrees with its words as soon as it is made.
LEMMA VectorAgrees ==
  ASSUME NEW len \in Nat, NEW words \in SUBSET Nat, words \subseteq 0..(len - 1)
  PROVE  RanksCount(New(words, len)) /\ SelectsInvert(New(words, len))
<1>1. PICK v : v = New(words, len)
  OBVIOUS
<1>2. Counted(v, words, len)
  BY <1>1, NewCounts
<1>3. RanksCount(v) /\ SelectsInvert(v)
  BY <1>2, RankCounts, SelectsAreInverse
<1> QED
  BY Zenon, <1>1, <1>3

\* The positions of a layer are those of the signatures, so below its length.
LEMMA BuildAgrees ==
  ASSUME NEW sigs \in Seq(Signature), NEW values
  PROVE  StoreAgrees(Build(sigs, values))
<1> DEFINE bits(k) == {i - 1 : i \in {j \in DOMAIN sigs : k \in sigs[j]}}
<1>1. Len(sigs) \in Nat /\ DOMAIN sigs = 1..Len(sigs)
  OBVIOUS
<1>2. ASSUME NEW k \in Layers
      PROVE  bits(k) \in SUBSET Nat /\ bits(k) \subseteq 0..(Len(sigs) - 1)
  <2>1. PICK n \in Nat : n = Len(sigs) /\ DOMAIN sigs = 1..n
    BY <1>1
  <2>2. \A i \in 1..n : i - 1 \in Nat /\ i - 1 \in 0..(n - 1)
    OBVIOUS
  <2> QED
    BY Zenon, <2>1, <2>2
<1>3. Build(sigs, values).layers = [k \in Layers |-> New(bits(k), Len(sigs))]
  BY DEF Build
<1> HIDE DEF bits
<1>4. ASSUME NEW k \in Layers
      PROVE  RanksCount(Build(sigs, values).layers[k]) /\ SelectsInvert(Build(sigs, values).layers[k])
  <2>1. Build(sigs, values).layers[k] = New(bits(k), Len(sigs))
    BY Zenon, <1>3
  <2>2. RanksCount(New(bits(k), Len(sigs))) /\ SelectsInvert(New(bits(k), Len(sigs)))
    BY <1>1, <1>2, VectorAgrees
  <2> QED
    BY Zenon, <2>1, <2>2
<1> QED
  BY Zenon, <1>4 DEF StoreAgrees

LEMMA EmptyAgrees == StoreAgrees(Empty)
<1>1. <<>> \in Seq(Signature)
  OBVIOUS
<1> QED
  BY <1>1, BuildAgrees DEF Empty

LEMMA BatchAgrees ==
  ASSUME NEW e \in Entries, NEW f \in Entries
  PROVE  StoreAgrees(FromBatch(<<e, f>>))
<1>1. PICK b : b = <<e, f>>
  OBVIOUS
<1>2. DOMAIN b = 1..2 /\ \A i \in 1..2 : b[i] \in Entries
  BY <1>1
<1>3. PICK s : s = [i \in DOMAIN b |-> b[i].sig]
  OBVIOUS
<1>4. s \in Seq(Signature)
  <2>1. \A i \in 1..2 : b[i].sig \in Signature
    BY <1>2, ColdTierAssumption
  <2>2. s \in [1..2 -> Signature]
    BY <1>2, <1>3, <2>1
  <2> QED
    BY <2>2, FunctionIsSeq
<1>5. FromBatch(b) = Build(s, [i \in DOMAIN b |-> Encode(b[i].event, b[i].doc)])
  BY Zenon, <1>3 DEF FromBatch
<1> QED
  BY Zenon, <1>1, <1>4, <1>5, BuildAgrees

LEMMA CompactAgrees ==
  ASSUME NEW st, StoreOK(st), StoreAgrees(st)
  PROVE  StoreAgrees(Compact(st))
<1>1. AllSigs(st) \in Seq(Signature)
  BY ReadsInOrder
<1>2. StoreAgrees(Build(AllSigs(st), AllValues(st)))
  BY <1>1, BuildAgrees
<1> QED
  BY Zenon, <1>2 DEF Compact

LEMMA EvictAgrees ==
  ASSUME TypeOK, StoreAgrees(dwm), NEW e \in Entries, AddEvicted(e)
  PROVE  StoreAgrees(dwm')
<1>1. PICK p : p = Push(dwm, e.sig, Encode(e.event, e.doc))
  OBVIOUS
<1>2. StoreOK(dwm) /\ e.sig \in Signature /\ Encode(e.event, e.doc) \in Nat
  BY ColdTierAssumption, EncodeDecode DEF TypeOK
<1>3. StoreOK(p) /\ p.layers = dwm.layers
  BY <1>1, <1>2, PushAppends, PushFields
<1>4. StoreAgrees(p)
  BY Zenon, <1>3 DEF StoreAgrees
<1>5. dwm' = AutoCompact(p)
  BY <1>1 DEF AddEvicted
<1> QED
  BY Zenon, <1>3, <1>4, <1>5, CompactAgrees DEF AutoCompact

LEMMA TablesInvInit == Init => TablesInv
<1> SUFFICES ASSUME Init
             PROVE  TablesInv
  OBVIOUS
<1>1. StoreAgrees(dwm)
  <2>1. CASE dwm = Empty
    BY Zenon, <2>1, EmptyAgrees
  <2>2. ASSUME NEW e \in Entries, NEW f \in Entries, dwm = FromBatch(<<e, f>>)
        PROVE  StoreAgrees(dwm)
    BY Zenon, <2>2, BatchAgrees
  <2> QED
    BY Zenon, <2>1, <2>2 DEF Init
<1>2. FileAgrees
  BY DEF Init, FileAgrees
<1> QED
  BY <1>1, <1>2 DEF TablesInv

LEMMA TablesInvNext == TierInv /\ TablesInv /\ [Next]_vars => TablesInv'
<1> SUFFICES ASSUME TierInv, TablesInv, [Next]_vars
             PROVE  TablesInv'
  OBVIOUS
<1>1. TypeOK /\ StoreOK(dwm) /\ StoreAgrees(dwm) /\ \A f \in file : StoreAgrees(f.dwm)
  BY DEF TierInv, TypeOK, TablesInv, FileAgrees
<1>2. (StoreAgrees(dwm') /\ \A f \in file' : StoreAgrees(f.dwm)) => TablesInv'
  BY DEF TablesInv, FileAgrees, StoreAgrees
<1>3. ASSUME NEW e \in Entries, AddEvicted(e)
      PROVE  TablesInv'
  <2>1. StoreAgrees(dwm') /\ file' = file
    BY <1>1, <1>3, EvictAgrees DEF AddEvicted
  <2> QED
    BY Zenon, <1>1, <1>2, <2>1
<1>4. CASE ForceCompact
  <2>1. StoreAgrees(dwm') /\ file' = file
    BY <1>1, <1>4, CompactAgrees DEF ForceCompact
  <2> QED
    BY Zenon, <1>1, <1>2, <2>1
<1>5. CASE Save
  <2>1. dwm' = dwm /\ file' = {[dwm |-> dwm, threshold |-> threshold]}
    BY <1>5 DEF Save
  <2>2. \A f \in file' : f.dwm = dwm
    BY <2>1
  <2> QED
    BY Zenon, <1>1, <1>2, <2>1, <2>2
<1>6. CASE Reload
  <2>1. CASE dwm' = Empty /\ file' = file
    BY Zenon, <1>1, <1>2, <2>1, EmptyAgrees
  <2>2. ASSUME NEW f \in file, dwm' = f.dwm, file' = file
        PROVE  TablesInv'
    BY Zenon, <1>1, <1>2, <2>2
  <2> QED
    BY <1>6, <2>1, <2>2 DEF Reload
<1>7. ASSUME dwm' = dwm, file' = file
      PROVE  TablesInv'
  BY Zenon, <1>1, <1>2, <1>7
<1>8. ASSUME NEW q \in Queries, NEW k \in TopKs, Search(q, k)
      PROVE  TablesInv'
  BY <1>7, <1>8 DEF Search
<1>9. CASE UNCHANGED vars
  BY <1>7, <1>9 DEF vars
<1> QED
  BY <1>3, <1>4, <1>5, <1>6, <1>8, <1>9 DEF Next

\* In every layer of every reachable store rank counts the bits before a
\* position and select is its inverse, over every block and word boundary
\* (BitVector's build_index, rank_1, select_1 and select_0 in bitvec.rs).
THEOREM TablesAgreeAlways == Spec => []TablesAgree
<1>1. TablesInv => TablesAgree
  BY DEF TablesInv, StoreAgrees, TablesAgree
<1> QED
  BY TierInvInit, TierInvNext, TablesInvInit, TablesInvNext, <1>1, PTL DEF Spec

-----------------------------------------------------------------------------
(* Radius queries. *)

\* A compaction gives the same signatures and values to whoever reads them.
LEMMA CompactReads ==
  ASSUME NEW st, StoreOK(st)
  PROVE  AllSigs(Compact(st)) = AllSigs(st) /\ AllValues(Compact(st)) = AllValues(st)
<1>1. PICK c, s, v : c = Build(s, v) /\ s = AllSigs(st) /\ v = AllValues(st)
  OBVIOUS
<1>2. PICK n \in Nat : n = Length(st)
  BY StoreType
<1>3. /\ s \in Seq(Signature) /\ v \in Seq(Nat) /\ Len(s) = n /\ Len(v) = n
  BY Zenon, <1>1, <1>2, ReadsInOrder
<1>4. /\ StoreOK(c) /\ Length(c) = n
      /\ \A i \in 1..n : SigAt(c, i - 1) = s[i] /\ ValueAt(c, i - 1) = v[i]
  BY <1>1, <1>3, BuildReads
<1>5. PICK t, w : t = AllSigs(c) /\ w = AllValues(c)
  OBVIOUS
<1>6. /\ t \in Seq(Signature) /\ w \in Seq(Nat) /\ Len(t) = n /\ Len(w) = n
      /\ \A i \in 1..n : t[i] = s[i] /\ w[i] = v[i]
  BY Zenon, <1>4, <1>5, ReadsInOrder
<1>7. t = s /\ w = v
  BY <1>3, <1>6
<1> QED
  BY Zenon, <1>1, <1>5, <1>7 DEF Compact

\* The part of the ranking within a radius, compacted or not: within_radius
\* and nearest sort the same distances, and a file saved by the store itself
\* is a compacted clone of it (signature_dwm.rs, within_radius and save_to_file).
THEOREM RadiusCutsRankingAlways == Spec => []RadiusCutsRanking
<1>1. TierInv => RadiusCutsRanking
  <2> SUFFICES ASSUME TierInv
               PROVE  RadiusCutsRanking
    OBVIOUS
  <2>1. StoreOK(dwm)
    BY DEF TierInv, TypeOK
  <2>2. PICK s, v : s = AllSigs(dwm) /\ v = AllValues(dwm)
    OBVIOUS
  <2>3. s \in Seq(Signature) /\ v \in Seq(Nat) /\ Len(v) = Len(s) /\ Len(s) = Size
    BY Zenon, <2>1, <2>2, ReadsInOrder DEF Size
  <2>4. ASSUME NEW q \in Queries, NEW radius \in 0..SigBits
        PROVE  LET all    == Nearest(dwm, q, Size)
                   inside == {r \in DOMAIN all : all[r].dist <= radius}
               IN  /\ WithinRadius(dwm, q, radius) = Truncate(all, Cardinality(inside))
                   /\ WithinRadius(SavedForm(dwm), q, radius) = WithinRadius(dwm, q, radius)
    <3>1. q \in Signature /\ radius \in Nat
      BY ColdTierAssumption, SigBitsAssumption
    <3>2. PICK all : all = NearestOf(q, s, v, Len(s))
      OBVIOUS
    <3>3. Nearest(dwm, q, Size) = all
      BY Zenon, <2>2, <2>3, <3>2 DEF Nearest
    <3>4. SortedByDistance(Within(Distances(q, s, v), radius))
            = Truncate(all, Cardinality({r \in DOMAIN all : all[r].dist <= radius}))
      BY <2>3, <3>1, <3>2, RadiusPrefix
    <3>5. WithinRadius(dwm, q, radius) = SortedByDistance(Within(Distances(q, s, v), radius))
      BY Zenon, <2>2 DEF WithinRadius
    <3>6. WithinRadius(SavedForm(dwm), q, radius) = WithinRadius(dwm, q, radius)
      BY Zenon, <2>1, CompactReads DEF WithinRadius, SavedForm
    <3> QED
      BY Zenon, <3>3, <3>4, <3>5, <3>6
  <2> QED
    BY Zenon, <2>4 DEF RadiusCutsRanking
<1> QED
  BY TierInvInit, TierInvNext, <1>1, PTL DEF Spec

-----------------------------------------------------------------------------
(* The log. *)

LEMMA LogInit == Init => Log!Init
<1> SUFFICES ASSUME Init
             PROVE  Log!Init
  OBVIOUS
<1>1. LogOf(dwm) \in {<<>>} \cup {<<e, f>> : e \in Entries, f \in Entries}
  <2> PICK l : l = LogOf(dwm)
    OBVIOUS
  <2>1. ASSUME dwm = Empty
        PROVE  l \in {<<>>}
    <3>1. l = <<>>
      BY Zenon, <2>1, EmptyStore
    <3> QED
      BY <3>1
  <2>2. ASSUME NEW e \in Entries, NEW f \in Entries, dwm = FromBatch(<<e, f>>)
        PROVE  l \in {<<x, y>> : x \in Entries, y \in Entries}
    <3>1. l = <<e, f>>
      BY Zenon, <2>2, BatchStore
    <3> QED
      BY <3>1
  <2>3. dwm = Empty \/ \E e \in Entries, f \in Entries : dwm = FromBatch(<<e, f>>)
    BY DEF Init
  <2>4. l \in {<<>>} \/ l \in {<<x, y>> : x \in Entries, y \in Entries}
    <3>1. CASE dwm = Empty
      BY <2>1, <3>1
    <3>2. CASE \E e \in Entries, f \in Entries : dwm = FromBatch(<<e, f>>)
      <4>1. PICK e \in Entries, f \in Entries : dwm = FromBatch(<<e, f>>)
        BY <3>2
      <4> QED
        BY <2>2, <4>1
    <3> QED
      BY <2>3, <3>1, <3>2
  <2> QED
    BY <2>4
<1>2. {LogOf(f.dwm) : f \in file} = {}
  BY DEF Init
<1>3. call = Log!Started
  BY DEF Init, Log!Started
<1> QED
  BY <1>1, <1>2, <1>3 DEF Log!Init

LEMMA LogStep == TierInv /\ [Next]_vars => [Log!Next]_Log!vars
<1> SUFFICES ASSUME TierInv, [Next]_vars
             PROVE  Log!Next \/ UNCHANGED Log!vars
  OBVIOUS
<1>1. TypeOK /\ StoreOK(dwm)
  BY DEF TierInv, TypeOK
<1>2. ASSUME NEW e \in Entries, AddEvicted(e)
      PROVE  Log!Evict(e)
  <2>1. LogOf(dwm') = Append(LogOf(dwm), e)
    BY <1>1, <1>2, EvictAppends
  <2>2. call' = Log!Evicted(e) /\ file' = file
    BY <1>2 DEF AddEvicted, Log!Evicted
  <2> QED
    BY Zenon, <2>1, <2>2 DEF Log!Evict
<1>3. CASE ForceCompact
  <2>1. LogOf(dwm') = LogOf(dwm) /\ file' = file /\ call' = call
    BY <1>1, <1>3, CompactKeeps DEF ForceCompact
  <2> QED
    BY Zenon, <2>1 DEF Log!vars
<1>4. ASSUME NEW q \in Queries, NEW k \in TopKs, Search(q, k)
      PROVE  Log!Search(q, k)
  <2>1. q \in Signature /\ k \in Nat
    BY ColdTierAssumption
  <2>2. Answers(q, k) = Log!Answer(q, k)
    BY <1>1, <2>1, AnswersAgree
  <2>3. /\ call' = [op |-> "search", query |-> q, k |-> k, reply |-> Log!Answer(q, k)]
        /\ dwm' = dwm /\ file' = file
    BY Zenon, <1>4, <2>2 DEF Search
  <2> QED
    BY Zenon, <2>3 DEF Log!Search, Log!Searched
<1>5. CASE Save
  <2>1. file' = {[dwm |-> dwm, threshold |-> threshold]} /\ dwm' = dwm /\ call' = call
    BY <1>5 DEF Save
  <2>2. {LogOf(f.dwm) : f \in file'} = {LogOf(dwm)}
    BY <2>1
  <2> QED
    BY Zenon, <2>1, <2>2 DEF Log!Save, Log!Next
<1>6. CASE Reload
  <2>1. call' = Log!Started /\ file' = file
    BY <1>6 DEF Reload, Log!Started
  <2>2. IF {LogOf(f.dwm) : f \in file} = {} THEN LogOf(dwm') = <<>>
        ELSE LogOf(dwm') \in {LogOf(f.dwm) : f \in file}
    <3>1. CASE file = {} /\ dwm' = Empty
      BY Zenon, <3>1, EmptyStore
    <3>2. ASSUME NEW f \in file, dwm' = f.dwm
          PROVE  LogOf(dwm') \in {LogOf(g.dwm) : g \in file}
      BY Zenon, <3>2
    <3> QED
      BY Zenon, <1>6, <3>1, <3>2 DEF Reload
  <2> QED
    BY Zenon, <2>1, <2>2 DEF Log!Restart, Log!Next
<1>7. CASE UNCHANGED vars
  <2>1. dwm' = dwm /\ file' = file /\ call' = call
    BY <1>7 DEF vars
  <2> QED
    BY Zenon, <2>1 DEF Log!vars
<1> QED
  BY Zenon, <1>2, <1>3, <1>4, <1>5, <1>6, <1>7 DEF Next, Log!Next

\* A cold tier is a log of its evictions: no caller can tell what is compacted
\* from what waits, and a saved tier is the tier (DwmColdTier's add_evicted,
\* search, force_compact, save_to_file and load_from_file).
THEOREM ImplementsEvictionLog == Spec => ImplementsLog
BY TierInvInit, TierInvNext, LogInit, LogStep, PTL DEF Spec, ImplementsLog, Log!Spec

=============================================================================
