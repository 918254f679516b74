-------------------------- MODULE DeltaCache_proofs --------------------------
(***************************************************************************)
(* Theorems about the delta cache as it is kept and about the prefetchers  *)
(* that answer through one, for any tolerance, capacity, scopes, queries.  *)
(***************************************************************************)
EXTENDS DeltaCache, Prefetch, OrderLemmas

LEMMA Triangle ==
  ASSUME NEW a \in Signatures, NEW b \in Signatures, NEW c \in Signatures
  PROVE  /\ Hamming(a, b) \in Nat
         /\ Hamming(a, a) = 0
         /\ Hamming(a, b) = Hamming(b, a)
         /\ Hamming(a, c) <= Hamming(a, b) + Hamming(b, c)
<1>1. Distance[a, b] \in Nat
  <2>1. <<a, b>> \in Signatures \X Signatures
    OBVIOUS
  <2>2. Distance[<<a, b>>] \in Nat
    BY <2>1, DistanceType
  <2> QED
    BY Zenon, <2>2
<1>2. /\ Distance[a, a] = 0
      /\ Distance[a, b] = Distance[b, a]
      /\ Distance[a, c] <= Distance[a, b] + Distance[b, c]
  BY Zenon, DistanceIsMetric
<1> QED
  BY Zenon, <1>1, <1>2 DEF Hamming

LEMMA EntryOf ==
  ASSUME NEW b \in Seq(StampedEntry), NEW i \in DOMAIN b
  PROVE  /\ b[i] \in StampedEntry
         /\ b[i].lastUsed \in Nat
         /\ b[i].results \in Payloads
         /\ b[i].query \in Signatures
<1>1. i \in 1..Len(b)
  OBVIOUS
<1>2. b[i] \in StampedEntry
  BY <1>1, ElementOfSeq
<1> QED
  BY <1>2 DEF StampedEntry

\* Counters only count.
LEMMA Counting ==
  ASSUME NEW f \in [Counters -> Nat], NEW c \in Counters, NEW d \in Counters, c # d,
         NEW n \in Nat, NEW m \in Nat
  PROVE  [f EXCEPT ![c] = @ + n, ![d] = @ + m] \in [Counters -> Nat]
<1>1. f[c] + n \in Nat /\ f[d] + m \in Nat
  OBVIOUS
<1> QED
  BY <1>1

\* What answers a hit is an entry of the bucket.
LEMMA FirstNearestNear ==
  ASSUME NEW b \in Seq(StampedEntry), NEW q \in Signatures, NEW k \in Nat, Near(b, q, k) # {}
  PROVE  /\ FirstNearest(b, q, k) \in Nearest(b, q, k)
         /\ FirstNearest(b, q, k) \in DOMAIN b
<1> DEFINE Dist(i) == Hamming(q, b[i].query)
           dists == {Dist(i) : i \in Near(b, q, k)}
<1>1. Near(b, q, k) \subseteq DOMAIN b /\ DOMAIN b \subseteq Nat
  BY DEF Near
<1>2. \A i \in DOMAIN b : Dist(i) \in Nat
  BY Zenon, EntryOf, Triangle
<1>3. dists \in SUBSET Nat /\ dists # {}
  BY <1>1, <1>2
<1>4. PICK least \in dists : \A d \in dists : least <= d
  BY <1>3, MinIsLeast
<1>5. PICK i \in Near(b, q, k) : least = Dist(i)
  BY <1>4
<1>6. i \in Nearest(b, q, k)
  BY <1>4, <1>5 DEF Nearest
<1>7. Nearest(b, q, k) \in SUBSET Nat /\ Nearest(b, q, k) \subseteq DOMAIN b
  BY <1>1 DEF Nearest
<1> QED
  BY <1>6, <1>7, MinIsLeast DEF FirstNearest

\* The state every step starts from: the type and what stamps are for.
IInv == TypeOK /\ StampsDistinct

\* A bucket's stamps are distinct and none is later than now.
Orderly(bucket, now) ==
  \A i, j \in DOMAIN bucket :
    /\ bucket[i].lastUsed <= now
    /\ i # j => bucket[i].lastUsed # bucket[j].lastUsed

\* swap_remove keeps a bucket orderly, whichever entry goes.
LEMMA SwapRemoveOrderly ==
  ASSUME NEW b \in Seq(StampedEntry), Len(b) > 0, NEW i, NEW now \in Nat, Orderly(b, now)
  PROVE  /\ SwapRemove(b, i) \in Seq(StampedEntry)
         /\ Len(SwapRemove(b, i)) = Len(b) - 1
         /\ Orderly(SwapRemove(b, i), now)
<1> DEFINE swapped == [b EXCEPT ![i] = b[Len(b)]]
<1>1. Len(b) \in Nat /\ DOMAIN b = 1..Len(b) /\ b[Len(b)] \in StampedEntry
  OBVIOUS
<1>2. swapped \in Seq(StampedEntry) /\ Len(swapped) = Len(b)
  <2>1. CASE i \in 1..Len(b)
    BY <1>1, <2>1, ExceptSeq
  <2>2. CASE i \notin 1..Len(b)
    <3>1. swapped = b
      BY <1>1, <2>2
    <3> QED
      BY <3>1
  <2> QED
    BY <2>1, <2>2
<1>3. SwapRemove(b, i) = SubSeq(swapped, 1, Len(b) - 1)
  BY <1>2 DEF SwapRemove, Front, Last
<1>4. /\ SwapRemove(b, i) \in Seq(StampedEntry)
      /\ Len(SwapRemove(b, i)) = Len(b) - 1
      /\ \A j \in 1..(Len(b) - 1) : SwapRemove(b, i)[j] = IF j = i THEN b[Len(b)] ELSE b[j]
  BY <1>1, <1>2, <1>3
<1>5. DOMAIN SwapRemove(b, i) = 1..(Len(b) - 1)
  BY <1>4
<1> QED
  BY <1>1, <1>4, <1>5 DEF Orderly

\* So is a bucket that takes a new entry with the next stamp.
LEMMA PushOrderly ==
  ASSUME NEW b \in Seq(StampedEntry), Len(b) <= MaxEntriesPerScope,
         NEW now \in Nat, Orderly(b, now),
         NEW e \in StampedEntry, e.lastUsed = now + 1
  PROVE  /\ Append(EvictWhenFull(b), e) \in Seq(StampedEntry)
         /\ Len(Append(EvictWhenFull(b), e)) <= MaxEntriesPerScope
         /\ Orderly(Append(EvictWhenFull(b), e), now + 1)
<1> DEFINE rest == EvictWhenFull(b)
<1>1. /\ rest \in Seq(StampedEntry)
      /\ Len(rest) < MaxEntriesPerScope
      /\ Orderly(rest, now)
  <2>1. CASE Len(b) >= MaxEntriesPerScope
    BY <2>1, SwapRemoveOrderly, DeltaAssumption DEF EvictWhenFull
  <2>2. CASE Len(b) < MaxEntriesPerScope
    BY <2>2, DeltaAssumption DEF EvictWhenFull
  <2> QED
    BY <2>1, <2>2, DeltaAssumption
<1> HIDE DEF rest
<1>2. /\ Append(rest, e) \in Seq(StampedEntry)
      /\ Len(Append(rest, e)) = Len(rest) + 1
      /\ \A j \in 1..Len(rest) : Append(rest, e)[j] = rest[j]
      /\ Append(rest, e)[Len(rest) + 1] = e
  BY <1>1
<1>3. \A j \in 1..Len(rest) : rest[j].lastUsed \in Nat
  BY <1>1, EntryOf
<1>4. Orderly(Append(rest, e), now + 1)
  BY <1>1, <1>2, <1>3 DEF Orderly
<1> QED
  BY <1>1, <1>2, <1>4, DeltaAssumption DEF rest

\* A hit stamps one entry anew.
LEMMA StampOrderly ==
  ASSUME NEW b \in Seq(StampedEntry), NEW now \in Nat, Orderly(b, now), NEW i \in DOMAIN b
  PROVE  /\ [b EXCEPT ![i].lastUsed = now + 1] \in Seq(StampedEntry)
         /\ Len([b EXCEPT ![i].lastUsed = now + 1]) = Len(b)
         /\ Orderly([b EXCEPT ![i].lastUsed = now + 1], now + 1)
<1>0. b[i] \in StampedEntry
  BY EntryOf
<1>1. PICK e : e = [b[i] EXCEPT !.lastUsed = now + 1]
  OBVIOUS
<1>2. e \in StampedEntry /\ e.lastUsed = now + 1
  BY <1>0, <1>1 DEF StampedEntry
<1>8. [b EXCEPT ![i].lastUsed = now + 1] = [b EXCEPT ![i] = e]
  BY <1>1
<1>3. [b EXCEPT ![i] = e] \in Seq(StampedEntry) /\ Len([b EXCEPT ![i] = e]) = Len(b)
  BY <1>2, ExceptSeq
<1>4. \A j \in DOMAIN b : b[j].lastUsed \in Nat
  BY EntryOf
<1>5. DOMAIN [b EXCEPT ![i] = e] = DOMAIN b
  OBVIOUS
<1>6. \A j \in DOMAIN b : [b EXCEPT ![i] = e][j] = IF j = i THEN e ELSE b[j]
  OBVIOUS
<1>7. Orderly([b EXCEPT ![i] = e], now + 1)
  BY <1>2, <1>4, <1>5, <1>6 DEF Orderly
<1> QED
  BY <1>8, <1>3, <1>7

-----------------------------------------------------------------------------
(* The invariants. *)

THEOREM CacheInvariant == Spec => []IInv
<1> USE DeltaAssumption, CacheAssumption
<1>1. Init => IInv
  <2> SUFFICES ASSUME Init PROVE IInv
    OBVIOUS
  <2>1. \A s \in ScopeKeys : byScope[s] = <<>>
    BY DEF Init
  <2>2. byScope \in [ScopeKeys -> Seq(StampedEntry)]
    BY DEF Init
  <2> QED
    BY <2>1, <2>2 DEF Init, IInv, TypeOK, StampsDistinct
<1>2. IInv /\ [Next]_vars => IInv'
  <2> SUFFICES ASSUME IInv, [Next]_vars
               PROVE  IInv'
    OBVIOUS
  <2> USE DEF IInv
  <2>1. useCounter \in Nat
    BY DEF TypeOK
  <2>2. \A s \in ScopeKeys : Orderly(byScope[s], useCounter)
    BY DEF StampsDistinct, Orderly
  <2>3. ASSUME NEW s \in ScopeKeys, Tick, NEW b \in Seq(StampedEntry),
               Len(b) <= MaxEntriesPerScope, Orderly(b, useCounter + 1),
               byScope' = [byScope EXCEPT ![s] = b],
               stats' \in [Counters -> Nat], answer' \in Payloads \cup {NoAnswer}
        PROVE  IInv'
    <3>1. useCounter' = useCounter + 1 /\ useCounter' \in 0..MaxOps
      BY <2>1, <2>3 DEF Tick
    <3>2. TypeOK'
      BY <2>3, <3>1 DEF TypeOK
    <3>3. ASSUME NEW z \in ScopeKeys
          PROVE  Orderly(byScope'[z], useCounter')
      <4>1. CASE z = s
        BY <2>3, <3>1, <4>1 DEF TypeOK
      <4>2. CASE z # s
        <5>1. byScope'[z] = byScope[z] /\ byScope[z] \in Seq(StampedEntry)
          BY <2>3, <4>2 DEF TypeOK
        <5>2. \A j \in DOMAIN byScope[z] : byScope[z][j].lastUsed \in Nat
          BY <5>1, EntryOf
        <5> QED
          BY <2>1, <2>2, <3>1, <5>1, <5>2 DEF Orderly
      <4> QED
        BY <4>1, <4>2
    <3>4. StampsDistinct'
      BY <3>3 DEF StampsDistinct, Orderly
    <3> QED
      BY <3>2, <3>4
  <2>4. ASSUME NEW s \in ScopeKeys, NEW q \in Signatures, NEW k \in ResultCounts, LookupHit(s, q, k)
        PROVE  IInv'
    <3>1. PICK i : i = FirstNearest(byScope[s], q, k)
      OBVIOUS
    <3>2. byScope[s] \in Seq(StampedEntry) /\ Len(byScope[s]) <= MaxEntriesPerScope
      BY DEF TypeOK
    <3>3. i \in DOMAIN byScope[s]
      BY <2>4, <3>1, <3>2, FirstNearestNear DEF LookupHit
    <3>4. /\ Tick
          /\ byScope' = [byScope EXCEPT ![s][i].lastUsed = useCounter']
          /\ answer' = byScope[s][i].results
          /\ stats' = [stats EXCEPT !["lookups"] = @ + 1, !["hits"] = @ + 1]
      BY <2>4, <3>1 DEF LookupHit
    <3>5. byScope' = [byScope EXCEPT ![s] = [byScope[s] EXCEPT ![i].lastUsed = useCounter + 1]]
      BY <3>4 DEF Tick
    <3>6. answer' \in Payloads
      BY <3>2, <3>3, <3>4, EntryOf
    <3>7. stats' \in [Counters -> Nat]
      BY <3>4, Counting DEF TypeOK, Counters
    <3>8. PICK b : b = [byScope[s] EXCEPT ![i].lastUsed = useCounter + 1]
      OBVIOUS
    <3>9. b \in Seq(StampedEntry) /\ Len(b) <= MaxEntriesPerScope /\ Orderly(b, useCounter + 1)
      BY <2>1, <2>2, <3>2, <3>3, <3>8, StampOrderly
    <3>10. byScope' = [byScope EXCEPT ![s] = b]
      BY <3>5, <3>8
    <3> QED
      BY <2>3, <3>4, <3>6, <3>7, <3>9, <3>10
  <2>5. ASSUME NEW s \in ScopeKeys, NEW q \in Signatures, NEW k \in ResultCounts, LookupMiss(s, q, k)
        PROVE  IInv'
    <3>1. byScope' = [byScope EXCEPT ![s] = byScope[s]]
      BY <2>5 DEF LookupMiss, TypeOK
    <3>2. /\ byScope[s] \in Seq(StampedEntry)
          /\ Len(byScope[s]) <= MaxEntriesPerScope
          /\ \A j \in DOMAIN byScope[s] : byScope[s][j].lastUsed \in Nat
      BY EntryOf DEF TypeOK
    <3>3. Orderly(byScope[s], useCounter + 1)
      BY <2>1, <2>2, <3>2 DEF Orderly
    <3>4. Tick /\ answer' = NoAnswer
      BY <2>5 DEF LookupMiss
    <3>5. stats' \in [Counters -> Nat]
      BY <2>5, Counting DEF LookupMiss, TypeOK, Counters
    <3> QED
      BY <2>3, <3>1, <3>2, <3>3, <3>4, <3>5
  <2>6. ASSUME NEW s \in ScopeKeys, NEW q \in Signatures, NEW k \in ResultCounts, NEW r \in Payloads,
               Insert(s, q, k, r)
        PROVE  IInv'
    <3> DEFINE e == [query |-> q, k |-> k, results |-> r, lastUsed |-> useCounter + 1]
    <3>1. e \in StampedEntry /\ e.lastUsed = useCounter + 1
      BY <2>1 DEF StampedEntry
    <3>2. Tick /\ UNCHANGED answer
      BY <2>6 DEF Insert
    <3>3. byScope' = [byScope EXCEPT ![s] = Append(EvictWhenFull(byScope[s]), e)]
      BY <2>6, <3>2 DEF Insert, Tick
    <3>4. byScope[s] \in Seq(StampedEntry) /\ Len(byScope[s]) <= MaxEntriesPerScope
      BY DEF TypeOK
    <3>5. stats' \in [Counters -> Nat]
      BY <2>6, Counting DEF Insert, TypeOK, Counters
    <3> HIDE DEF e
    <3>6. /\ Append(EvictWhenFull(byScope[s]), e) \in Seq(StampedEntry)
          /\ Len(Append(EvictWhenFull(byScope[s]), e)) <= MaxEntriesPerScope
          /\ Orderly(Append(EvictWhenFull(byScope[s]), e), useCounter + 1)
      BY <2>1, <2>2, <3>1, <3>4, PushOrderly
    <3> QED
      BY <2>3, <3>2, <3>3, <3>5, <3>6 DEF TypeOK
  <2>7. CASE Clear
    <3>1. \A s \in ScopeKeys : byScope'[s] = <<>>
      BY <2>7 DEF Clear
    <3>2. byScope' \in [ScopeKeys -> Seq(StampedEntry)]
      BY <2>7 DEF Clear
    <3> QED
      BY <2>7, <3>1, <3>2 DEF Clear, TypeOK, StampsDistinct
  <2>8. CASE UNCHANGED vars
    BY <2>8 DEF vars, TypeOK, StampsDistinct
  <2> QED
    BY <2>4, <2>5, <2>6, <2>7, <2>8 DEF Next
<1> QED
  BY <1>1, <1>2, PTL DEF Spec

\* Shape of the state; no bucket grows past its capacity (cache.rs:121).
THEOREM TypeCorrect == Spec => []TypeOK
<1>1. IInv => TypeOK
  BY DEF IInv
<1> QED
  BY <1>1, CacheInvariant, PTL

\* The least recently used entry of a bucket is always one definite entry,
\* whatever order swap_remove left (cache.rs:121).
THEOREM StampsDistinctAlways == Spec => []StampsDistinct
<1>1. IInv => StampsDistinct
  BY DEF IInv
<1> QED
  BY <1>1, CacheInvariant, PTL

-----------------------------------------------------------------------------
(* The cache implements an LRU cache. *)

StampOrder(b) == {e \in (DOMAIN b) \X (DOMAIN b) : b[e[1]].lastUsed < b[e[2]].lastUsed}

\* An orderly bucket's stamps put its entries in a strict order.
LEMMA StampsOrder ==
  ASSUME NEW b \in Seq(StampedEntry), NEW now \in Nat, Orderly(b, now)
  PROVE  /\ IsFiniteSet(DOMAIN b) /\ Cardinality(DOMAIN b) = Len(b)
         /\ StrictOrder(DOMAIN b, StampOrder(b))
<1>1. DOMAIN b = 1..Len(b) /\ Len(b) \in Nat
  OBVIOUS
<1>2. IsFiniteSet(DOMAIN b) /\ Cardinality(DOMAIN b) = Len(b)
  <2>1. PICK n : n = Len(b)
    OBVIOUS
  <2>2. n \in Nat
    BY <1>1, <2>1
  <2>3. IsFiniteSet(1..n) /\ Cardinality(1..n) = n
    BY <2>2, FS_Interval
  <2> QED
    BY <1>1, <2>1, <2>3
<1>3. \A i \in DOMAIN b : b[i].lastUsed \in Nat
  BY EntryOf
<1>4. \A i, j \in DOMAIN b : <<i, j>> \in StampOrder(b) <=> b[i].lastUsed < b[j].lastUsed
  BY DEF StampOrder
<1>5. \A i, j \in DOMAIN b : i # j => b[i].lastUsed # b[j].lastUsed
  BY DEF Orderly
<1>6. /\ \A x \in DOMAIN b : <<x, x>> \notin StampOrder(b)
      /\ \A x, y, z \in DOMAIN b :
           <<x, y>> \in StampOrder(b) /\ <<y, z>> \in StampOrder(b) => <<x, z>> \in StampOrder(b)
      /\ \A x, y \in DOMAIN b : x # y => <<x, y>> \in StampOrder(b) \/ <<y, x>> \in StampOrder(b)
  BY <1>3, <1>4, <1>5
<1> QED
  BY Zenon, <1>2, <1>6 DEF StrictOrder

LEMMA OrderedIsInOrder ==
  ASSUME NEW b \in Seq(StampedEntry), NEW now \in Nat, Orderly(b, now), NEW p
  PROVE  OrderedBy(b, p) <=> InOrder(p, DOMAIN b, StampOrder(b))
<1>1. DOMAIN b = 1..Len(b) /\ Cardinality(DOMAIN b) = Len(b)
  BY StampsOrder
<1>2. \A i, j \in DOMAIN b : <<i, j>> \in StampOrder(b) <=> b[i].lastUsed < b[j].lastUsed
  BY DEF StampOrder
<1> QED
  BY <1>1, <1>2 DEF OrderedBy, InOrder

\* There is an order by recency.
LEMMA RecencyOrder ==
  ASSUME NEW b \in Seq(StampedEntry), NEW now \in Nat, Orderly(b, now)
  PROVE  \E p \in [DOMAIN b -> DOMAIN b] : OrderedBy(b, p)
<1>1. PICK p : p = Listing(DOMAIN b, StampOrder(b))
  OBVIOUS
<1>2. InOrder(p, DOMAIN b, StampOrder(b))
  BY <1>1, StampsOrder, ListedInOrder DEF InOrder
<1>3. OrderedBy(b, p)
  BY <1>2, OrderedIsInOrder
<1> QED
  BY <1>3 DEF OrderedBy

\* An order by recency names every entry once.
Onto(b, p) ==
  /\ \A i \in DOMAIN b : p[i] \in DOMAIN b
  /\ \A i, j \in DOMAIN b : i # j => p[i] # p[j]
  /\ \A x \in DOMAIN b : \E r \in DOMAIN b : p[r] = x

LEMMA OrderedOnto ==
  ASSUME NEW b \in Seq(StampedEntry), NEW now \in Nat, Orderly(b, now), NEW p, OrderedBy(b, p)
  PROVE  Onto(b, p)
<1>1. InOrder(p, DOMAIN b, StampOrder(b))
  BY OrderedIsInOrder
<1>2. DOMAIN b = 1..Cardinality(DOMAIN b)
  BY StampsOrder
<1>3. /\ \A i, j \in 1..Cardinality(DOMAIN b) : i # j => p[i] # p[j]
      /\ \A x \in DOMAIN b : \E r \in 1..Cardinality(DOMAIN b) : p[r] = x
  BY <1>1, StampsOrder, InOrderIsOnto
<1>4. \A i \in DOMAIN b : p[i] \in DOMAIN b
  BY DEF OrderedBy
<1> QED
  BY Zenon, <1>2, <1>3, <1>4 DEF Onto

\* It is the one that ByRecency takes.
LEMMA RecencyOf ==
  ASSUME NEW b \in Seq(StampedEntry), NEW now \in Nat, Orderly(b, now), NEW p, OrderedBy(b, p)
  PROVE  ByRecency(b) = [r \in DOMAIN b |-> Forget(b[p[r]])]
<1>1. PICK o : o = CHOOSE f \in [DOMAIN b -> DOMAIN b] : OrderedBy(b, f)
  OBVIOUS
<1>2. OrderedBy(b, o)
  BY <1>1, RecencyOrder
<1>3. InOrder(p, DOMAIN b, StampOrder(b)) /\ InOrder(o, DOMAIN b, StampOrder(b))
  BY <1>2, OrderedIsInOrder
<1>4. p = o
  BY <1>3, StampsOrder, OneOrder
<1>5. ByRecency(b) = [r \in DOMAIN b |-> Forget(b[o[r]])]
  BY <1>1 DEF ByRecency
<1> QED
  BY Zenon, <1>4, <1>5

LEMMA RecencyFacts ==
  ASSUME NEW b \in Seq(StampedEntry), NEW now \in Nat, Orderly(b, now), NEW p, OrderedBy(b, p)
  PROVE  /\ DOMAIN ByRecency(b) = 1..Len(b)
         /\ Len(ByRecency(b)) = Len(b)
         /\ \A r \in 1..Len(b) : ByRecency(b)[r] = Forget(b[p[r]])
         /\ ByRecency(b) = [r \in 1..Len(b) |-> Forget(b[p[r]])]
<1>1. ByRecency(b) = [r \in 1..Len(b) |-> Forget(b[p[r]])]
  BY RecencyOf
<1>2. Len(b) \in Nat
  OBVIOUS
<1> QED
  BY <1>1, <1>2

\* An order that fits a list gives it away.
Lists(list, b, p) ==
  /\ list = [r \in DOMAIN list |-> list[r]]
  /\ DOMAIN list = 1..Len(b)
  /\ \A r \in 1..Len(b) : list[r] = Forget(b[p[r]])

LEMMA RecencyIs ==
  ASSUME NEW b \in Seq(StampedEntry), NEW now \in Nat, Orderly(b, now), NEW p, OrderedBy(b, p),
         NEW list, Lists(list, b, p)
  PROVE  ByRecency(b) = list
<1>1. ByRecency(b) = [r \in 1..Len(b) |-> Forget(b[p[r]])]
  BY RecencyFacts
<1>2. [r \in 1..Len(b) |-> Forget(b[p[r]])] = [r \in 1..Len(b) |-> list[r]]
  BY DEF Lists
<1>3. list = [r \in 1..Len(b) |-> list[r]]
  BY Zenon DEF Lists
<1> QED
  BY Zenon, <1>1, <1>2, <1>3

\* A hit: the entry stamped anew goes last.
LEMMA StampTouches ==
  ASSUME NEW b \in Seq(StampedEntry), NEW now \in Nat, Orderly(b, now), NEW i \in DOMAIN b,
         NEW p, OrderedBy(b, p), NEW r \in DOMAIN b, p[r] = i
  PROVE  ByRecency([b EXCEPT ![i].lastUsed = now + 1]) = Touch(ByRecency(b), r)
<1>1. PICK c : c = [b EXCEPT ![i].lastUsed = now + 1]
  OBVIOUS
<1>2. PICK n : n = Len(b)
  OBVIOUS
<1>3. /\ c \in Seq(StampedEntry) /\ Len(c) = n /\ Orderly(c, now + 1)
      /\ n \in Nat /\ DOMAIN b = 1..n /\ DOMAIN c = 1..n
  <2>1. /\ [b EXCEPT ![i].lastUsed = now + 1] \in Seq(StampedEntry)
        /\ Len([b EXCEPT ![i].lastUsed = now + 1]) = Len(b)
        /\ Orderly([b EXCEPT ![i].lastUsed = now + 1], now + 1)
    BY StampOrderly
  <2>2. c \in Seq(StampedEntry) /\ Len(c) = n /\ Orderly(c, now + 1)
    BY Zenon, <1>1, <1>2, <2>1
  <2> QED
    BY <1>2, <2>2
<1>4. ASSUME NEW j \in 1..n
      PROVE  /\ c[j].lastUsed = IF j = i THEN now + 1 ELSE b[j].lastUsed
             /\ Forget(c[j]) = Forget(b[j])
             /\ b[j].lastUsed \in Nat /\ b[j].lastUsed <= now
  <2>1. b[j] \in StampedEntry
    BY <1>2, <1>3, EntryOf
  <2>2. c[j] = IF j = i THEN [b[i] EXCEPT !.lastUsed = now + 1] ELSE b[j]
    BY <1>1, <1>3
  <2>3. b[j].lastUsed <= now
    BY <1>3 DEF Orderly
  <2> QED
    BY <2>1, <2>2, <2>3 DEF StampedEntry, Forget
<1> DEFINE o == [j \in 1..n |-> IF j < r THEN p[j] ELSE IF j < n THEN p[j + 1] ELSE i]
<1>5. /\ \A j \in 1..n : p[j] \in 1..n
      /\ \A j \in 1..n : j # r => p[j] # i
      /\ \A j, m \in 1..n : j < m => b[p[j]].lastUsed < b[p[m]].lastUsed
  <2>1. Onto(b, p)
    BY OrderedOnto
  <2>2. \A j, m \in DOMAIN b : j < m => b[p[j]].lastUsed < b[p[m]].lastUsed
    BY DEF OrderedBy
  <2> QED
    BY <1>3, <2>1, <2>2 DEF Onto
<1>6. OrderedBy(c, o)
  <2>1. o \in [1..n -> 1..n]
    BY <1>3, <1>5
  <2>2. \A j \in 1..(n - 1) : /\ o[j] = p[IF j < r THEN j ELSE j + 1]
                              /\ (IF j < r THEN j ELSE j + 1) \in 1..n
                              /\ (IF j < r THEN j ELSE j + 1) # r
    BY <1>3
  <2>3. o[n] = i
    BY <1>3
  <2> HIDE DEF o
  <2>4. ASSUME NEW j \in 1..n, NEW m \in 1..n, j < m
        PROVE  c[o[j]].lastUsed < c[o[m]].lastUsed
    <3>1. PICK s : s = IF j < r THEN j ELSE j + 1
      OBVIOUS
    <3>2. j \in 1..(n - 1) /\ o[j] = p[s] /\ s \in 1..n /\ s # r
      BY <1>3, <2>2, <2>4, <3>1
    <3>3. p[s] \in 1..n /\ p[s] # i
      BY <1>5, <3>2
    <3>4. c[o[j]].lastUsed = b[p[s]].lastUsed /\ b[p[s]].lastUsed \in Nat /\ b[p[s]].lastUsed <= now
      BY <1>4, <3>2, <3>3
    <3>5. CASE m = n
      <4>1. i \in 1..n
        BY <1>3
      <4>2. c[o[m]].lastUsed = now + 1
        BY <1>4, <2>3, <3>5, <4>1
      <4> QED
        BY <3>4, <4>2
    <3>6. CASE m # n
      <4>1. PICK t : t = IF m < r THEN m ELSE m + 1
        OBVIOUS
      <4>2. m \in 1..(n - 1) /\ o[m] = p[t] /\ t \in 1..n /\ t # r
        BY <1>3, <2>2, <3>6, <4>1
      <4>3. p[t] \in 1..n /\ p[t] # i
        BY <1>5, <4>2
      <4>4. c[o[m]].lastUsed = b[p[t]].lastUsed
        BY <1>4, <4>2, <4>3
      <4>5. s < t
        BY <1>3, <2>4, <3>1, <4>1
      <4>6. b[p[s]].lastUsed < b[p[t]].lastUsed
        BY <1>5, <3>2, <4>2, <4>5
      <4> QED
        BY Zenon, <3>4, <4>4, <4>6
    <3> QED
      BY <3>5, <3>6
  <2> QED
    BY <1>3, <2>1, <2>4 DEF OrderedBy
<1>7. /\ DOMAIN ByRecency(b) = 1..n
      /\ Len(ByRecency(b)) = n
      /\ \A j \in 1..n : ByRecency(b)[j] = Forget(b[p[j]])
  BY <1>2, RecencyFacts
<1>8. PICK list : list = Touch(ByRecency(b), r)
  OBVIOUS
<1>9. /\ list = [j \in DOMAIN list |-> list[j]]
      /\ DOMAIN list = 1..n
  BY <1>7, <1>8 DEF Touch
<1>10. ASSUME NEW j \in 1..n
       PROVE  list[j] = Forget(c[o[j]])
  <2>1. list[j] = IF j < r THEN ByRecency(b)[j] ELSE IF j < n THEN ByRecency(b)[j + 1] ELSE ByRecency(b)[r]
    BY <1>7, <1>8 DEF Touch
  <2>2. r \in 1..n /\ (j < n => j + 1 \in 1..n)
    BY <1>3
  <2>3. list[j] = Forget(b[IF j < r THEN p[j] ELSE IF j < n THEN p[j + 1] ELSE p[r]])
    BY <1>7, <2>1, <2>2
  <2>4. list[j] = Forget(b[o[j]])
    BY <2>3
  <2>5. o[j] \in 1..n
    BY <1>3, <1>5, <2>2
  <2> HIDE DEF o
  <2> QED
    BY <1>4, <2>4, <2>5
<1> HIDE DEF o
<1>11. Lists(list, c, o)
  BY <1>3, <1>9, <1>10 DEF Lists
<1>12. c \in Seq(StampedEntry) /\ now + 1 \in Nat /\ Orderly(c, now + 1)
  BY <1>3
<1>13. ByRecency(c) = list
  BY <1>6, <1>11, <1>12, RecencyIs
<1> QED
  BY <1>1, <1>8, <1>13

\* A new entry goes last.
LEMMA AppendedLast ==
  ASSUME NEW b \in Seq(StampedEntry), NEW now \in Nat, Orderly(b, now),
         NEW e \in StampedEntry, e.lastUsed = now + 1, Orderly(Append(b, e), now + 1)
  PROVE  ByRecency(Append(b, e)) = Append(ByRecency(b), Forget(e))
<1>1. PICK p : OrderedBy(b, p)
  BY RecencyOrder
<1>2. PICK c, n : c = Append(b, e) /\ n = Len(b)
  OBVIOUS
<1>3. /\ n \in Nat /\ DOMAIN b = 1..n
      /\ c \in Seq(StampedEntry) /\ Len(c) = n + 1 /\ DOMAIN c = 1..(n + 1)
      /\ c[n + 1] = e /\ \A j \in 1..n : c[j] = b[j]
      /\ Orderly(c, now + 1)
  BY <1>2
<1> DEFINE o == [j \in 1..(n + 1) |-> IF j = n + 1 THEN n + 1 ELSE p[j]]
<1>4. /\ \A j \in 1..n : p[j] \in 1..n
      /\ \A j, m \in 1..n : j < m => b[p[j]].lastUsed < b[p[m]].lastUsed
  BY <1>1, <1>3 DEF OrderedBy
<1>5. \A j \in 1..n : b[j].lastUsed \in Nat /\ b[j].lastUsed <= now
  BY <1>3, EntryOf DEF Orderly
<1>6. OrderedBy(c, o)
  <2>1. o \in [1..(n + 1) -> 1..(n + 1)]
    BY <1>3, <1>4
  <2>2. o[n + 1] = n + 1 /\ \A j \in 1..n : o[j] = p[j]
    BY <1>3
  <2> HIDE DEF o
  <2>3. \A j \in 1..n : c[o[j]].lastUsed = b[p[j]].lastUsed
    BY <1>3, <1>4, <2>2
  <2>4. c[o[n + 1]].lastUsed = now + 1
    BY <1>3, <2>2
  <2>5. ASSUME NEW j \in 1..(n + 1), NEW m \in 1..(n + 1), j < m
        PROVE  c[o[j]].lastUsed < c[o[m]].lastUsed
    <3>1. j \in 1..n
      BY <1>3, <2>5
    <3>2. CASE m = n + 1
      <4>1. b[p[j]].lastUsed <= now /\ b[p[j]].lastUsed \in Nat
        BY <1>4, <1>5, <3>1
      <4> QED
        BY <2>3, <2>4, <3>1, <3>2, <4>1
    <3>3. CASE m # n + 1
      <4>1. m \in 1..n
        BY <1>3, <3>3
      <4> QED
        BY <1>4, <2>3, <2>5, <3>1, <4>1
    <3> QED
      BY <3>2, <3>3
  <2> QED
    BY <1>3, <2>1, <2>5 DEF OrderedBy
<1>7. /\ DOMAIN ByRecency(b) = 1..n
      /\ Len(ByRecency(b)) = n
      /\ \A j \in 1..n : ByRecency(b)[j] = Forget(b[p[j]])
  BY <1>1, <1>2, RecencyFacts
<1>8. PICK list : list = Append(ByRecency(b), Forget(e))
  OBVIOUS
<1>9. /\ DOMAIN list = 1..(n + 1)
      /\ list = [j \in DOMAIN list |-> list[j]]
      /\ list[n + 1] = Forget(e)
      /\ \A j \in 1..n : list[j] = Forget(b[p[j]])
  <2>1. PICK T, f : f = Forget(e) /\ T = {ByRecency(b)[j] : j \in 1..n} \cup {f}
    OBVIOUS
  <2>2. ByRecency(b) \in [1..n -> T]
    BY <1>1, <1>2, <2>1, RecencyFacts
  <2>3. ByRecency(b) \in Seq(T) /\ f \in T
    BY <1>3, <2>1, <2>2
  <2>4. list \in Seq(T) /\ Len(list) = n + 1 /\ list[n + 1] = f /\ \A j \in 1..n : list[j] = ByRecency(b)[j]
    BY <1>3, <1>7, <1>8, <2>1, <2>3
  <2>5. DOMAIN list = 1..(n + 1) /\ list = [j \in DOMAIN list |-> list[j]]
    BY <1>3, <2>4
  <2> QED
    BY <1>7, <2>1, <2>4, <2>5
<1>10. \A j \in 1..(n + 1) : list[j] = Forget(c[o[j]])
  <2>1. \A j \in 1..(n + 1) : j = n + 1 \/ j \in 1..n
    BY <1>3
  <2>2. o[n + 1] = n + 1 /\ \A j \in 1..n : o[j] = p[j]
    BY <1>3
  <2> HIDE DEF o
  <2> QED
    BY <1>3, <1>4, <1>9, <2>1, <2>2
<1> HIDE DEF o
<1>11. Lists(list, c, o)
  BY <1>3, <1>9, <1>10 DEF Lists
<1>12. ByRecency(c) = list
  BY <1>3, <1>6, <1>11, RecencyIs
<1> QED
  BY <1>2, <1>8, <1>12

\* The victim is the first in the order.
LEMMA VictimFirst ==
  ASSUME NEW b \in Seq(StampedEntry), Len(b) > 0, NEW now \in Nat, Orderly(b, now), NEW p, OrderedBy(b, p)
  PROVE  Victim(b) = p[1]
<1>1. PICK n : n = Len(b)
  OBVIOUS
<1>2. n \in Nat \ {0} /\ DOMAIN b = 1..n
  BY <1>1
<1>3. /\ \A j \in 1..n : p[j] \in 1..n
      /\ \A j, m \in 1..n : j < m => b[p[j]].lastUsed < b[p[m]].lastUsed
      /\ \A x \in 1..n : \E j \in 1..n : p[j] = x
  <2>1. Onto(b, p)
    BY OrderedOnto
  <2>2. \A j, m \in DOMAIN b : j < m => b[p[j]].lastUsed < b[p[m]].lastUsed
    BY DEF OrderedBy
  <2> QED
    BY <1>2, <2>1, <2>2 DEF Onto
<1>4. \A j \in 1..n : b[j].lastUsed \in Nat
  BY <1>2, EntryOf
<1> DEFINE oldest == {i \in DOMAIN b : \A j \in DOMAIN b : b[i].lastUsed <= b[j].lastUsed}
<1>5. p[1] \in oldest
  <2>1. p[1] \in 1..n /\ 1 \in 1..n
    BY <1>2, <1>3
  <2>2. ASSUME NEW x \in 1..n
        PROVE  b[p[1]].lastUsed <= b[x].lastUsed
    <3>1. PICK j \in 1..n : p[j] = x
      BY <1>3
    <3>2. j = 1 \/ 1 < j
      BY <1>2
    <3>3. CASE j = 1
      BY <1>4, <2>1, <3>1, <3>3
    <3>4. CASE 1 < j
      <4>1. b[p[1]].lastUsed < b[p[j]].lastUsed
        BY <1>3, <2>1, <3>4
      <4> QED
        BY <1>4, <2>1, <3>1, <4>1
    <3> QED
      BY <3>2, <3>3, <3>4
  <2> QED
    BY <1>2, <2>1, <2>2
<1>6. oldest \in SUBSET Nat
  BY <1>2
<1>7. PICK v : v = Victim(b)
  OBVIOUS
<1>8. v \in oldest
  BY <1>5, <1>6, <1>7, MinIsLeast DEF Victim
<1>9. ASSUME v # p[1]
      PROVE  FALSE
  <2>1. v \in 1..n /\ p[1] \in 1..n
    BY <1>2, <1>5, <1>8
  <2>2. b[v].lastUsed <= b[p[1]].lastUsed /\ b[p[1]].lastUsed <= b[v].lastUsed
    BY <1>2, <1>5, <1>8, <2>1
  <2>3. b[v].lastUsed # b[p[1]].lastUsed
    BY <1>2, <1>9, <2>1 DEF Orderly
  <2> QED
    BY <1>4, <2>1, <2>2, <2>3
<1> QED
  BY <1>7, <1>9

\* swap_remove of the victim takes the first away and leaves the rest in order.
LEMMA SwapRemoveIsTail ==
  ASSUME NEW b \in Seq(StampedEntry), Len(b) > 0, NEW now \in Nat, Orderly(b, now)
  PROVE  ByRecency(SwapRemove(b, Victim(b))) = Tail(ByRecency(b))
<1>1. PICK p : OrderedBy(b, p)
  BY RecencyOrder
<1>2. PICK c, n, v : c = SwapRemove(b, Victim(b)) /\ n = Len(b) /\ v = Victim(b)
  OBVIOUS
<1>3. v = p[1]
  BY <1>1, <1>2, VictimFirst
<1>4. /\ n \in Nat \ {0} /\ DOMAIN b = 1..n
      /\ c \in Seq(StampedEntry) /\ Len(c) = n - 1 /\ DOMAIN c = 1..(n - 1)
      /\ Orderly(c, now)
  BY <1>2, SwapRemoveOrderly
<1>5. /\ \A j \in 1..n : p[j] \in 1..n
      /\ \A j, m \in 1..n : j < m => b[p[j]].lastUsed < b[p[m]].lastUsed
      /\ \A j, m \in 1..n : j # m => p[j] # p[m]
  <2>1. Onto(b, p)
    BY <1>1, OrderedOnto
  <2>2. \A j, m \in DOMAIN b : j < m => b[p[j]].lastUsed < b[p[m]].lastUsed
    BY <1>1 DEF OrderedBy
  <2> QED
    BY <1>4, <2>1, <2>2 DEF Onto
<1>6. v \in 1..n /\ \A j \in 2..n : p[j] # v
  BY <1>3, <1>4, <1>5
<1>7. \A j \in 1..(n - 1) : c[j] = IF j = v THEN b[n] ELSE b[j]
  <2>1. PICK w : w = [b EXCEPT ![v] = b[n]]
    OBVIOUS
  <2>2. w \in Seq(StampedEntry) /\ Len(w) = n
    <3>1. b[n] \in StampedEntry
      BY <1>4, EntryOf
    <3> QED
      BY <1>2, <1>4, <1>6, <2>1, <3>1, ExceptSeq
  <2>3. \A j \in 1..n : w[j] = IF j = v THEN b[n] ELSE b[j]
    BY <1>4, <2>1
  <2>4. c = SubSeq(w, 1, n - 1)
    BY <1>2, <2>1, <2>2 DEF SwapRemove, Front, Last
  <2> QED
    BY <1>4, <2>2, <2>3, <2>4
<1> DEFINE o == [j \in 1..(n - 1) |-> IF p[j + 1] = n THEN v ELSE p[j + 1]]
<1>8. ASSUME NEW j \in 1..(n - 1)
      PROVE  o[j] \in 1..(n - 1) /\ c[o[j]] = b[p[j + 1]]
  <2>1. j + 1 \in 2..n /\ j + 1 \in 1..n
    BY <1>4
  <2>2. p[j + 1] \in 1..n /\ p[j + 1] # v
    BY <1>5, <1>6, <2>1
  <2>3. CASE p[j + 1] = n
    <3>1. v \in 1..(n - 1) /\ o[j] = v
      BY <1>4, <1>6, <2>2, <2>3
    <3> QED
      BY <1>7, <2>3, <3>1
  <2>4. CASE p[j + 1] # n
    <3>1. p[j + 1] \in 1..(n - 1) /\ o[j] = p[j + 1]
      BY <1>4, <2>2, <2>4
    <3> QED
      BY <1>7, <2>2, <3>1
  <2> QED
    BY <2>3, <2>4
<1>9. o \in [1..(n - 1) -> 1..(n - 1)]
  BY <1>8
<1> HIDE DEF o
<1>10. OrderedBy(c, o)
  <2>1. ASSUME NEW j \in 1..(n - 1), NEW m \in 1..(n - 1), j < m
        PROVE  c[o[j]].lastUsed < c[o[m]].lastUsed
    <3>1. j + 1 \in 1..n /\ m + 1 \in 1..n /\ j + 1 < m + 1
      BY <1>4, <2>1
    <3>2. b[p[j + 1]].lastUsed < b[p[m + 1]].lastUsed
      BY <1>5, <3>1
    <3> QED
      BY <1>8, <3>2
  <2> QED
    BY <1>4, <1>9, <2>1 DEF OrderedBy
<1>11. /\ ByRecency(b) = [j \in 1..n |-> Forget(b[p[j]])]
       /\ Len(ByRecency(b)) = n
       /\ \A j \in 1..n : ByRecency(b)[j] = Forget(b[p[j]])
  BY <1>1, <1>2, RecencyFacts
<1>12. PICK list : list = Tail(ByRecency(b))
  OBVIOUS
<1>13. /\ DOMAIN list = 1..(n - 1)
       /\ list = [j \in DOMAIN list |-> list[j]]
       /\ \A j \in 1..(n - 1) : list[j] = ByRecency(b)[j + 1]
  <2>1. PICK T : T = {ByRecency(b)[j] : j \in 1..n}
    OBVIOUS
  <2>2. ByRecency(b) \in [1..n -> T]
    BY <1>11, <2>1
  <2>3. ByRecency(b) \in Seq(T) /\ ByRecency(b) # <<>>
    BY <1>4, <1>11, <2>2
  <2>4. list \in Seq(T) /\ Len(list) = n - 1 /\ \A j \in 1..(n - 1) : list[j] = ByRecency(b)[j + 1]
    <3>1. PICK s : s = ByRecency(b)
      OBVIOUS
    <3>2. s \in Seq(T) /\ s # <<>> /\ Len(s) = n /\ list = Tail(s)
      BY <1>11, <1>12, <2>3, <3>1
    <3>3. list \in Seq(T) /\ Len(list) = n - 1 /\ \A j \in 1..(n - 1) : list[j] = s[j + 1]
      BY <3>2
    <3> QED
      BY <3>1, <3>3
  <2>5. DOMAIN list = 1..(n - 1) /\ list = [j \in DOMAIN list |-> list[j]]
    BY <1>4, <2>4
  <2> QED
    BY <2>4, <2>5
<1>14. \A j \in 1..(n - 1) : list[j] = Forget(c[o[j]])
  <2> TAKE j \in 1..(n - 1)
  <2>1. j + 1 \in 1..n
    BY <1>4
  <2>2. list[j] = Forget(b[p[j + 1]])
    BY Zenon, <1>11, <1>13, <2>1
  <2>3. c[o[j]] = b[p[j + 1]]
    BY Zenon, <1>8
  <2> QED
    BY Zenon, <2>2, <2>3
<1>15. Lists(list, c, o)
  BY <1>4, <1>13, <1>14 DEF Lists
<1>16. ByRecency(c) = list
  BY <1>4, <1>10, <1>15, RecencyIs
<1> QED
  BY <1>2, <1>12, <1>16

\* An insertion, into a full bucket or not.
LEMMA InsertPushes ==
  ASSUME NEW b \in Seq(StampedEntry), Len(b) <= MaxEntriesPerScope,
         NEW now \in Nat, Orderly(b, now),
         NEW e \in StampedEntry, e.lastUsed = now + 1
  PROVE  ByRecency(Append(EvictWhenFull(b), e)) = Push(ByRecency(b), Forget(e))
<1>1. PICK rest : rest = EvictWhenFull(b)
  OBVIOUS
<1>2. Len(ByRecency(b)) = Len(b)
  BY RecencyOrder, RecencyFacts
<1>3. /\ rest \in Seq(StampedEntry)
      /\ Orderly(rest, now)
      /\ ByRecency(rest) = IF Len(ByRecency(b)) >= MaxEntriesPerScope THEN Tail(ByRecency(b)) ELSE ByRecency(b)
  <2>1. CASE Len(b) >= MaxEntriesPerScope
    <3>1. Len(b) > 0
      BY <2>1, DeltaAssumption
    <3>2. rest = SwapRemove(b, Victim(b))
      BY <1>1, <2>1 DEF EvictWhenFull
    <3>3. rest \in Seq(StampedEntry) /\ Orderly(rest, now)
      BY <3>1, <3>2, SwapRemoveOrderly
    <3>4. ByRecency(rest) = Tail(ByRecency(b))
      BY <3>1, <3>2, SwapRemoveIsTail
    <3> QED
      BY <1>2, <2>1, <3>3, <3>4
  <2>2. CASE ~(Len(b) >= MaxEntriesPerScope)
    BY <1>1, <1>2, <2>2 DEF EvictWhenFull
  <2> QED
    BY <2>1, <2>2
<1>4. Orderly(Append(rest, e), now + 1)
  BY <1>1, PushOrderly
<1>5. ByRecency(Append(rest, e)) = Append(ByRecency(rest), Forget(e))
  BY <1>3, <1>4, AppendedLast
<1> QED
  BY <1>1, <1>3, <1>5 DEF Push

\* The same entries are near.
LEMMA NearByRecency ==
  ASSUME NEW b \in Seq(StampedEntry), NEW now \in Nat, Orderly(b, now), NEW p, OrderedBy(b, p),
         NEW q, NEW k
  PROVE  /\ Near(ByRecency(b), q, k) = {r \in DOMAIN b : p[r] \in Near(b, q, k)}
         /\ Nearest(ByRecency(b), q, k) = {r \in DOMAIN b : p[r] \in Nearest(b, q, k)}
<1>1. PICK list : list = ByRecency(b)
  OBVIOUS
<1>2. /\ DOMAIN list = DOMAIN b
      /\ \A r \in DOMAIN b : list[r].k = b[p[r]].k /\ list[r].query = b[p[r]].query
  BY <1>1, RecencyOf DEF Forget
<1>3. /\ \A r \in DOMAIN b : p[r] \in DOMAIN b
      /\ \A x \in DOMAIN b : \E r \in DOMAIN b : p[r] = x
  BY OrderedOnto DEF Onto
<1>4. Near(list, q, k) = {r \in DOMAIN b : p[r] \in Near(b, q, k)}
  BY <1>2, <1>3 DEF Near
<1>5. Near(b, q, k) \subseteq DOMAIN b
  BY DEF Near
<1>6. \A r \in DOMAIN b : p[r] \in Near(b, q, k) =>
        ((\A m \in DOMAIN b : p[m] \in Near(b, q, k) =>
            Hamming(q, b[p[r]].query) <= Hamming(q, b[p[m]].query))
         <=> \A x \in Near(b, q, k) : Hamming(q, b[p[r]].query) <= Hamming(q, b[x].query))
  BY Zenon, <1>3, <1>5
<1>7. \A r \in DOMAIN b : r \in Nearest(list, q, k) <=> p[r] \in Nearest(b, q, k)
  <2> TAKE r \in DOMAIN b
  <2>1. \A m \in DOMAIN b : list[m].query = b[p[m]].query
    BY <1>2
  <2>2. r \in Nearest(list, q, k) <=>
          /\ p[r] \in Near(b, q, k)
          /\ \A m \in DOMAIN b : p[m] \in Near(b, q, k) =>
               Hamming(q, b[p[r]].query) <= Hamming(q, b[p[m]].query)
    BY Zenon, <1>4, <2>1 DEF Nearest
  <2>3. p[r] \in Nearest(b, q, k) <=>
          /\ p[r] \in Near(b, q, k)
          /\ \A x \in Near(b, q, k) : Hamming(q, b[p[r]].query) <= Hamming(q, b[x].query)
    BY Zenon DEF Nearest
  <2> QED
    BY Zenon, <1>6, <2>2, <2>3
<1>8. Nearest(list, q, k) \subseteq DOMAIN b
  BY <1>4 DEF Nearest
<1>9. Nearest(list, q, k) = {r \in DOMAIN b : p[r] \in Nearest(b, q, k)}
  BY <1>7, <1>8
<1> QED
  BY <1>1, <1>4, <1>9

\* DeltaCacheSpec's buckets are those of DeltaBuckets.
LEMMA SameBuckets ==
  /\ \A list, q, k : LRU!Near(list, q, k) = Near(list, q, k)
  /\ \A list, q, k : LRU!Nearest(list, q, k) = Nearest(list, q, k)
  /\ \A list, i : LRU!Touch(list, i) = Touch(list, i)
  /\ \A list, e : LRU!Push(list, e) = Push(list, e)
BY DEF LRU!Near, LRU!Nearest, LRU!Touch, LRU!Push, LRU!Hamming, Near, Nearest, Touch, Push, Hamming

\* Where the cache is orderly, one bucket changing is one of LRU's changing.
LEMMA OneBucket ==
  ASSUME NEW s \in ScopeKeys, NEW c, TypeOK, byScope' = [byScope EXCEPT ![s] = c]
  PROVE  [z \in ScopeKeys |-> ByRecency(byScope'[z])]
           = [[z \in ScopeKeys |-> ByRecency(byScope[z])] EXCEPT ![s] = ByRecency(c)]
<1>1. byScope \in [ScopeKeys -> Seq(StampedEntry)]
  BY DEF TypeOK
<1>2. \A z \in ScopeKeys : byScope'[z] = IF z = s THEN c ELSE byScope[z]
  BY <1>1
<1>3. \A z \in ScopeKeys : ByRecency(byScope'[z]) = IF z = s THEN ByRecency(c) ELSE ByRecency(byScope[z])
  <2> TAKE z \in ScopeKeys
  <2>1. CASE z = s
    <3>1. byScope'[z] = c
      BY <1>2, <2>1
    <3>2. ByRecency(byScope'[z]) = ByRecency(c)
      BY Zenon, <3>1
    <3> QED
      BY <2>1, <3>2
  <2>2. CASE z # s
    <3>1. byScope'[z] = byScope[z]
      BY <1>2, <2>2
    <3>2. ByRecency(byScope'[z]) = ByRecency(byScope[z])
      BY Zenon, <3>1
    <3> QED
      BY <2>2, <3>2
  <2> QED
    BY <2>1, <2>2
<1>4. [[z \in ScopeKeys |-> ByRecency(byScope[z])] EXCEPT ![s] = ByRecency(c)]
        = [z \in ScopeKeys |-> IF z = s THEN ByRecency(c) ELSE ByRecency(byScope[z])]
  OBVIOUS
<1>5. [z \in ScopeKeys |-> ByRecency(byScope'[z])]
        = [z \in ScopeKeys |-> IF z = s THEN ByRecency(c) ELSE ByRecency(byScope[z])]
  BY Zenon, <1>3
<1> QED
  BY Zenon, <1>4, <1>5

LEMMA OrderlyBuckets ==
  ASSUME IInv, NEW s \in ScopeKeys
  PROVE  /\ byScope[s] \in Seq(StampedEntry)
         /\ Len(byScope[s]) <= MaxEntriesPerScope
         /\ useCounter \in Nat
         /\ Orderly(byScope[s], useCounter)
<1>1. byScope \in [ScopeKeys -> Seq(StampedEntry)] /\ Len(byScope[s]) <= MaxEntriesPerScope
  BY DEF IInv, TypeOK
<1>2. useCounter \in Nat
  BY CacheAssumption DEF IInv, TypeOK
<1>3. Orderly(byScope[s], useCounter)
  BY DEF IInv, StampsDistinct, Orderly
<1> QED
  BY <1>1, <1>2, <1>3

LEMMA HitImplements ==
  ASSUME IInv, NEW s \in ScopeKeys, NEW q \in Signatures, NEW k \in ResultCounts, LookupHit(s, q, k)
  PROVE  LRU!Hit(s, q, k)
<1>1. PICK b, i : b = byScope[s] /\ i = FirstNearest(b, q, k)
  OBVIOUS
<1>2. b \in Seq(StampedEntry) /\ useCounter \in Nat /\ Orderly(b, useCounter)
  BY <1>1, OrderlyBuckets
<1>3. i \in Nearest(b, q, k)
  <2>1. Near(b, q, k) # {} /\ k \in Nat
    BY <1>1, CacheAssumption DEF LookupHit
  <2> QED
    BY <1>1, <1>2, <2>1, FirstNearestNear
<1>4. i \in DOMAIN b
  BY <1>3 DEF Nearest, Near
<1>5. PICK p : OrderedBy(b, p)
  BY <1>2, RecencyOrder
<1>6. PICK r \in DOMAIN b : p[r] = i
  <2>1. Onto(b, p)
    BY <1>2, <1>5, OrderedOnto
  <2> QED
    BY <1>4, <2>1 DEF Onto
<1>7. r \in Nearest(ByRecency(b), q, k)
  BY <1>2, <1>3, <1>5, <1>6, NearByRecency
<1>8. ByRecency(b)[r].results = b[i].results
  BY <1>2, <1>5, <1>6, RecencyOf DEF Forget
<1>9. answer' = b[i].results /\ useCounter' = useCounter + 1
      /\ byScope' = [byScope EXCEPT ![s][i].lastUsed = useCounter']
  BY <1>1 DEF LookupHit, Tick
<1>10. PICK c : c = [b EXCEPT ![i].lastUsed = useCounter + 1]
  OBVIOUS
<1>11. byScope' = [byScope EXCEPT ![s] = c]
  BY <1>1, <1>9, <1>10
<1>12. ByRecency(c) = Touch(ByRecency(b), r)
  <2>1. ByRecency([b EXCEPT ![i].lastUsed = useCounter + 1]) = Touch(ByRecency(b), r)
    BY <1>2, <1>4, <1>5, <1>6, StampTouches
  <2> QED
    BY Zenon, <1>10, <2>1
<1>13. [z \in ScopeKeys |-> ByRecency(byScope'[z])]
         = [[z \in ScopeKeys |-> ByRecency(byScope[z])] EXCEPT ![s] = Touch(ByRecency(b), r)]
  BY <1>11, <1>12, OneBucket DEF IInv
<1>14. [z \in ScopeKeys |-> ByRecency(byScope[z])][s] = ByRecency(b)
  BY <1>1
<1>15. LRU!Nearest(ByRecency(b), q, k) = Nearest(ByRecency(b), q, k)
       /\ LRU!Touch(ByRecency(b), r) = Touch(ByRecency(b), r)
  BY SameBuckets
<1>16. [z \in ScopeKeys |-> ByRecency(byScope'[z])]
         = [[z \in ScopeKeys |-> ByRecency(byScope[z])] EXCEPT ![s] = LRU!Touch(@, r)]
  BY <1>13, <1>14, <1>15
<1>17. /\ r \in LRU!Nearest([z \in ScopeKeys |-> ByRecency(byScope[z])][s], q, k)
       /\ answer' = [z \in ScopeKeys |-> ByRecency(byScope[z])][s][r].results
  BY Zenon, <1>7, <1>8, <1>9, <1>14, <1>15
<1> QED
  BY Zenon, <1>16, <1>17 DEF LRU!Hit

LEMMA MissImplements ==
  ASSUME IInv, NEW s \in ScopeKeys, NEW q \in Signatures, NEW k \in ResultCounts, LookupMiss(s, q, k)
  PROVE  LRU!Miss(s, q, k)
<1>1. PICK b : b = byScope[s]
  OBVIOUS
<1>2. b \in Seq(StampedEntry) /\ useCounter \in Nat /\ Orderly(b, useCounter)
  BY <1>1, OrderlyBuckets
<1>3. PICK p : OrderedBy(b, p)
  BY <1>2, RecencyOrder
<1>4. Near(b, q, k) = {} /\ answer' = NoAnswer /\ UNCHANGED byScope
  BY <1>1 DEF LookupMiss
<1>5. Near(ByRecency(b), q, k) = {}
  BY <1>2, <1>3, <1>4, NearByRecency
<1>6. LRU!Near([z \in ScopeKeys |-> ByRecency(byScope[z])][s], q, k) = {}
  BY <1>1, <1>5, SameBuckets
<1> QED
  BY <1>4, <1>6 DEF LRU!Miss

LEMMA InsertImplements ==
  ASSUME IInv, NEW s \in ScopeKeys, NEW q \in Signatures, NEW k \in ResultCounts, NEW x \in Payloads,
         Insert(s, q, k, x)
  PROVE  LRU!Insert(s, q, k, x)
<1>1. PICK b, e : /\ b = byScope[s]
                  /\ e = [query |-> q, k |-> k, results |-> x, lastUsed |-> useCounter + 1]
  OBVIOUS
<1>2. /\ b \in Seq(StampedEntry) /\ Len(b) <= MaxEntriesPerScope
      /\ useCounter \in Nat /\ Orderly(b, useCounter)
  BY <1>1, OrderlyBuckets
<1>3. /\ e \in StampedEntry /\ e.lastUsed = useCounter + 1
      /\ Forget(e) = [query |-> q, k |-> k, results |-> x]
  BY <1>1, <1>2 DEF StampedEntry, Forget
<1>4. /\ useCounter' = useCounter + 1 /\ UNCHANGED answer
      /\ byScope' = [byScope EXCEPT ![s] =
           Append(EvictWhenFull(@), [query |-> q, k |-> k, results |-> x, lastUsed |-> useCounter'])]
  BY DEF Insert, Tick
<1>5. byScope' = [byScope EXCEPT ![s] = Append(EvictWhenFull(b), e)]
  BY <1>1, <1>4
<1>6. ByRecency(Append(EvictWhenFull(b), e)) = Push(ByRecency(b), Forget(e))
  BY <1>2, <1>3, InsertPushes
<1>7. [z \in ScopeKeys |-> ByRecency(byScope'[z])]
        = [[z \in ScopeKeys |-> ByRecency(byScope[z])] EXCEPT ![s] = Push(ByRecency(b), Forget(e))]
  BY <1>5, <1>6, OneBucket DEF IInv
<1>8. [z \in ScopeKeys |-> ByRecency(byScope[z])][s] = ByRecency(b)
  BY <1>1
<1>9. LRU!Push(ByRecency(b), Forget(e)) = Push(ByRecency(b), Forget(e))
  BY SameBuckets
<1> QED
  BY <1>3, <1>4, <1>7, <1>8, <1>9 DEF LRU!Insert

LEMMA EmptyByRecency == ByRecency(<<>>) = <<>>
BY DEF ByRecency

\* The stamped vectors with their swap_remove are an LRU cache: a lookup
\* touches the entry it answers with, and an insertion into a full bucket gives
\* up the least recently used one and no other (cache.rs:111-146).
THEOREM ImplementsLRUCache == Spec => ImplementsLRU
<1>1. Init => LRU!Init
  BY EmptyByRecency DEF Init, LRU!Init
<1>2. IInv /\ [Next]_vars => [LRU!Next]_(LRU!vars)
  <2> SUFFICES ASSUME IInv, [Next]_vars
               PROVE  [LRU!Next]_(LRU!vars)
    OBVIOUS
  <2>1. ASSUME NEW s \in ScopeKeys, NEW q \in Signatures, NEW k \in ResultCounts, LookupHit(s, q, k)
        PROVE  LRU!Next
    BY <2>1, HitImplements DEF LRU!Next
  <2>2. ASSUME NEW s \in ScopeKeys, NEW q \in Signatures, NEW k \in ResultCounts, LookupMiss(s, q, k)
        PROVE  LRU!Next
    BY <2>2, MissImplements DEF LRU!Next
  <2>3. ASSUME NEW s \in ScopeKeys, NEW q \in Signatures, NEW k \in ResultCounts, NEW r \in Payloads,
               Insert(s, q, k, r)
        PROVE  LRU!Next
    BY <2>3, InsertImplements DEF LRU!Next
  <2>4. CASE Clear
    <3>1. [s \in ScopeKeys |-> ByRecency(byScope'[s])] = [s \in ScopeKeys |-> <<>>]
      BY <2>4, EmptyByRecency DEF Clear
    <3> QED
      BY <2>4, <3>1 DEF Clear, LRU!Clear, LRU!Next
  <2>5. CASE UNCHANGED vars
    BY <2>5 DEF vars, LRU!vars
  <2> QED
    BY <2>1, <2>2, <2>3, <2>4, <2>5 DEF Next
<1> QED
  BY <1>1, <1>2, CacheInvariant, PTL DEF Spec, ImplementsLRU, LRU!Spec

-----------------------------------------------------------------------------
(* The prefetchers' finals. *)

\* A scan that found as many as it was asked for is a scan for that many.
LEMMA FullScan ==
  ASSUME NEW s, NEW scope, NEW k \in Nat, NEW r \in ScanTopK(s, scope, k)
  PROVE  r \in ScanTopK(s, scope, Len(r))
<1> DEFINE found == scope \cap Docs
<1>1. IsFiniteSet(found)
  <2>1. Len(Corpus) \in Nat
    BY IndexAssumption
  <2>2. IsFiniteSet(Docs)
    BY <2>1, FS_Interval DEF Docs
  <2> QED
    BY <2>2, FS_Subset
<1>2. Cardinality(found) \in Nat
  BY <1>1, FS_CardinalityType
<1> HIDE DEF found
<1>3. PICK S \in NearestSets(s, found, k) : \E p \in Rankings(s, S) : r = HitsOf(s, p)
  BY DEF ScanTopK, found
<1> PICK p \in Rankings(s, S) : r = HitsOf(s, p)
  BY <1>3
<1>4. Cardinality(S) = AtMost(k, Cardinality(found))
  BY <1>3 DEF NearestSets, kSubset
<1>5. PICK c, n : c = Cardinality(S) /\ n = Cardinality(found)
  OBVIOUS
<1>6. c \in Nat /\ n \in Nat /\ c = AtMost(k, n)
  BY <1>2, <1>4, <1>5 DEF AtMost
<1>7. DOMAIN p = 1..c
  BY <1>3, <1>5 DEF Rankings
<1>8. DOMAIN r = 1..c
  BY <1>3, <1>7 DEF HitsOf
<1>9. Len(r) = c
  <2>1. PICK T : T = {r[i] : i \in 1..c}
    OBVIOUS
  <2>2. r \in [1..c -> T]
    BY <1>3, <1>7, <2>1 DEF HitsOf
  <2> QED
    BY <1>6, <2>2
<1>10. AtMost(c, n) = c
  BY <1>6 DEF AtMost
<1>11. S \in NearestSets(s, found, c)
  BY <1>3, <1>4, <1>5, <1>6, <1>10 DEF NearestSets, kSubset
<1> QED
  BY <1>3, <1>9, <1>11 DEF ScanTopK, found

\* A bucket's entries stay of their kind.
LEMMA TouchInSeq ==
  ASSUME NEW T, NEW b \in Seq(T), NEW i \in DOMAIN b
  PROVE  Touch(b, i) \in Seq(T)
<1>1. DOMAIN b = 1..Len(b) /\ Len(b) \in Nat /\ \A j \in 1..Len(b) : b[j] \in T
  OBVIOUS
<1>2. Touch(b, i) \in [1..Len(b) -> T]
  BY <1>1 DEF Touch
<1> QED
  BY <1>1, <1>2

LEMMA PushInSeq ==
  ASSUME NEW T, NEW b \in Seq(T), NEW e \in T
  PROVE  Push(b, e) \in Seq(T)
<1>1. CASE Len(b) >= MaxEntriesPerScope
  BY <1>1, DeltaAssumption DEF Push
<1>2. CASE ~(Len(b) >= MaxEntriesPerScope)
  BY <1>2 DEF Push
<1> QED
  BY <1>1, <1>2

\* What may be kept for one set of events: answers over its documents.
AnswersUnder(events) ==
  UNION {{[query |-> q, k |-> k, results |-> r] : r \in ScanTopK(q, UnionScope(events), k)} :
           q \in Signatures, k \in TopKs}

\* What may be kept under a hash that was in force with any of these sets.
AnswerEntries(scopes) == UNION {AnswersUnder(events) : events \in scopes}

BucketsHonest == \A h \in DOMAIN delta : delta[h] \in Seq(AnswerEntries(Under(h)))

\* The draft answers a query within the tolerance of the partial it stands for.
DraftHonest ==
  draft # NoResults =>
    /\ draftSig \in Signatures
    /\ \E s \in Signatures, k \in TopKs, events \in draftScopes :
         /\ Hamming(s, draftSig) <= DeltaTolerance
         /\ draft \in ScanTopK(s, UnionScope(events), k)

PrefetchInv ==
  /\ <<hash, staged>> \in inForce
  /\ BucketsHonest
  /\ DraftHonest
  /\ FinalsHonest

LEMMA AnswerEntryFacts ==
  ASSUME NEW scopes, NEW e \in AnswerEntries(scopes)
  PROVE  /\ e.query \in Signatures
         /\ e.k \in TopKs
         /\ \E events \in scopes : e.results \in ScanTopK(e.query, UnionScope(events), e.k)
<1>1. PICK events \in scopes : e \in AnswersUnder(events)
  BY DEF AnswerEntries
<1> QED
  BY <1>1 DEF AnswersUnder

LEMMA AnswerIsEntry ==
  ASSUME NEW scopes, NEW events \in scopes, NEW q \in Signatures, NEW k \in TopKs,
         NEW r \in ScanTopK(q, UnionScope(events), k)
  PROVE  [query |-> q, k |-> k, results |-> r] \in AnswerEntries(scopes)
<1> DEFINE kept(s, n) == {[query |-> s, k |-> n, results |-> x] : x \in ScanTopK(s, UnionScope(events), n)}
<1>1. [query |-> q, k |-> k, results |-> r] \in kept(q, k)
  OBVIOUS
<1>2. AnswersUnder(events) = UNION {kept(s, n) : s \in Signatures, n \in TopKs}
  BY DEF AnswersUnder
<1> HIDE DEF kept
<1>3. [query |-> q, k |-> k, results |-> r] \in AnswersUnder(events)
  BY <1>1, <1>2
<1> QED
  BY <1>3 DEF AnswerEntries

\* More sets in force, more that may be kept.
LEMMA EntriesGrow ==
  ASSUME NEW A, NEW B, A \subseteq B
  PROVE  Seq(AnswerEntries(A)) \subseteq Seq(AnswerEntries(B))
<1>1. AnswerEntries(A) \subseteq AnswerEntries(B)
  BY Zenon DEF AnswerEntries
<1>2. PICK X, Y : X = AnswerEntries(A) /\ Y = AnswerEntries(B)
  OBVIOUS
<1>3. \A b \in Seq(X) : b \in Seq(Y)
  BY <1>1, <1>2
<1> QED
  BY <1>2, <1>3

\* What is staged was staged under the hash in force.
LEMMA StagedInForce ==
  ASSUME PrefetchInv
  PROVE  staged \in Under(hash)
BY DEF PrefetchInv, Under

\* The bucket of the hash belongs to what was staged under it.
LEMMA CurrentBucket ==
  ASSUME PrefetchInv
  PROVE  Bucket \in Seq(AnswerEntries(Under(hash)))
BY DEF PrefetchInv, BucketsHonest, Bucket, At

LEMMA BucketReplaced ==
  ASSUME PrefetchInv, NEW b \in Seq(AnswerEntries(Under(hash))), delta' = Put(delta, hash, b),
         inForce' = inForce
  PROVE  BucketsHonest'
<1>1. DOMAIN delta' = DOMAIN delta \cup {hash}
  BY DEF Put
<1>2. \A h \in DOMAIN delta' : delta'[h] = IF h = hash THEN b ELSE delta[h]
  BY DEF Put
<1>3. \A h \in DOMAIN delta' : delta'[h] \in Seq(AnswerEntries(Under(h)))
  BY <1>1, <1>2 DEF PrefetchInv, BucketsHonest
<1>4. ASSUME NEW h
      PROVE  Under(h)' = Under(h)
  BY DEF Under
<1> QED
  BY <1>3, <1>4 DEF BucketsHonest

LEMMA BucketsKept ==
  ASSUME PrefetchInv, delta' = delta, inForce' = inForce
  PROVE  BucketsHonest'
<1>1. ASSUME NEW h
      PROVE  Under(h)' = Under(h)
  BY DEF Under
<1> QED
  BY <1>1 DEF PrefetchInv, BucketsHonest

LEMMA StoredHonest ==
  ASSUME PrefetchInv, NEW q \in Signatures, NEW k \in TopKs,
         NEW r \in ScanTopK(q, StagedScope, k), Stored(q, k, r), inForce' = inForce
  PROVE  BucketsHonest'
<1>1. CASE ~hasDelta
  <2>1. delta' = delta
    BY <1>1 DEF Stored
  <2> QED
    BY <2>1, BucketsKept
<1>2. CASE hasDelta
  <2>1. PICK e : e = [query |-> q, k |-> k, results |-> r]
    OBVIOUS
  <2>2. e \in AnswerEntries(Under(hash))
    BY <2>1, StagedInForce, AnswerIsEntry DEF StagedScope
  <2>3. Push(Bucket, e) \in Seq(AnswerEntries(Under(hash)))
    BY <2>2, CurrentBucket, PushInSeq
  <2>4. delta' = Put(delta, hash, Push(Bucket, e))
    BY <1>2, <2>1 DEF Stored
  <2> QED
    BY <2>3, <2>4, BucketReplaced
<1> QED
  BY <1>1, <1>2

\* An entry that answers was scanned for a query within the tolerance.
LEMMA DeltaAnswersHonest ==
  ASSUME PrefetchInv, NEW q \in Signatures, NEW k \in TopKs, NEW r, DeltaAnswers(q, k, r),
         inForce' = inForce
  PROVE  /\ BucketsHonest'
         /\ \E s \in Signatures, events \in Under(hash) :
              /\ Hamming(s, q) <= DeltaTolerance
              /\ r \in ScanTopK(s, UnionScope(events), k)
<1>1. PICK i \in Nearest(Bucket, q, k) : /\ r = Bucket[i].results
                                         /\ delta' = Put(delta, hash, Touch(Bucket, i))
  BY DEF DeltaAnswers
<1>2. i \in DOMAIN Bucket /\ Bucket[i].k = k /\ Hamming(q, Bucket[i].query) <= DeltaTolerance
  BY DEF Nearest, Near
<1>3. Bucket \in Seq(AnswerEntries(Under(hash)))
  BY CurrentBucket
<1>4. Bucket[i] \in AnswerEntries(Under(hash))
  BY <1>2, <1>3, ElementOfSeq
<1>5. PICK s : s = Bucket[i].query
  OBVIOUS
<1>6. s \in Signatures /\ \E events \in Under(hash) : r \in ScanTopK(s, UnionScope(events), k)
  BY <1>1, <1>2, <1>4, <1>5, AnswerEntryFacts
<1>7. Hamming(s, q) <= DeltaTolerance
  BY <1>2, <1>5, <1>6, Triangle
<1>8. Touch(Bucket, i) \in Seq(AnswerEntries(Under(hash)))
  BY <1>2, <1>3, TouchInSeq
<1>9. BucketsHonest'
  BY <1>1, <1>8, BucketReplaced
<1> QED
  BY <1>6, <1>7, <1>9

\* What a partial drafts.
LEMMA DraftIsHonest ==
  ASSUME NEW p \in Signatures, NEW k \in TopKs, NEW s \in Signatures, NEW r,
         NEW scopes, NEW events \in scopes,
         Hamming(s, p) <= DeltaTolerance, r \in ScanTopK(s, UnionScope(events), k),
         Draft(p, r, scopes)
  PROVE  DraftHonest'
<1>1. draft' = r /\ draftSig' = p /\ draftScopes' = scopes
  BY DEF Draft
<1>2. Hamming(s, draftSig') <= DeltaTolerance /\ draft' \in ScanTopK(s, UnionScope(events), k)
  BY <1>1
<1>3. draftSig' \in Signatures /\ events \in draftScopes'
  BY <1>1
<1> QED
  BY <1>2, <1>3 DEF DraftHonest

LEMMA ReplyIsHonest ==
  ASSUME NEW kind, NEW q \in Signatures, NEW k \in TopKs, NEW r, NEW scopes, NEW events \in scopes,
         NEW s \in Signatures,
         Answer(kind, q, k, r, scopes),
         Hamming(s, q) <= Reach(kind),
         r \in ScanTopK(s, IF kind = "cold" THEN Docs ELSE UnionScope(events), k)
  PROVE  FinalsHonest'
<1>1. /\ reply'.kind = kind /\ reply'.query = q /\ reply'.k = k
      /\ reply'.results = r /\ reply'.scopes = scopes
  BY DEF Answer
<1>2. /\ Hamming(s, reply'.query) <= Reach(reply'.kind)
      /\ reply'.results \in
           ScanTopK(s, IF reply'.kind = "cold" THEN Docs ELSE UnionScope(events), reply'.k)
  BY <1>1
<1>3. events \in reply'.scopes
  BY <1>1
<1> QED
  BY <1>2, <1>3 DEF FinalsHonest, ScanOfOne

LEMMA ScannedReplyHonest ==
  ASSUME NEW kind \in {"cold", "hit", "miss", "scan"}, NEW q \in Signatures, NEW k \in TopKs, NEW events,
         NEW r \in ScanTopK(q, IF kind = "cold" THEN Docs ELSE UnionScope(events), k),
         Answer(kind, q, k, r, {events})
  PROVE  FinalsHonest'
<1>1. Reach(kind) = 0
  BY DEF Reach
<1>2. Hamming(q, q) <= Reach(kind)
  BY <1>1, Triangle
<1> QED
  BY <1>2, ReplyIsHonest

LEMMA PartialHonest ==
  ASSUME PrefetchInv, NEW p \in Signatures, NEW k \in TopKs, OnPartial(p, k)
  PROVE  BucketsHonest' /\ DraftHonest'
<1>0. inForce' = inForce
  BY DEF OnPartial
<1>1. CASE PartialSuppressed(p)
  <2>1. UNCHANGED streamVars
    BY <1>1 DEF PartialSuppressed
  <2>2. BucketsHonest'
    BY <1>0, <2>1, BucketsKept DEF streamVars
  <2> QED
    BY <2>1, <2>2 DEF streamVars, PrefetchInv, DraftHonest
<1>2. CASE PartialFromDelta(p, k)
  <2>1. PICK r : DeltaAnswers(p, k, r) /\ Draft(p, r, Under(hash))
    BY <1>2 DEF PartialFromDelta
  <2>2. PICK s \in Signatures, events \in Under(hash) :
          Hamming(s, p) <= DeltaTolerance /\ r \in ScanTopK(s, UnionScope(events), k)
    BY <1>0, <2>1, DeltaAnswersHonest
  <2>3. BucketsHonest'
    BY <1>0, <2>1, DeltaAnswersHonest
  <2>4. DraftHonest'
    BY <2>1, <2>2, DraftIsHonest
  <2> QED
    BY <2>3, <2>4
<1>3. CASE PartialScanned(p, k)
  <2>1. PICK r \in ScanTopK(p, StagedScope, k) : Stored(p, k, r) /\ Draft(p, r, {staged})
    BY <1>3 DEF PartialScanned
  <2>2. Hamming(p, p) <= DeltaTolerance
    BY Triangle, DeltaAssumption
  <2>3. BucketsHonest'
    BY <1>0, <2>1, StoredHonest
  <2>4. r \in ScanTopK(p, UnionScope(staged), k)
    BY DEF StagedScope
  <2>5. DraftHonest'
    BY <2>1, <2>2, <2>4, DraftIsHonest
  <2> QED
    BY <2>3, <2>5
<1> QED
  BY <1>1, <1>2, <1>3 DEF OnPartial

LEMMA FinalHonest ==
  ASSUME PrefetchInv, NEW q \in Signatures, NEW k \in TopKs, OnFinal(q, k)
  PROVE  BucketsHonest' /\ FinalsHonest'
<1>0. inForce' = inForce
  BY DEF OnFinal
<1>1. CASE FinalFromDraft(q, k)
  <2>1. DraftServes(q, k) /\ Answer("speculative", q, k, draft, draftScopes) /\ UNCHANGED delta
    BY <1>1 DEF FinalFromDraft
  <2>2. draft # NoResults /\ Hamming(draftSig, q) <= AcceptDrift /\ Len(draft) = k
    BY <2>1 DEF DraftServes
  <2>3. draftSig \in Signatures
    BY <2>2 DEF PrefetchInv, DraftHonest
  <2>4. PICK s \in Signatures, n \in TopKs, events \in draftScopes :
          /\ Hamming(s, draftSig) <= DeltaTolerance
          /\ draft \in ScanTopK(s, UnionScope(events), n)
    BY <2>2 DEF PrefetchInv, DraftHonest
  <2>5. draft \in ScanTopK(s, UnionScope(events), k)
    <3>1. n \in Nat
      BY IndexAssumption
    <3> QED
      BY <2>2, <2>4, <3>1, FullScan
  <2>6. Hamming(s, q) <= AcceptDrift + DeltaTolerance
    <3>1. PICK a, b, c : a = Hamming(s, draftSig) /\ b = Hamming(draftSig, q) /\ c = Hamming(s, q)
      OBVIOUS
    <3>2. a \in Nat /\ b \in Nat /\ c \in Nat /\ c <= a + b
      BY <2>3, <3>1, Triangle
    <3>3. a <= DeltaTolerance /\ b <= AcceptDrift
      BY <2>2, <2>4, <3>1
    <3>4. c <= AcceptDrift + DeltaTolerance
      BY <3>2, <3>3, DeltaAssumption, PrefetchAssumption
    <3> QED
      BY <3>1, <3>4
  <2>7. Hamming(s, q) <= Reach("speculative")
    BY <2>6 DEF Reach
  <2>8. FinalsHonest'
    BY <2>1, <2>5, <2>7, ReplyIsHonest
  <2> QED
    BY <1>0, <2>1, <2>8, BucketsKept
<1>2. CASE FinalFromDelta(q, k)
  <2>1. PICK r : DeltaAnswers(q, k, r) /\ Answer("delta", q, k, r, Under(hash))
    BY <1>2 DEF FinalFromDelta
  <2>2. PICK s \in Signatures, events \in Under(hash) :
          Hamming(s, q) <= DeltaTolerance /\ r \in ScanTopK(s, UnionScope(events), k)
    BY <1>0, <2>1, DeltaAnswersHonest
  <2>3. Hamming(s, q) <= Reach("delta")
    BY <2>2 DEF Reach
  <2>4. FinalsHonest'
    BY <2>1, <2>2, <2>3, ReplyIsHonest
  <2> QED
    BY <1>0, <2>1, <2>4, DeltaAnswersHonest
<1>3. CASE FinalScanned(q, k)
  <2>1. PICK r \in ScanTopK(q, StagedScope, k) : Stored(q, k, r) /\ Answer("scan", q, k, r, {staged})
    BY <1>3 DEF FinalScanned
  <2>2. r \in ScanTopK(q, UnionScope(staged), k)
    BY DEF StagedScope
  <2>3. FinalsHonest'
    BY <2>1, <2>2, ScannedReplyHonest
  <2> QED
    BY <1>0, <2>1, <2>3, StoredHonest
<1> QED
  BY <1>1, <1>2, <1>3 DEF OnFinal

LEMMA QueryHonest ==
  ASSUME NEW q \in Signatures, NEW k \in TopKs, Query(q, k)
  PROVE  FinalsHonest'
<1>1. CASE QueryCold(q, k)
  <2>1. PICK r \in ScanTopK(q, Docs, k) : Answer("cold", q, k, r, {{}})
    BY <1>1 DEF QueryCold
  <2> QED
    BY <2>1, ScannedReplyHonest
<1>2. CASE QueryWarm(q, k)
  <2>1. PICK r \in ScanTopK(q, StagedScope, k), kind \in {"hit", "miss"} : Answer(kind, q, k, r, {staged})
    BY <1>2 DEF QueryWarm
  <2>2. r \in ScanTopK(q, UnionScope(staged), k)
    BY DEF StagedScope
  <2> QED
    BY <2>1, <2>2, ScannedReplyHonest
<1> QED
  BY <1>1, <1>2 DEF Query

\* A prefetch, through either door, adds what it stages to what was in force.
LEMMA StagesHonest ==
  ASSUME PrefetchInv, NEW h, Stages(h)
  PROVE  PrefetchInv'
<1>1. /\ staged' = Expected /\ hash' = h /\ inForce' = inForce \cup {<<h, Expected>>}
      /\ UNCHANGED <<delta, draft, draftSig, draftScopes, reply>>
  BY DEF Stages, streamVars
<1>2. ASSUME NEW g
      PROVE  Under(g) \subseteq Under(g)'
  BY <1>1 DEF Under
<1>3. BucketsHonest'
  <2> SUFFICES ASSUME NEW g \in DOMAIN delta
               PROVE  delta[g] \in Seq(AnswerEntries(Under(g)'))
    BY <1>1 DEF BucketsHonest
  <2>1. delta[g] \in Seq(AnswerEntries(Under(g)))
    BY DEF PrefetchInv, BucketsHonest
  <2>2. PICK A, B : A = Under(g) /\ B = Under(g)'
    OBVIOUS
  <2>3. Seq(AnswerEntries(A)) \subseteq Seq(AnswerEntries(B))
    BY <1>2, <2>2, EntriesGrow
  <2> QED
    BY <2>1, <2>2, <2>3
<1>4. DraftHonest' /\ FinalsHonest'
  BY <1>1 DEF PrefetchInv, DraftHonest, FinalsHonest, ScanOfOne
<1> QED
  BY <1>1, <1>3, <1>4 DEF PrefetchInv

\* However turns, predictions, partials and finals follow each other, and
\* whether a prefetch moves the hash or not, a reply is a scan of one set of
\* events for a query within the tolerances spent on it: a draft that outlived
\* its prediction answers for the events it was scanned under, and a bucket
\* never for events its hash was not in force with (prefetch.rs:305, 372).
THEOREM FinalsHonestAlways == PrefetchSpec => []FinalsHonest
<1>1. PrefetchInit => PrefetchInv
  BY DEF PrefetchInit, CoordInit, StreamInit, PrefetchInv, BucketsHonest, DraftHonest, FinalsHonest
<1>2. PrefetchInv /\ [PrefetchNext]_prefetchVars => PrefetchInv'
  <2> SUFFICES ASSUME PrefetchInv, [PrefetchNext]_prefetchVars
               PROVE  PrefetchInv'
    OBVIOUS
  <2>0. <<hash, staged>> \in inForce /\ BucketsHonest /\ DraftHonest /\ FinalsHonest
    BY DEF PrefetchInv
  <2>1. ASSUME NEW e \in Events, Turn(e)
        PROVE  PrefetchInv'
    <3>1. UNCHANGED <<staged, hash, delta, draft, draftSig, draftScopes, reply, inForce>>
      BY <2>1 DEF Turn, streamVars
    <3>2. BucketsHonest'
      BY <3>1, BucketsKept
    <3> QED
      BY <2>0, <3>1, <3>2 DEF PrefetchInv, DraftHonest, FinalsHonest, ScanOfOne
  <2>2. CASE Stage
    BY <2>2, StagesHonest DEF Stage
  <2>3. CASE Restage
    BY <2>3, StagesHonest DEF Restage
  <2>4. CASE EndUtterance
    <3>1. draft' = NoResults /\ UNCHANGED <<staged, hash, delta, reply, inForce>>
      BY <2>4 DEF EndUtterance, coordVars
    <3>2. BucketsHonest'
      BY <3>1, BucketsKept
    <3> QED
      BY <2>0, <3>1, <3>2 DEF PrefetchInv, DraftHonest, FinalsHonest, ScanOfOne
  <2>5. ASSUME NEW q \in Signatures, NEW k \in TopKs, Query(q, k)
        PROVE  PrefetchInv'
    <3>1. UNCHANGED <<staged, hash, delta, draft, draftSig, draftScopes, inForce>>
      BY <2>5 DEF Query, coordVars, streamVars
    <3>2. BucketsHonest' /\ FinalsHonest'
      BY <2>5, <3>1, BucketsKept, QueryHonest
    <3> QED
      BY <2>0, <3>1, <3>2 DEF PrefetchInv, DraftHonest
  <2>6. ASSUME NEW q \in Signatures, NEW k \in TopKs, OnPartial(q, k)
        PROVE  PrefetchInv'
    <3>1. UNCHANGED <<staged, hash, reply, inForce>>
      BY <2>6 DEF OnPartial, coordVars
    <3>2. BucketsHonest' /\ DraftHonest'
      BY <2>6, PartialHonest
    <3> QED
      BY <2>0, <3>1, <3>2 DEF PrefetchInv, FinalsHonest, ScanOfOne
  <2>7. ASSUME NEW q \in Signatures, NEW k \in TopKs, OnFinal(q, k)
        PROVE  PrefetchInv'
    <3>1. UNCHANGED <<staged, hash, draft, draftSig, draftScopes, inForce>>
      BY <2>7 DEF OnFinal, coordVars
    <3>2. BucketsHonest' /\ FinalsHonest'
      BY <2>7, FinalHonest
    <3> QED
      BY <2>0, <3>1, <3>2 DEF PrefetchInv, DraftHonest
  <2>8. CASE UNCHANGED prefetchVars
    <3>1. UNCHANGED <<staged, hash, delta, draft, draftSig, draftScopes, reply, inForce>>
      BY <2>8 DEF prefetchVars, coordVars, streamVars
    <3>2. BucketsHonest'
      BY <3>1, BucketsKept
    <3> QED
      BY <2>0, <3>1, <3>2 DEF PrefetchInv, DraftHonest, FinalsHonest, ScanOfOne
  <2> QED
    BY <2>1, <2>2, <2>3, <2>4, <2>5, <2>6, <2>7, <2>8 DEF PrefetchNext
<1>3. PrefetchInv => FinalsHonest
  BY DEF PrefetchInv
<1> QED
  BY <1>1, <1>2, <1>3, PTL DEF PrefetchSpec

=============================================================================
