------------------------ MODULE QueryContext_proofs ------------------------
(***************************************************************************)
(* Proofs about module QueryContext, for every corpus, catalog, tolerance, *)
(* capacity and bound.                                                     *)
(*                                                                         *)
(* First come facts about the answers of module HierarchicalIndex (their   *)
(* type, their length, the distances they report and, when a prediction    *)
(* narrows the scan, their exactness), then about the buckets of module    *)
(* DeltaBuckets: a hit only reorders a bucket, an insertion adds one entry *)
(* and stays within the capacity, and neither brings two entries that      *)
(* could answer for each other together.  Another group of lemmas says     *)
(* what a step may do to each part of the state (the cache, the window,    *)
(* the utterance, the output); the invariants follow from those one at a   *)
(* time, later ones using the earlier ones.                                *)
(***************************************************************************)
EXTENDS QueryContext, OrderLemmas

-----------------------------------------------------------------------------
(* Documents of events. *)

\* The documents a set of events stands for are finitely many.
LEMMA ScopeFinite ==
  ASSUME NEW E
  PROVE  /\ IsFiniteSet(UnionScope(E))
         /\ Cardinality(UnionScope(E)) \in Nat
         /\ UnionScope(E) \in SUBSET Nat
<1>1. Len(Scopes) \in Nat /\ Scopes \in [Events -> SUBSET Nat]
  BY IndexAssumption, LenProperties DEF Events
<1>2. IsFiniteSet(Events)
  BY <1>1, FS_Interval DEF Events
<1> DEFINE Named == E \cap Events
           Parts == {Scopes[e] : e \in Named}
           part  == [e \in Named |-> Scopes[e]]
<1>3. IsFiniteSet(Named)
  BY <1>2, FS_Intersection
<1>4. part \in Surjection(Named, Parts)
  BY DEF Surjection
<1>5. IsFiniteSet(Parts)
  <2> HIDE DEF part, Parts
  <2> QED
    BY <1>3, <1>4, FS_Surjection
<1>6. \A T \in Parts : IsFiniteSet(T)
  BY IndexAssumption DEF Events
<1>7. IsFiniteSet(UnionScope(E))
  BY <1>5, <1>6, FS_UNION DEF UnionScope
<1>8. Cardinality(UnionScope(E)) \in Nat
  BY <1>7, FS_CardinalityType
<1>9. UnionScope(E) \in SUBSET Nat
  BY <1>1 DEF UnionScope
<1> QED
  BY <1>7, <1>8, <1>9

\* A document's event is an event of the catalog or none.
LEMMA DocEventType ==
  ASSUME NEW d
  PROVE  DocEvent(d) \in Events \cup {NoEvent}
<1> DEFINE owners == {e \in Events : d \in Scopes[e]}
<1>1. Len(Scopes) \in Nat
  BY IndexAssumption, LenProperties
<1>2. owners # {} => Max(owners) \in owners
  <2>1. owners \in SUBSET (0..Len(Scopes))
    BY <1>1 DEF Events
  <2> HIDE DEF owners
  <2> QED
    BY <1>1, <2>1, MaxIsGreatest
<1> QED
  BY <1>2 DEF DocEvent

\* So is the event of a result list's best hit.
LEMMA TopEventType ==
  ASSUME NEW results
  PROVE  TopEvent(results) \in Events \cup {NoEvent}
BY DocEventType DEF TopEvent

-----------------------------------------------------------------------------
(* The scans. *)

\* Corpus distances are naturals.
LEMMA DistanceToType ==
  ASSUME NEW q \in Signatures, NEW d \in Docs
  PROVE  DistanceTo(q, d) \in Nat
<1>1. <<q, Corpus[d]>> \in Signatures \X Signatures
  BY IndexAssumption, ElementOfSeq DEF Docs
<1>2. Distance[<<q, Corpus[d]>>] \in Nat
  BY <1>1, DistanceType
<1> QED
  BY Zenon, <1>2 DEF DistanceTo, Hamming

\* The corpus has finitely many documents.
LEMMA DocsFinite ==
  /\ Len(Corpus) \in Nat
  /\ IsFiniteSet(Docs)
  /\ Cardinality(Docs) \in Nat
BY IndexAssumption, LenProperties, FS_Interval, FS_CardinalityType DEF Docs

\* What may be said of a list of hits without knowing which scan made it:
\* its distances are the query's to the documents.
Exact(q, results) ==
  \A i \in DOMAIN results :
    /\ results[i].doc \in Docs
    /\ results[i].dist = DistanceTo(q, results[i].doc)

\* No document of the scope left out of the results beats one in them.
Complete(q, scope, results) ==
  \A d \in {results[i].doc : i \in DOMAIN results} :
    \A e \in (scope \cap Docs) \ {results[i].doc : i \in DOMAIN results} :
      DistanceTo(q, d) <= DistanceTo(q, e)

\* A scan returns at most k hits, each with its exact distance, and the k
\* nearest of its scope.
LEMMA ScanIsExact ==
  ASSUME NEW q \in Signatures, NEW scope, NEW k \in Nat,
         NEW r \in ScanTopK(q, scope, k)
  PROVE  /\ r \in Results
         /\ Len(r) <= k
         /\ Exact(q, r)
         /\ Complete(q, scope, r)
<1> DEFINE near == scope \cap Docs
<1>1. IsFiniteSet(near) /\ Cardinality(near) \in Nat
  BY DocsFinite, FS_Intersection, FS_CardinalityType
<1>2. PICK S \in NearestSets(q, near, k) :
        \E ranking \in Rankings(q, S) : r = HitsOf(q, ranking)
  BY Zenon DEF ScanTopK
<1> PICK ranking \in Rankings(q, S) : r = HitsOf(q, ranking)
  BY <1>2
<1>3. /\ S \in SUBSET near
      /\ Cardinality(S) = AtMost(k, Cardinality(near))
      /\ \A d \in S, e \in near \ S : DistanceTo(q, d) <= DistanceTo(q, e)
  BY <1>2, Zenon DEF NearestSets, kSubset
<1>4. Cardinality(S) \in Nat /\ Cardinality(S) <= k
  BY <1>1, <1>3 DEF AtMost
<1>5. /\ ranking \in [1..Cardinality(S) -> S]
      /\ Range(ranking) = S
  BY <1>2 DEF Rankings
<1>6. r = [i \in 1..Cardinality(S) |->
             [dist |-> DistanceTo(q, ranking[i]), doc |-> ranking[i]]]
  BY <1>2, <1>5 DEF HitsOf
<1>7. \A i \in 1..Cardinality(S) :
        ranking[i] \in Docs /\ DistanceTo(q, ranking[i]) \in Nat
  BY <1>3, <1>5, DistanceToType
<1>8. r \in [1..Cardinality(S) -> Hit]
  BY <1>6, <1>7 DEF Hit
<1>9. r \in Results /\ Len(r) <= k
  BY <1>4, <1>8, SeqDef, LenProperties DEF Results
<1>10. Exact(q, r)
  BY <1>6, <1>7 DEF Exact
<1>11. {r[i].doc : i \in DOMAIN r} = S
  BY <1>5, <1>6 DEF Range
<1>12. Complete(q, scope, r)
  BY <1>3, <1>11 DEF Complete
<1> QED
  BY <1>9, <1>10, <1>12

-----------------------------------------------------------------------------
(* The searches. *)

\* The coarse ranking cut short is still exact.
LEMMA PrefixIsExact ==
  ASSUME NEW q, NEW hits \in Results, Exact(q, hits), NEW k \in Nat
  PROVE  /\ Prefix(hits, k) \in Results
         /\ Len(Prefix(hits, k)) <= k
         /\ Exact(q, Prefix(hits, k))
<1> DEFINE n == AtMost(k, Len(hits))
<1>1. Len(hits) \in Nat /\ DOMAIN hits = 1..Len(hits)
  BY LenProperties DEF Results
<1>2. n \in Nat /\ n <= k /\ n <= Len(hits)
  BY <1>1 DEF AtMost
<1>3. \A i \in 1..n : hits[i] \in Hit
  BY <1>1, <1>2, ElementOfSeq DEF Results
<1> HIDE DEF n
<1>4. /\ SubSeq(hits, 1, n) \in Seq(Hit)
      /\ Len(SubSeq(hits, 1, n)) = n
      /\ \A i \in 1..n : SubSeq(hits, 1, n)[i] = hits[i]
  BY <1>2, <1>3, SubSeqProperties
<1>5. DOMAIN SubSeq(hits, 1, n) = 1..n
  BY <1>4, LenProperties
<1>6. Exact(q, SubSeq(hits, 1, n))
  BY <1>1, <1>2, <1>4, <1>5 DEF Exact
<1> QED
  BY <1>2, <1>4, <1>6 DEF Prefix, Results, n

\* What a caller may rely on in any search result for k of query q.
GoodResult(q, k, found) ==
  /\ found.results \in Results
  /\ Len(found.results) <= k
  /\ Exact(q, found.results)
  /\ found.scopeSize \in Nat

\* A scan of the documents of some events is good.
LEMMA ScanResultIsGood ==
  ASSUME NEW q \in Signatures, NEW k \in Nat, NEW E,
         NEW r \in ScanTopK(q, UnionScope(E), k)
  PROVE  GoodResult(q, k, SearchResult(r, Cardinality(UnionScope(E)), TRUE))
BY ScanIsExact, ScopeFinite DEF GoodResult, SearchResult

\* So is the empty answer search returns early with.
LEMMA EmptyResultIsGood ==
  ASSUME NEW q, NEW k \in Nat
  PROVE  GoodResult(q, k, SearchResult(<<>>, 0, FALSE))
<1>1. <<>> \in Results /\ Len(<<>>) = 0
  BY EmptySeq DEF Results
<1>2. Exact(q, <<>>)
  BY <1>1, LenProperties DEF Exact, Results
<1> QED
  BY <1>1, <1>2 DEF GoodResult, SearchResult

\* The hierarchical search is good on each of its three ways out.
LEMMA SearchIsGood ==
  ASSUME NEW q \in Signatures, NEW k \in Nat, NEW found \in Search(q, k)
  PROVE  GoodResult(q, k, found)
<1> DEFINE wide == AtLeast(CoarseK, k)
<1>1. wide \in Nat
  BY IndexAssumption DEF AtLeast
<1>2. CASE k = 0 \/ Corpus = <<>>
  BY <1>2, EmptyResultIsGood DEF Search
<1>3. CASE ~(k = 0 \/ Corpus = <<>>)
  <2> HIDE DEF wide
  <2>1. PICK coarse \in ScanTopK(q, Docs, wide) : found \in RescanEvents(q, k, coarse)
    BY <1>3 DEF Search, wide
  <2>2. coarse \in Results /\ Exact(q, coarse)
    BY <1>1, <2>1, ScanIsExact
  <2> DEFINE seeds == SeedEvents(coarse, k)
             narrow == Len(Scopes) <= 1 \/ UnionScope(seeds) = {}
  <2>3. CASE narrow
    <3>1. found = SearchResult(Prefix(coarse, k), Len(Corpus), FALSE)
      BY <2>1, <2>3 DEF RescanEvents
    <3> QED
      BY <2>2, <3>1, PrefixIsExact, DocsFinite DEF GoodResult, SearchResult
  <2>4. CASE ~narrow
    <3>1. PICK r \in ScanTopK(q, UnionScope(seeds), k) :
            found = SearchResult(r, Cardinality(UnionScope(seeds)), TRUE)
      BY <2>1, <2>4 DEF RescanEvents
    <3> HIDE DEF seeds
    <3> QED
      BY <3>1, ScanResultIsGood
  <2> QED
    BY <2>3, <2>4
<1> QED
  BY <1>2, <1>3

\* What a conversation gets from the index, under a prediction or without.
LEMMA ScopedSearchIsGood ==
  ASSUME NEW E, NEW q \in Signatures, NEW k \in Nat,
         NEW found \in ScopedSearch(E, q, k)
  PROVE  GoodResult(q, k, found)
BY SearchIsGood, ScanResultIsGood DEF ScopedSearch

-----------------------------------------------------------------------------
(* The answer relation. *)

\* Whatever a conversation may scan is in the relation.
LEMMA SearchAnswers ==
  ASSUME NEW E \in EventSets, NEW q \in Signatures, NEW k \in TopKs,
         NEW found \in ScopedSearch(E, q, k)
  PROVE  <<E, q, k, found.results>> \in AnswerRelation
<1>1. found.results \in Answers(E, q, k)
  BY DEF Answers
<1>2. <<E, q, k, found.results>> \in {<<E, q, k, r>> : r \in Answers(E, q, k)}
  BY <1>1
<1> DEFINE part(F, p, n) == {<<F, p, n, r>> : r \in Answers(F, p, n)}
           parts == {part(F, p, n) : F \in EventSets, p \in Signatures, n \in TopKs}
<1>3. <<E, q, k, found.results>> \in part(E, q, k)
  BY <1>2
<1>4. AnswerRelation = UNION parts
  BY DEF AnswerRelation
<1>5. part(E, q, k) \in parts
  <2> HIDE DEF part
  <2> QED
    OBVIOUS
<1> HIDE DEF part, parts
<1> QED
  BY <1>3, <1>4, <1>5

\* Every answer in the relation is a list of at most k hits with their exact
\* distances; under a prediction with documents it is the best of them.
THEOREM AnswersAreExact ==
  ASSUME NEW E, NEW q, NEW k, NEW r, <<E, q, k, r>> \in AnswerRelation
  PROVE  /\ E \in EventSets /\ q \in Signatures /\ k \in TopKs
         /\ r \in Results
         /\ Len(r) <= k
         /\ Exact(q, r)
         /\ UnionScope(E) # {} => Complete(q, UnionScope(E), r)
<1>1. /\ E \in EventSets /\ q \in Signatures /\ k \in TopKs
      /\ r \in Answers(E, q, k)
  BY DEF AnswerRelation
<1>2. k \in Nat
  BY <1>1, IndexAssumption
<1>3. PICK found \in ScopedSearch(E, q, k) : r = found.results
  BY <1>1 DEF Answers
<1>4. GoodResult(q, k, found)
  BY <1>1, <1>2, <1>3, ScopedSearchIsGood
<1>5. UnionScope(E) # {} => Complete(q, UnionScope(E), r)
  <2> SUFFICES ASSUME UnionScope(E) # {}
               PROVE  Complete(q, UnionScope(E), r)
    OBVIOUS
  <2>1. PICK s \in ScanTopK(q, UnionScope(E), k) :
          found = SearchResult(s, Cardinality(UnionScope(E)), TRUE)
    BY <1>3 DEF ScopedSearch
  <2>2. r = s
    BY <1>3, <2>1 DEF SearchResult
  <2> QED
    BY <1>1, <1>2, <2>1, <2>2, ScanIsExact
<1> QED
  BY <1>1, <1>3, <1>4, <1>5 DEF GoodResult

-----------------------------------------------------------------------------
(* What the Hamming distance being a metric means for two points. *)

\* A distance is a natural number, symmetric and zero from a point to itself.
LEMMA HammingIsMetric ==
  ASSUME NEW a \in Signatures, NEW b \in Signatures
  PROVE  /\ Hamming(a, b) \in Nat
         /\ Hamming(a, b) = Hamming(b, a)
         /\ Hamming(a, a) = 0
<1>1. Distance[a, b] \in Nat
  <2>1. <<a, b>> \in Signatures \X Signatures
    OBVIOUS
  <2>2. Distance[<<a, b>>] \in Nat
    BY <2>1, DistanceType
  <2> QED
    BY Zenon, <2>2
<1>2. Distance[a, b] = Distance[b, a] /\ Distance[a, a] = 0
  BY Zenon, DistanceIsMetric
<1> QED
  BY Zenon, <1>1, <1>2 DEF Hamming

\* Distances obey the triangle inequality.
LEMMA HammingTriangle ==
  ASSUME NEW a \in Signatures, NEW b \in Signatures, NEW c \in Signatures
  PROVE  Hamming(a, c) <= Hamming(a, b) + Hamming(b, c)
BY Zenon, DistanceIsMetric DEF Hamming

-----------------------------------------------------------------------------
(* Touch. *)

\* Where the entry at place j of a touched bucket was before.
Source(bucket, i, j) ==
  IF j < i THEN j ELSE IF j < Len(bucket) THEN j + 1 ELSE i

\* A hit permutes the bucket: no entry is lost, doubled or changed.
LEMMA TouchPermutes ==
  ASSUME NEW S, NEW bucket \in Seq(S), NEW i \in DOMAIN bucket
  PROVE  /\ Touch(bucket, i) \in Seq(S)
         /\ Len(Touch(bucket, i)) = Len(bucket)
         /\ DOMAIN Touch(bucket, i) = 1..Len(bucket)
         /\ \A j \in 1..Len(bucket) :
              /\ Source(bucket, i, j) \in 1..Len(bucket)
              /\ Touch(bucket, i)[j] = bucket[Source(bucket, i, j)]
         /\ \A j, m \in 1..Len(bucket) :
              j # m => Source(bucket, i, j) # Source(bucket, i, m)
<1> DEFINE n == Len(bucket)
<1>1. n \in Nat /\ DOMAIN bucket = 1..n /\ bucket \in [1..n -> S]
  BY LenProperties
<1> HIDE DEF n
<1>2. \A j \in 1..n :
        (IF j < i THEN j ELSE IF j < n THEN j + 1 ELSE i) \in 1..n
  BY <1>1
<1>3. Touch(bucket, i) = [j \in 1..n |-> bucket[IF j < i THEN j ELSE IF j < n THEN j + 1 ELSE i]]
  BY <1>1 DEF Touch, n
<1>4. Touch(bucket, i) \in [1..n -> S]
  BY <1>1, <1>2, <1>3
<1>5. Touch(bucket, i) \in Seq(S) /\ Len(Touch(bucket, i)) = n
  BY <1>1, <1>4, SeqDef, LenProperties
<1>6. \A j, m \in 1..n :
        j # m => (IF j < i THEN j ELSE IF j < n THEN j + 1 ELSE i)
                 # (IF m < i THEN m ELSE IF m < n THEN m + 1 ELSE i)
  BY <1>1
<1> QED
  BY <1>2, <1>3, <1>4, <1>5, <1>6 DEF Source, n

-----------------------------------------------------------------------------
(* Push. *)

\* How many entries an insertion gives up.
Dropped(bucket) == IF Len(bucket) >= MaxEntriesPerScope THEN 1 ELSE 0

\* An insertion keeps all entries, or all but the oldest, and appends one;
\* the bucket stays within its capacity.
LEMMA PushAdds ==
  ASSUME NEW S, NEW bucket \in Seq(S), NEW e \in S,
         Len(bucket) <= MaxEntriesPerScope
  PROVE  LET kept == Len(bucket) - Dropped(bucket)
         IN  /\ Push(bucket, e) \in Seq(S)
             /\ kept \in Nat
             /\ Len(Push(bucket, e)) = kept + 1
             /\ Len(Push(bucket, e)) <= MaxEntriesPerScope
             /\ DOMAIN Push(bucket, e) = 1..(kept + 1)
             /\ \A j \in 1..kept :
                  /\ j + Dropped(bucket) \in 1..Len(bucket)
                  /\ Push(bucket, e)[j] = bucket[j + Dropped(bucket)]
             /\ Push(bucket, e)[kept + 1] = e
<1> DEFINE old  == IF Len(bucket) >= MaxEntriesPerScope THEN Tail(bucket) ELSE bucket
           kept == Len(bucket) - Dropped(bucket)
<1>1. Len(bucket) \in Nat /\ (Len(bucket) = 0 <=> bucket = <<>>)
  BY LenProperties, EmptySeq
<1>2. /\ old \in Seq(S)
      /\ Len(old) = kept
      /\ \A j \in 1..kept : old[j] = bucket[j + Dropped(bucket)]
  <2>1. CASE Len(bucket) >= MaxEntriesPerScope
    <3>1. bucket # <<>>
      BY <1>1, <2>1, DeltaAssumption
    <3> QED
      BY <1>1, <2>1, <3>1, HeadTailProperties DEF Dropped
  <2>2. CASE ~(Len(bucket) >= MaxEntriesPerScope)
    BY <1>1, <2>2 DEF Dropped
  <2> QED
    BY <2>1, <2>2
<1>3. /\ kept \in Nat
      /\ kept < MaxEntriesPerScope
      /\ \A j \in 1..kept : j + Dropped(bucket) \in 1..Len(bucket)
  BY <1>1, DeltaAssumption DEF Dropped
<1>4. Push(bucket, e) = Append(old, e)
  BY DEF Push
<1> HIDE DEF old, kept
<1>5. /\ Append(old, e) \in Seq(S)
      /\ Len(Append(old, e)) = kept + 1
      /\ \A j \in 1..kept : Append(old, e)[j] = old[j]
      /\ Append(old, e)[kept + 1] = e
  <2>1. /\ Append(old, e) \in Seq(S)
        /\ Len(Append(old, e)) = Len(old) + 1
        /\ \A j \in 1..Len(old) : Append(old, e)[j] = old[j]
        /\ Append(old, e)[Len(old) + 1] = e
    BY <1>2, AppendProperties
  <2> QED
    BY <1>2, <2>1
<1>6. DOMAIN Append(old, e) = 1..(kept + 1)
  BY <1>5, LenProperties
<1> QED
  BY <1>2, <1>3, <1>4, <1>5, <1>6, DeltaAssumption DEF kept

-----------------------------------------------------------------------------
(* Entries apart. *)

\* No two entries of the bucket could answer for each other.
Apart(bucket) ==
  \A i, j \in DOMAIN bucket :
    (i # j /\ bucket[i].k = bucket[j].k) =>
      Hamming(bucket[i].query, bucket[j].query) > DeltaTolerance

\* Reordering brings no entries together.
LEMMA TouchKeepsApart ==
  ASSUME NEW S, NEW bucket \in Seq(S), NEW i \in DOMAIN bucket, Apart(bucket)
  PROVE  Apart(Touch(bucket, i))
<1>1. DOMAIN bucket = 1..Len(bucket)
  BY LenProperties
<1> SUFFICES ASSUME NEW j \in 1..Len(bucket), NEW m \in 1..Len(bucket), j # m,
                    Touch(bucket, i)[j].k = Touch(bucket, i)[m].k
             PROVE  Hamming(Touch(bucket, i)[j].query, Touch(bucket, i)[m].query)
                      > DeltaTolerance
  BY TouchPermutes DEF Apart
<1> DEFINE a == Source(bucket, i, j)
           b == Source(bucket, i, m)
<1>2. /\ a \in 1..Len(bucket) /\ b \in 1..Len(bucket) /\ a # b
      /\ Touch(bucket, i)[j] = bucket[a]
      /\ Touch(bucket, i)[m] = bucket[b]
  BY TouchPermutes
<1> HIDE DEF a, b
<1> QED
  BY <1>1, <1>2 DEF Apart

\* After a miss the new entry is far from every entry for as many results.
LEMMA PushKeepsApart ==
  ASSUME NEW Rs, NEW bucket \in Seq(Entry(Rs)), NEW e \in Entry(Rs),
         Len(bucket) <= MaxEntriesPerScope,
         Apart(bucket), Near(bucket, e.query, e.k) = {}
  PROVE  Apart(Push(bucket, e))
<1> DEFINE new  == Push(bucket, e)
           kept == Len(bucket) - Dropped(bucket)
           from(j) == j + Dropped(bucket)
<1>1. DOMAIN bucket = 1..Len(bucket) /\ Len(bucket) \in Nat
  BY LenProperties
<1>2. /\ DOMAIN new = 1..(kept + 1)
      /\ kept \in Nat
      /\ \A j \in 1..kept : from(j) \in DOMAIN bucket /\ new[j] = bucket[from(j)]
      /\ new[kept + 1] = e
  BY <1>1, PushAdds
<1>3. \A m \in DOMAIN bucket :
        /\ bucket[m].query \in Signatures
        /\ bucket[m].k = e.k =>
             /\ Hamming(e.query, bucket[m].query) > DeltaTolerance
             /\ Hamming(bucket[m].query, e.query) > DeltaTolerance
  <2> TAKE m \in DOMAIN bucket
  <2>1. bucket[m].query \in Signatures /\ e.query \in Signatures
    <3>1. bucket[m] \in Entry(Rs)
      BY <1>1, ElementOfSeq
    <3> QED
      BY <3>1 DEF Entry
  <2>2. bucket[m].k = e.k => ~(Hamming(e.query, bucket[m].query) <= DeltaTolerance)
    BY DEF Near
  <2> QED
    BY <2>1, <2>2, HammingIsMetric, DeltaAssumption
<1>4. \A i, j \in 1..kept : i # j => from(i) # from(j)
  BY DEF Dropped
<1> SUFFICES ASSUME NEW i \in 1..(kept + 1), NEW j \in 1..(kept + 1), i # j,
                    new[i].k = new[j].k
             PROVE  Hamming(new[i].query, new[j].query) > DeltaTolerance
  BY <1>2 DEF Apart
<1> HIDE DEF new, kept, from
<1>5. CASE i = kept + 1
  <2>1. j \in 1..kept
    BY <1>2, <1>5
  <2> QED
    BY <1>2, <1>3, <1>5, <2>1
<1>6. CASE j = kept + 1
  <2>1. i \in 1..kept
    BY <1>2, <1>6
  <2> QED
    BY <1>2, <1>3, <1>6, <2>1
<1>7. CASE i # kept + 1 /\ j # kept + 1
  <2>1. i \in 1..kept /\ j \in 1..kept
    BY <1>2, <1>7
  <2> QED
    BY <1>2, <1>4, <2>1 DEF Apart
<1> QED
  BY <1>5, <1>6, <1>7

-----------------------------------------------------------------------------
(* What a step does to the delta cache. *)

\* A hit for k results of q.
DeltaTouched(q, k) ==
  \E i \in Nearest(delta[predictedEvents], q, k) :
    delta' = [delta EXCEPT ![predictedEvents] = Touch(@, i)]

\* A miss, and the answer found is stored.
DeltaPushed(q, k) ==
  /\ Near(delta[predictedEvents], q, k) = {}
  /\ \E found \in ScopedSearch(predictedEvents, q, k) :
       delta' = [delta EXCEPT ![predictedEvents] =
                   Push(@, [query |-> q, k |-> k, results |-> found.results])]

\* Only the bucket of the prediction in force changes, by a hit or after a
\* miss.
LEMMA DeltaSteps ==
  ASSUME [Next]_vars
  PROVE  \/ UNCHANGED delta
         \/ \E q \in Signatures, k \in TopKs : DeltaTouched(q, k) \/ DeltaPushed(q, k)
<1>1. ASSUME NEW q \in Signatures, NEW k \in TopKs, ObservePartial(q, k)
      PROVE  UNCHANGED delta \/ DeltaTouched(q, k) \/ DeltaPushed(q, k)
  <2>1. CASE ObserveSuppressed(q)
    BY <2>1 DEF ObserveSuppressed
  <2>2. CASE ObserveDeltaHit(q, k)
    BY <2>2 DEF ObserveDeltaHit, DeltaTouched
  <2>3. CASE ObserveScan(q, k)
    BY <2>3 DEF ObserveScan, DeltaPushed
  <2> QED
    BY <1>1, <2>1, <2>2, <2>3 DEF ObservePartial
<1>2. ASSUME NEW q \in Signatures, NEW k \in TopKs, Finalize(q, k)
      PROVE  UNCHANGED delta \/ DeltaTouched(q, k) \/ DeltaPushed(q, k)
  <2>1. CASE FinalizeSpeculative(q, k)
    BY <2>1 DEF FinalizeSpeculative
  <2>2. CASE FinalizeDeltaHit(q, k)
    BY <2>2 DEF FinalizeDeltaHit, DeltaTouched
  <2>3. CASE FinalizeScan(q, k)
    BY <2>3 DEF FinalizeScan, DeltaPushed
  <2> QED
    BY <1>2, <2>1, <2>2, <2>3 DEF Finalize
<1>3. CASE WarmNext \/ ResetUtterance \/ Elapse
  BY <1>3 DEF WarmNext, ResetUtterance, Elapse
<1>4. CASE UNCHANGED vars
  BY <1>4 DEF vars
<1> QED
  BY <1>1, <1>2, <1>3, <1>4 DEF Next

\* The type and the capacity of a bucket.
BucketType(bucket) ==
  /\ bucket \in Seq(Entry(Results))
  /\ Len(bucket) <= MaxEntriesPerScope

\* What is stored after a scan is an entry.
LEMMA NewEntryType ==
  ASSUME NEW E, NEW q \in Signatures, NEW k \in TopKs,
         NEW found \in ScopedSearch(E, q, k)
  PROVE  [query |-> q, k |-> k, results |-> found.results] \in Entry(Results)
<1>1. k \in Nat
  BY IndexAssumption
<1>2. found.results \in Results
  BY <1>1, ScopedSearchIsGood DEF GoodResult
<1> QED
  BY <1>1, <1>2 DEF Entry

\* An entry that may answer is one of the bucket's.
LEMMA NearestInBucket ==
  ASSUME NEW bucket, NEW q, NEW k, NEW i \in Nearest(bucket, q, k)
  PROVE  /\ i \in DOMAIN bucket
         /\ bucket[i].k = k
         /\ Hamming(q, bucket[i].query) <= DeltaTolerance
BY DEF Nearest, Near

\* Buckets keep their type and their capacity.
LEMMA DeltaTypePreserved ==
  ASSUME TypeOK, [Next]_vars
  PROVE  /\ delta' \in [EventSets -> Seq(Entry(Results))]
         /\ \A E \in EventSets : Len(delta'[E]) <= MaxEntriesPerScope
<1>1. /\ delta \in [EventSets -> Seq(Entry(Results))]
      /\ \A E \in EventSets : Len(delta[E]) <= MaxEntriesPerScope
      /\ predictedEvents \in EventSets
  BY DEF TypeOK
<1> DEFINE bucket == delta[predictedEvents]
<1>2. bucket \in Seq(Entry(Results)) /\ Len(bucket) <= MaxEntriesPerScope
  BY <1>1
<1>3. SUFFICES ASSUME NEW new, BucketType(new),
                      delta' = [delta EXCEPT ![predictedEvents] = new]
               PROVE  /\ delta' \in [EventSets -> Seq(Entry(Results))]
                      /\ \A E \in EventSets : Len(delta'[E]) <= MaxEntriesPerScope
  <2>1. CASE UNCHANGED delta
    BY <1>1, <2>1
  <2>2. ASSUME NEW q \in Signatures, NEW k \in TopKs, DeltaTouched(q, k)
        PROVE  \E new : BucketType(new) /\ delta' = [delta EXCEPT ![predictedEvents] = new]
    <3>1. PICK i \in Nearest(bucket, q, k) :
            delta' = [delta EXCEPT ![predictedEvents] = Touch(bucket, i)]
      BY <2>2 DEF DeltaTouched
    <3>2. BucketType(Touch(bucket, i))
      BY <1>2, NearestInBucket, TouchPermutes DEF BucketType
    <3> QED
      BY <3>1, <3>2
  <2>3. ASSUME NEW q \in Signatures, NEW k \in TopKs, DeltaPushed(q, k)
        PROVE  \E new : BucketType(new) /\ delta' = [delta EXCEPT ![predictedEvents] = new]
    <3>1. PICK found \in ScopedSearch(predictedEvents, q, k) :
            delta' = [delta EXCEPT ![predictedEvents] =
                        Push(bucket, [query |-> q, k |-> k, results |-> found.results])]
      BY <2>3 DEF DeltaPushed
    <3>2. BucketType(Push(bucket, [query |-> q, k |-> k, results |-> found.results]))
      BY <1>2, NewEntryType, PushAdds DEF BucketType
    <3> QED
      BY <3>1, <3>2
  <2> QED
    BY <1>3, <2>1, <2>2, <2>3, DeltaSteps
<1> QED
  BY <1>1, <1>3 DEF BucketType

-----------------------------------------------------------------------------
(* What a step does to the conversation window. *)

\* The window has room for a turn, and a fresh turn has an age.
LEMMA WindowBounds ==
  /\ WindowCapacity \in Nat \ {0}
  /\ MaxAge \in Nat
  /\ 0 \in 0..(MaxAge + 1)
BY ContextAssumption

\* Old turns leave from the front: what remains is a tail.
LEMMA DropStaleIsTail ==
  ASSUME NEW w \in Seq(Observation)
  PROVE  \E d \in 0..Len(w) :
           /\ DropStale(w) \in Seq(Observation)
           /\ Len(DropStale(w)) = Len(w) - d
           /\ \A i \in 1..(Len(w) - d) : DropStale(w)[i] = w[i + d]
<1> DEFINE staleCounts == {n \in 0..Len(w) : \A i \in 1..n : w[i].age > MaxAge}
<1>1. Len(w) \in Nat /\ DOMAIN w = 1..Len(w)
  BY LenProperties
<1>2. Max(staleCounts) \in 0..Len(w)
  <2>1. staleCounts \in SUBSET (0..Len(w)) /\ 0 \in staleCounts
    BY <1>1
  <2> HIDE DEF staleCounts
  <2> QED
    BY <1>1, <2>1, MaxIsGreatest
<1>3. PICK d \in 0..Len(w) : DropStale(w) = SubSeq(w, d + 1, Len(w))
  BY <1>2 DEF DropStale
<1>4. \A i \in (d + 1)..Len(w) : w[i] \in Observation
  BY <1>1, ElementOfSeq
<1>5. d \in Nat /\ d <= Len(w) /\ d + 1 \in Int
  BY <1>1
<1>6. /\ DropStale(w) \in Seq(Observation)
      /\ Len(DropStale(w)) = IF d + 1 <= Len(w) THEN Len(w) - (d + 1) + 1 ELSE 0
      /\ \A i \in 1..(Len(w) - (d + 1) + 1) : DropStale(w)[i] = w[(d + 1) + i - 1]
  BY <1>1, <1>3, <1>4, <1>5, SubSeqProperties
<1>7. Len(w) - (d + 1) + 1 = Len(w) - d
  BY <1>1, <1>5
<1>8. d + 1 <= Len(w) \/ Len(w) - d = 0
  <2>1. \A n, m \in Nat : m <= n => (m + 1 <= n \/ n - m = 0)
    OBVIOUS
  <2> QED
    BY <1>1, <1>5, <2>1, Zenon
<1>9. \A i \in 1..(Len(w) - d) : (d + 1) + i - 1 = i + d
  BY <1>1, <1>5
<1> QED
  BY <1>6, <1>7, <1>8, <1>9

\* A full window gives up its oldest turn.
LEMMA MakeRoomIsTail ==
  ASSUME NEW w \in Seq(Observation), Len(w) <= WindowCapacity
  PROVE  \E d \in {0, 1} :
           /\ MakeRoom(w) \in Seq(Observation)
           /\ d <= Len(w)
           /\ Len(MakeRoom(w)) = Len(w) - d
           /\ Len(w) - d < WindowCapacity
           /\ \A i \in 1..(Len(w) - d) : MakeRoom(w)[i] = w[i + d]
<1>1. Len(w) \in Nat
  BY LenProperties
<1>2. CASE Len(w) = WindowCapacity
  <2>1. Len(w) > 0 /\ w # <<>>
    BY <1>1, <1>2, WindowBounds, EmptySeq
  <2>2. /\ MakeRoom(w) \in Seq(Observation)
        /\ Len(MakeRoom(w)) = Len(w) - 1
        /\ \A i \in 1..Len(MakeRoom(w)) : MakeRoom(w)[i] = w[i + 1]
    BY <1>2, <2>1, HeadTailProperties DEF MakeRoom
  <2>3. Len(w) - 1 < WindowCapacity /\ 1 <= Len(w)
    BY <1>1, <1>2, <2>1
  <2> QED
    BY <2>2, <2>3
<1>3. CASE Len(w) # WindowCapacity
  <2>1. Len(w) < WindowCapacity /\ Len(w) - 0 = Len(w)
    BY <1>1, <1>3, WindowBounds
  <2>2. \A i \in 1..Len(w) : i + 0 = i
    BY <1>1
  <2>3. MakeRoom(w) = w
    BY <1>3 DEF MakeRoom
  <2>4. /\ w \in Seq(Observation)
        /\ 0 <= Len(w)
        /\ Len(w) = Len(w) - 0
        /\ Len(w) - 0 < WindowCapacity
        /\ \A i \in 1..(Len(w) - 0) : w[i] = w[i + 0]
    BY <1>1, <2>1, <2>2
  <2> QED
    BY <2>3, <2>4
<1> QED
  BY <1>2, <1>3

\* The window after a turn is a tail of the old one with the turn appended.
LEMMA ObserveTurnAppends ==
  ASSUME NEW w \in Seq(Observation), Len(w) <= WindowCapacity, NEW event \in Events
  PROVE  LET new == ObserveTurn(w, event)
         IN  /\ new \in Seq(Observation)
             /\ Len(new) \in 1..WindowCapacity
             /\ new[Len(new)] = [event |-> event, age |-> 0]
             /\ \E d \in 0..Len(w) :
                  /\ Len(new) = Len(w) - d + 1
                  /\ \A i \in 1..(Len(w) - d) : new[i] = w[i + d]
<1>1. Len(w) \in Nat
  BY LenProperties
<1>2. PICK fresh \in Seq(Observation), d1 \in 0..Len(w) :
        /\ fresh = DropStale(w)
        /\ Len(fresh) = Len(w) - d1
        /\ \A i \in 1..(Len(w) - d1) : fresh[i] = w[i + d1]
  BY DropStaleIsTail
<1>3. Len(fresh) <= WindowCapacity
  BY <1>1, <1>2, WindowBounds
<1>4. PICK kept \in Seq(Observation), d2 \in {0, 1} :
        /\ kept = MakeRoom(fresh)
        /\ d2 <= Len(fresh)
        /\ Len(kept) = Len(fresh) - d2
        /\ Len(fresh) - d2 < WindowCapacity
        /\ \A i \in 1..(Len(fresh) - d2) : kept[i] = fresh[i + d2]
  BY <1>3, MakeRoomIsTail
<1>5. PICK turn \in Observation : turn = [event |-> event, age |-> 0]
  <2>1. [event |-> event, age |-> 0] \in Observation
    BY WindowBounds DEF Observation
  <2> QED
    BY <2>1
<1>6. /\ Append(kept, turn) \in Seq(Observation)
      /\ Len(Append(kept, turn)) = Len(kept) + 1
      /\ \A i \in 1..Len(kept) : Append(kept, turn)[i] = kept[i]
      /\ Append(kept, turn)[Len(kept) + 1] = turn
  BY AppendProperties
<1>7. PICK d \in 0..Len(w) : d = d1 + d2
  BY <1>1, <1>2, <1>4
<1>8. Len(kept) = Len(w) - d /\ Len(kept) + 1 \in 1..WindowCapacity
  BY <1>1, <1>2, <1>4, <1>7, WindowBounds
<1>9. ASSUME NEW i \in 1..(Len(w) - d)
      PROVE  kept[i] = w[i + d]
  <2>1. /\ i \in 1..(Len(fresh) - d2)
        /\ i + d2 \in 1..(Len(w) - d1)
        /\ (i + d2) + d1 = i + d
    BY <1>1, <1>2, <1>4, <1>7
  <2> QED
    BY <1>2, <1>4, <2>1
<1>10. ObserveTurn(w, event) = Append(kept, turn)
  BY <1>2, <1>4, <1>5 DEF ObserveTurn
<1> QED
  BY <1>5, <1>6, <1>8, <1>9, <1>10

\* Time only makes turns older.
Aged(w) == [i \in DOMAIN w |-> [w[i] EXCEPT !.age = AtMost(@ + 1, MaxAge + 1)]]

\* Ageing changes no event and no order.
LEMMA AgedType ==
  ASSUME NEW w \in Seq(Observation)
  PROVE  /\ Aged(w) \in Seq(Observation)
         /\ Len(Aged(w)) = Len(w)
         /\ DOMAIN Aged(w) = DOMAIN w
         /\ \A i \in 1..Len(w) :
              /\ Aged(w)[i].event = w[i].event
              /\ Aged(w)[i].age = AtMost(w[i].age + 1, MaxAge + 1)
<1>1. Len(w) \in Nat /\ DOMAIN w = 1..Len(w) /\ w \in [1..Len(w) -> Observation]
  BY LenProperties
<1>2. \A i \in 1..Len(w) :
        /\ [w[i] EXCEPT !.age = AtMost(@ + 1, MaxAge + 1)] \in Observation
        /\ [w[i] EXCEPT !.age = AtMost(@ + 1, MaxAge + 1)].event = w[i].event
        /\ [w[i] EXCEPT !.age = AtMost(@ + 1, MaxAge + 1)].age
             = AtMost(w[i].age + 1, MaxAge + 1)
  BY <1>1, ContextAssumption DEF Observation, AtMost
<1>3. Aged(w) \in [1..Len(w) -> Observation]
  BY <1>1, <1>2 DEF Aged
<1>4. Aged(w) \in Seq(Observation) /\ Len(Aged(w)) = Len(w)
  BY <1>1, <1>3, SeqDef, LenProperties
<1> QED
  BY <1>1, <1>2, <1>4 DEF Aged

-----------------------------------------------------------------------------
(* What a step does to the utterance in flight. *)

\* A partial passes the gate; what answers it becomes the speculation.
Emitted(partial, k) ==
  /\ lastEmitted' = partial
  /\ current' = partial
  /\ cachedForSig' = partial
  /\ \/ \E i \in Nearest(delta[predictedEvents], partial, k) :
          cachedResults' = delta[predictedEvents][i].results
     \/ \E found \in ScopedSearch(predictedEvents, partial, k) :
          cachedResults' = found.results

\* Nothing, a warm_next, the end of the utterance, a suppressed partial or
\* an emitted one.
LEMMA UtteranceSteps ==
  ASSUME [Next]_vars
  PROVE  \/ UNCHANGED <<predictedEvents, utteranceVars, inForce>>
         \/ /\ WarmNext
            /\ UNCHANGED utteranceVars
            /\ inForce' = inForce \cup {predictedEvents'}
         \/ ForgetUtterance /\ UNCHANGED predictedEvents
         \/ /\ UNCHANGED <<predictedEvents, inForce>>
            /\ \E partial \in Signatures :
                 \/ ObserveSuppressed(partial) /\ current' = partial
                 \/ \E k \in TopKs : Emitted(partial, k)
<1>1. CASE \E q \in Signatures, k \in TopKs : ObservePartial(q, k)
  <2>1. PICK q \in Signatures, k \in TopKs : ObservePartial(q, k)
    BY <1>1
  <2>2. /\ UNCHANGED <<predictedEvents, inForce>>
        /\ current' = q
        /\ ObserveSuppressed(q) \/ ObserveDeltaHit(q, k) \/ ObserveScan(q, k)
    BY <2>1 DEF ObservePartial
  <2>3. ObserveDeltaHit(q, k) => Emitted(q, k)
    BY <2>2 DEF ObserveDeltaHit, Speculate, Emitted
  <2>4. ObserveScan(q, k) => Emitted(q, k)
    BY <2>2 DEF ObserveScan, Speculate, Emitted
  <2> QED
    BY <2>2, <2>3, <2>4
<1>2. CASE \E q \in Signatures, k \in TopKs : Finalize(q, k)
  BY <1>2 DEF Finalize, FinalizeSpeculative, FinalizeDeltaHit, FinalizeScan, Finish
<1>3. CASE WarmNext
  BY <1>3 DEF WarmNext
<1>4. CASE ResetUtterance
  BY <1>4 DEF ResetUtterance
<1>5. CASE Elapse
  BY <1>5 DEF Elapse
<1>6. CASE UNCHANGED vars
  BY <1>6 DEF vars
<1> QED
  BY <1>1, <1>2, <1>3, <1>4, <1>5, <1>6 DEF Next

-----------------------------------------------------------------------------
(* What a step does to the output. *)

\* finalize answers q with k results, in one of its three ways.
Replied(q, k, results, servedBy, size) ==
  /\ output' = [query |-> q, k |-> k, results |-> results,
                topEvent |-> TopEvent(results), predictedEvents |-> predictedEvents,
                scopeSize |-> size, servedBy |-> servedBy, inForce |-> inForce]
  /\ Learn(TopEvent(results))
  /\ \/ /\ servedBy = "Speculative"
        /\ SpeculationFits(q, k)
        /\ results = cachedResults
        /\ size = Cardinality(PredictedScope)
     \/ /\ servedBy = "DeltaCache"
        /\ \E i \in Nearest(delta[predictedEvents], q, k) :
             results = delta[predictedEvents][i].results
        /\ size = Cardinality(PredictedScope)
     \/ /\ servedBy \in {"ShardScan", "FullScan"}
        /\ \E found \in ScopedSearch(predictedEvents, q, k) :
             results = found.results /\ size = found.scopeSize

\* Only finalize answers, and only it learns; otherwise turns only age.
LEMMA OutputSteps ==
  ASSUME [Next]_vars
  PROVE  \/ /\ UNCHANGED output
            /\ \/ UNCHANGED <<window, taught>>
               \/ window # <<>> /\ window' = Aged(window) /\ UNCHANGED taught
         \/ \E q \in Signatures, k \in TopKs :
              \E results, servedBy, size : Replied(q, k, results, servedBy, size)
<1>1. ASSUME NEW q \in Signatures, NEW k \in TopKs, Finalize(q, k)
      PROVE  \E results, servedBy, size : Replied(q, k, results, servedBy, size)
  <2>1. CASE FinalizeSpeculative(q, k)
    BY <2>1 DEF FinalizeSpeculative, Finish, Replied
  <2>2. CASE FinalizeDeltaHit(q, k)
    BY <2>2 DEF FinalizeDeltaHit, Finish, Replied
  <2>3. CASE FinalizeScan(q, k)
    <3>1. PICK found \in ScopedSearch(predictedEvents, q, k),
               servedBy \in {"ShardScan", "FullScan"} :
            Finish(q, k, found.results, servedBy, found.scopeSize)
      BY <2>3 DEF FinalizeScan
    <3>2. Replied(q, k, found.results, servedBy, found.scopeSize)
      BY <3>1 DEF Finish, Replied
    <3> QED
      BY <3>2
  <2> QED
    BY <1>1, <2>1, <2>2, <2>3 DEF Finalize
<1>2. CASE \E q \in Signatures, k \in TopKs : ObservePartial(q, k)
  BY <1>2 DEF ObservePartial
<1>3. CASE WarmNext \/ ResetUtterance
  BY <1>3 DEF WarmNext, ResetUtterance
<1>4. CASE Elapse
  BY <1>4 DEF Elapse, Aged
<1>5. CASE UNCHANGED vars
  BY <1>5 DEF vars
<1> QED
  BY <1>1, <1>2, <1>3, <1>4, <1>5 DEF Next

\* The window learns a turn, ages, or stays.
LEMMA WindowSteps ==
  ASSUME [Next]_vars
  PROVE  \/ UNCHANGED <<window, taught>>
         \/ \E event \in Events \cup {NoEvent} : Learn(event)
         \/ window # <<>> /\ window' = Aged(window) /\ UNCHANGED taught
BY OutputSteps, TopEventType DEF Replied

-----------------------------------------------------------------------------
(* Type correctness. *)

\* The window keeps its type and capacity, the taught transitions theirs.
LEMMA WindowTypePreserved ==
  ASSUME TypeOK, [Next]_vars
  PROVE  /\ window' \in Seq(Observation)
         /\ Len(window') <= WindowCapacity
         /\ taught' \in SUBSET (Events \X Events)
<1>1. /\ window \in Seq(Observation)
      /\ Len(window) <= WindowCapacity
      /\ taught \in SUBSET (Events \X Events)
  BY DEF TypeOK
<1>2. CASE UNCHANGED <<window, taught>>
  BY <1>1, <1>2
<1>3. ASSUME NEW event \in Events \cup {NoEvent}, Learn(event)
      PROVE  /\ window' \in Seq(Observation)
             /\ Len(window') <= WindowCapacity
             /\ taught' \in SUBSET (Events \X Events)
  <2>1. CASE event = NoEvent
    BY <1>1, <1>3, <2>1 DEF Learn
  <2>2. CASE event # NoEvent
    <3>1. event \in Events
      BY <2>2
    <3>2. window' = ObserveTurn(window, event)
      BY <1>3, <2>2 DEF Learn
    <3>3. window' \in Seq(Observation) /\ Len(window') <= WindowCapacity
      <4>1. window' \in Seq(Observation) /\ Len(window') \in 1..WindowCapacity
        BY <1>1, <3>1, <3>2, ObserveTurnAppends
      <4> QED
        BY <4>1
    <3>4. window # <<>> => window[Len(window)].event \in Events
      <4>1. window # <<>> => Len(window) \in 1..Len(window)
        BY <1>1, EmptySeq
      <4>2. window # <<>> => window[Len(window)] \in Observation
        BY <1>1, <4>1, ElementOfSeq
      <4> QED
        BY <4>2 DEF Observation
    <3>5. taught' \in SUBSET (Events \X Events)
      BY <1>1, <1>3, <2>2, <3>1, <3>4 DEF Learn
    <3> QED
      BY <3>3, <3>5
  <2> QED
    BY <2>1, <2>2
<1>4. CASE window' = Aged(window) /\ UNCHANGED taught
  BY <1>1, <1>4, AgedType
<1> QED
  BY <1>2, <1>3, <1>4, WindowSteps

\* Results come out of the cache with the type they went in with.
LEMMA CachedEntryType ==
  ASSUME TypeOK, NEW q, NEW k, NEW i \in Nearest(delta[predictedEvents], q, k)
  PROVE  delta[predictedEvents][i] \in Entry(Results)
<1>1. delta[predictedEvents] \in Seq(Entry(Results))
  BY DEF TypeOK
<1>2. i \in 1..Len(delta[predictedEvents])
  BY <1>1, NearestInBucket, LenProperties
<1> QED
  BY <1>1, <1>2, ElementOfSeq

\* The gate, the speculation and the predictions keep their types.
LEMMA UtteranceTypePreserved ==
  ASSUME TypeOK, [Next]_vars
  PROVE  /\ predictedEvents' \in EventSets
         /\ lastEmitted' \in Signatures \cup {NoSig}
         /\ current' \in Signatures \cup {NoSig}
         /\ cachedForSig' \in Signatures \cup {NoSig}
         /\ cachedResults' \in Results \cup {NoResults}
         /\ inForce' \in SUBSET EventSets
<1> DEFINE Goal == /\ predictedEvents' \in EventSets
                   /\ lastEmitted' \in Signatures \cup {NoSig}
                   /\ current' \in Signatures \cup {NoSig}
                   /\ cachedForSig' \in Signatures \cup {NoSig}
                   /\ cachedResults' \in Results \cup {NoResults}
                   /\ inForce' \in SUBSET EventSets
<1>1. /\ predictedEvents \in EventSets
      /\ lastEmitted \in Signatures \cup {NoSig}
      /\ current \in Signatures \cup {NoSig}
      /\ cachedForSig \in Signatures \cup {NoSig}
      /\ cachedResults \in Results \cup {NoResults}
      /\ inForce \in SUBSET EventSets
  BY DEF TypeOK
<1>2. CASE UNCHANGED <<predictedEvents, utteranceVars, inForce>>
  BY <1>1, <1>2 DEF utteranceVars
<1>3. CASE /\ WarmNext
           /\ UNCHANGED utteranceVars
           /\ inForce' = inForce \cup {predictedEvents'}
  <2>1. predictedEvents' \in EventSets
    BY <1>3 DEF WarmNext, EventSets
  <2> QED
    BY <1>1, <1>3, <2>1 DEF utteranceVars
<1>4. CASE ForgetUtterance /\ UNCHANGED predictedEvents
  BY <1>1, <1>4 DEF ForgetUtterance
<1>5. ASSUME UNCHANGED <<predictedEvents, inForce>>,
             NEW partial \in Signatures,
             ObserveSuppressed(partial) /\ current' = partial
      PROVE  Goal
  BY <1>1, <1>5 DEF ObserveSuppressed
<1>6. ASSUME UNCHANGED <<predictedEvents, inForce>>,
             NEW partial \in Signatures, NEW k \in TopKs,
             Emitted(partial, k)
      PROVE  Goal
  <2>1. CASE \E i \in Nearest(delta[predictedEvents], partial, k) :
               cachedResults' = delta[predictedEvents][i].results
    <3>1. cachedResults' \in Results
      BY <2>1, CachedEntryType DEF Entry
    <3> QED
      BY <1>1, <1>6, <3>1 DEF Emitted
  <2>2. CASE \E found \in ScopedSearch(predictedEvents, partial, k) :
               cachedResults' = found.results
    <3>1. cachedResults' \in Results
      BY <2>2, ScopedSearchIsGood, IndexAssumption DEF GoodResult
    <3> QED
      BY <1>1, <1>6, <3>1 DEF Emitted
  <2> QED
    BY <1>6, <2>1, <2>2 DEF Emitted
<1> QED
  BY <1>2, <1>3, <1>4, <1>5, <1>6, UtteranceSteps

\* What finalize returns is an output.
LEMMA ReplyType ==
  ASSUME TypeOK, NEW q \in Signatures, NEW k \in TopKs,
         NEW results, NEW servedBy, NEW size,
         Replied(q, k, results, servedBy, size)
  PROVE  output' \in Output
<1>1. /\ predictedEvents \in EventSets
      /\ inForce \in SUBSET EventSets
      /\ cachedResults \in Results \cup {NoResults}
  BY DEF TypeOK
<1>2. Cardinality(PredictedScope) \in Nat
  BY ScopeFinite DEF PredictedScope
<1>3. results \in Results /\ size \in Nat /\ servedBy \in ServedBy
  <2>1. CASE servedBy = "Speculative" /\ SpeculationFits(q, k)
             /\ results = cachedResults /\ size = Cardinality(PredictedScope)
    BY <1>1, <1>2, <2>1 DEF SpeculationFits, ServedBy
  <2>2. CASE /\ servedBy = "DeltaCache"
             /\ \E i \in Nearest(delta[predictedEvents], q, k) :
                  results = delta[predictedEvents][i].results
             /\ size = Cardinality(PredictedScope)
    BY <1>2, <2>2, CachedEntryType DEF Entry, ServedBy
  <2>3. CASE /\ servedBy \in {"ShardScan", "FullScan"}
             /\ \E found \in ScopedSearch(predictedEvents, q, k) :
                  results = found.results /\ size = found.scopeSize
    BY <2>3, ScopedSearchIsGood, IndexAssumption DEF GoodResult, ServedBy
  <2> QED
    BY <2>1, <2>2, <2>3 DEF Replied
<1> QED
  BY <1>1, <1>3, TopEventType DEF Replied, Output

\* The output keeps its type.
LEMMA OutputTypePreserved ==
  ASSUME TypeOK, [Next]_vars
  PROVE  output' \in Output \cup {NoOutput}
BY ReplyType, OutputSteps DEF TypeOK

\* The bound on the calls explored is kept.
LEMMA CallsTypePreserved ==
  ASSUME TypeOK, [Next]_vars
  PROVE  calls' \in 0..MaxCalls
<1>1. Call \/ UNCHANGED calls
  BY DEF Next, vars, WarmNext, ObservePartial, Finalize, ResetUtterance, Elapse
<1> QED
  BY <1>1, ContextAssumption DEF TypeOK, Call

\* The state keeps its types: in particular no bucket outgrows its capacity
\* and no window its own, whatever the calls.
THEOREM TypeCorrect == Spec => []TypeOK
<1>1. Init => TypeOK
  <2> SUFFICES ASSUME Init
               PROVE  TypeOK
    OBVIOUS
  <2>1. /\ <<>> \in Seq(Observation)
        /\ <<>> \in Seq(Entry(Results))
        /\ Len(<<>>) = 0
    BY EmptySeq
  <2>2. {} \in EventSets
    BY DEF EventSets
  <2>3. 0 \in 0..MaxCalls /\ 0 <= WindowCapacity /\ 0 <= MaxEntriesPerScope
    BY ContextAssumption, DeltaAssumption
  <2> QED
    BY <2>1, <2>2, <2>3 DEF Init, TypeOK
<1>2. TypeOK /\ [Next]_vars => TypeOK'
  <2> SUFFICES ASSUME TypeOK, [Next]_vars
               PROVE  TypeOK'
    OBVIOUS
  <2> QED
    BY WindowTypePreserved, UtteranceTypePreserved, DeltaTypePreserved,
       OutputTypePreserved, CallsTypePreserved DEF TypeOK
<1> QED
  BY <1>1, <1>2, PTL DEF Spec

-----------------------------------------------------------------------------
(* The gate, the cache and the window. *)

\* The absent values are not values.
LEMMA AnswerIsSomething ==
  /\ NoSig \notin Signatures
  /\ NoResults \notin Results
BY ContextAssumption DEF Results

\* The speculation always belongs to the last partial the gate let through,
\* and the last partial heard is within the drift threshold of it.
THEOREM SpeculationFollowsGate == Spec => []SpeculationKeepsUp
<1>1. Init => SpeculationKeepsUp
  BY DEF Init, SpeculationKeepsUp
<1>2. TypeOK /\ SpeculationKeepsUp /\ [Next]_vars => SpeculationKeepsUp'
  <2> SUFFICES ASSUME TypeOK, SpeculationKeepsUp, [Next]_vars
               PROVE  SpeculationKeepsUp'
    OBVIOUS
  <2>1. CASE UNCHANGED utteranceVars
    BY <2>1 DEF SpeculationKeepsUp, utteranceVars
  <2>2. CASE ForgetUtterance
    BY <2>2 DEF ForgetUtterance, SpeculationKeepsUp
  <2>3. ASSUME NEW partial \in Signatures, ObserveSuppressed(partial), current' = partial
        PROVE  SpeculationKeepsUp'
    <3>1. lastEmitted # NoSig /\ ~(Hamming(lastEmitted, partial) >= DriftThreshold)
      BY <2>3 DEF ObserveSuppressed, ShouldEmit
    <3>2. lastEmitted \in Signatures
      BY <3>1 DEF TypeOK
    <3>3. Hamming(lastEmitted, partial) < DriftThreshold
      BY <3>1, <3>2, HammingIsMetric, ContextAssumption
    <3>4. UNCHANGED <<lastEmitted, cachedResults, cachedForSig>>
      BY <2>3 DEF ObserveSuppressed
    <3> QED
      BY <2>3, <3>3, <3>4, AnswerIsSomething DEF SpeculationKeepsUp
  <2>4. ASSUME NEW partial \in Signatures, NEW k \in TopKs, Emitted(partial, k)
        PROVE  SpeculationKeepsUp'
    <3>1. cachedResults' \in Results
      <4>1. ASSUME NEW i \in Nearest(delta[predictedEvents], partial, k),
                   cachedResults' = delta[predictedEvents][i].results
            PROVE  cachedResults' \in Results
        BY <4>1, CachedEntryType DEF Entry
      <4>2. ASSUME NEW found \in ScopedSearch(predictedEvents, partial, k),
                   cachedResults' = found.results
            PROVE  cachedResults' \in Results
        BY <4>2, ScopedSearchIsGood, IndexAssumption DEF GoodResult
      <4> QED
        BY <2>4, <4>1, <4>2 DEF Emitted
    <3>2. Hamming(partial, partial) < DriftThreshold
      BY HammingIsMetric, ContextAssumption
    <3> QED
      BY <2>4, <3>1, <3>2, AnswerIsSomething DEF Emitted, SpeculationKeepsUp
  <2> QED
    BY <2>1, <2>2, <2>3, <2>4, UtteranceSteps DEF utteranceVars
<1> QED
  BY <1>1, <1>2, TypeCorrect, PTL DEF Spec

\* No bucket ever holds two entries that could answer for each other.
THEOREM EntriesStayApart == Spec => []DeltaEntriesApart
<1>1. Init => DeltaEntriesApart
  BY DEF Init, DeltaEntriesApart
<1>2. TypeOK /\ DeltaEntriesApart /\ [Next]_vars => DeltaEntriesApart'
  <2> SUFFICES ASSUME TypeOK, DeltaEntriesApart, [Next]_vars
               PROVE  DeltaEntriesApart'
    OBVIOUS
  <2> DEFINE bucket == delta[predictedEvents]
  <2>1. /\ delta \in [EventSets -> Seq(Entry(Results))]
        /\ predictedEvents \in EventSets
        /\ bucket \in Seq(Entry(Results))
        /\ Len(bucket) <= MaxEntriesPerScope
    BY DEF TypeOK
  <2>2. /\ \A E \in EventSets : Apart(delta[E])
        /\ Apart(bucket)
    BY <2>1 DEF DeltaEntriesApart, Apart
  <2>3. SUFFICES ASSUME NEW new, Apart(new),
                        delta' = [delta EXCEPT ![predictedEvents] = new]
                 PROVE  DeltaEntriesApart'
    <3>1. CASE UNCHANGED delta
      BY <3>1 DEF DeltaEntriesApart
    <3>2. ASSUME NEW q \in Signatures, NEW k \in TopKs, DeltaTouched(q, k)
          PROVE  \E new : Apart(new) /\ delta' = [delta EXCEPT ![predictedEvents] = new]
      <4>1. PICK i \in Nearest(bucket, q, k) :
              delta' = [delta EXCEPT ![predictedEvents] = Touch(bucket, i)]
        BY <3>2 DEF DeltaTouched
      <4>2. Apart(Touch(bucket, i))
        BY <2>1, <2>2, NearestInBucket, TouchKeepsApart
      <4> QED
        BY <4>1, <4>2
    <3>3. ASSUME NEW q \in Signatures, NEW k \in TopKs, DeltaPushed(q, k)
          PROVE  \E new : Apart(new) /\ delta' = [delta EXCEPT ![predictedEvents] = new]
      <4>1. PICK found \in ScopedSearch(predictedEvents, q, k) :
              delta' = [delta EXCEPT ![predictedEvents] =
                          Push(bucket, [query |-> q, k |-> k, results |-> found.results])]
        BY <3>3 DEF DeltaPushed
      <4>2. PICK e \in Entry(Results) :
              e = [query |-> q, k |-> k, results |-> found.results]
        BY NewEntryType
      <4>3. Near(bucket, e.query, e.k) = {}
        BY <3>3, <4>2 DEF DeltaPushed
      <4>4. Apart(Push(bucket, e))
        BY <2>1, <2>2, <4>3, PushKeepsApart
      <4> QED
        BY <4>1, <4>2, <4>4
    <3> QED
      BY <2>3, <3>1, <3>2, <3>3, DeltaSteps
  <2>4. \A E \in EventSets : Apart(delta'[E])
    BY <2>1, <2>2, <2>3
  <2> QED
    BY <2>4 DEF DeltaEntriesApart, Apart
<1> QED
  BY <1>1, <1>2, TypeCorrect, PTL DEF Spec

\* Every step of the remembered conversation has been taught to the
\* predictor, and the window runs from old to new.
THEOREM WindowIsLearned == Spec => []WindowLearned
<1>1. Init => WindowLearned
  <2>1. Len(<<>>) = 0
    OBVIOUS
  <2> QED
    BY <2>1 DEF Init, WindowLearned
<1>2. TypeOK /\ WindowLearned /\ [Next]_vars => WindowLearned'
  <2> SUFFICES ASSUME TypeOK, WindowLearned, [Next]_vars
               PROVE  WindowLearned'
    OBVIOUS
  <2>1. window \in Seq(Observation) /\ Len(window) <= WindowCapacity
    BY DEF TypeOK
  <2>2. Len(window) \in Nat
    BY <2>1, LenProperties
  <2>3. CASE UNCHANGED <<window, taught>>
    BY <2>3 DEF WindowLearned
  <2>4. ASSUME NEW event \in Events \cup {NoEvent}, Learn(event)
        PROVE  WindowLearned'
    <3>1. CASE event = NoEvent
      BY <2>3, <2>4, <3>1 DEF Learn
    <3>2. CASE event # NoEvent
      <4>1. /\ window' = ObserveTurn(window, event)
            /\ taught' = IF window = <<>> THEN taught
                         ELSE taught \cup {<<window[Len(window)].event, event>>}
            /\ event \in Events
        BY <2>4, <3>2 DEF Learn
      <4>2. PICK d \in 0..Len(window) :
              /\ Len(window') = Len(window) - d + 1
              /\ \A i \in 1..(Len(window) - d) : window'[i] = window[i + d]
        BY <2>1, <4>1, ObserveTurnAppends
      <4>3. window'[Len(window')] = [event |-> event, age |-> 0]
        BY <2>1, <4>1, ObserveTurnAppends
      <4>4. PICK n \in Nat : n = Len(window) - d
        <5>1. \A m \in Nat : \A c \in 0..m : m - c \in Nat
          OBVIOUS
        <5> QED
          BY <2>2, <5>1, Zenon
      <4>5. Len(window') = n + 1 /\ d + n = Len(window)
        BY <2>2, <4>2, <4>4
      <4> SUFFICES ASSUME NEW i \in 1..n
                   PROVE  /\ <<window'[i].event, window'[i + 1].event>> \in taught'
                          /\ window'[i].age >= window'[i + 1].age
        BY <4>5 DEF WindowLearned
      <4>6. window'[i] = window[i + d] /\ i + d \in 1..Len(window)
        BY <2>2, <4>2, <4>4, <4>5
      <4>7. window[i + d] \in Observation
        BY <2>1, <4>6, ElementOfSeq
      <4>8. CASE i = n
        <5>1. window'[i + 1] = [event |-> event, age |-> 0]
          BY <4>3, <4>5, <4>8
        <5>2. window'[i] = window[Len(window)] /\ window # <<>>
          BY <2>1, <2>2, <4>5, <4>6, <4>8, EmptySeq
        <5>3. window'[i].age >= 0
          BY <4>6, <4>7, WindowBounds DEF Observation
        <5> QED
          BY <4>1, <5>1, <5>2, <5>3
      <4>9. CASE i # n
        <5>1. i + 1 \in 1..n
          BY <4>9
        <5>2. /\ window'[i + 1] = window[(i + d) + 1]
              /\ i + d \in 1..(Len(window) - 1)
          <6>1. (i + 1) + d = (i + d) + 1
            OBVIOUS
          <6>2. i + 1 \in 1..(Len(window) - d)
            BY <4>4, <5>1
          <6>3. window'[i + 1] = window[(i + 1) + d]
            BY Zenon, <4>2, <6>2
          <6>4. i + d \in 1..(Len(window) - 1)
            <7>1. Len(window) \in Nat /\ d \in Nat /\ i \in Nat /\ i # 0 /\ i + 1 <= n
              BY <2>2, <5>1
            <7> QED
              BY <4>5, <7>1
          <6> QED
            BY <6>1, <6>3, <6>4
        <5> QED
          BY <4>1, <4>6, <5>2 DEF WindowLearned
      <4> QED
        BY <4>8, <4>9
    <3> QED
      BY <3>1, <3>2
  <2>5. CASE window' = Aged(window) /\ UNCHANGED taught
    <3> SUFFICES ASSUME NEW i \in 1..(Len(window) - 1)
                 PROVE  /\ <<window'[i].event, window'[i + 1].event>> \in taught'
                        /\ window'[i].age >= window'[i + 1].age
      BY <2>1, <2>5, AgedType DEF WindowLearned
    <3>1. i \in 1..Len(window) /\ i + 1 \in 1..Len(window)
      BY <2>2
    <3>2. /\ window[i].age \in Nat /\ window[i + 1].age \in Nat
          /\ window[i].age >= window[i + 1].age
          /\ <<window[i].event, window[i + 1].event>> \in taught
      <4>1. window[i] \in Observation /\ window[i + 1] \in Observation
        BY <2>1, <3>1, ElementOfSeq
      <4> QED
        BY <4>1, WindowBounds DEF Observation, WindowLearned
    <3>3. /\ window'[i].event = window[i].event
          /\ window'[i].age = AtMost(window[i].age + 1, MaxAge + 1)
          /\ window'[i + 1].event = window[i + 1].event
          /\ window'[i + 1].age = AtMost(window[i + 1].age + 1, MaxAge + 1)
      BY <2>1, <2>5, <3>1, AgedType
    <3> QED
      BY <2>5, <3>2, <3>3, WindowBounds DEF AtMost
  <2> QED
    BY <2>3, <2>4, <2>5, WindowSteps
<1> QED
  BY <1>1, <1>2, TypeCorrect, PTL DEF Spec

-----------------------------------------------------------------------------
(* The answers. *)

\* Everything the cache holds is the exact answer to its own query.
EntriesAnswer ==
  \A E \in EventSets : \A i \in DOMAIN delta[E] :
    <<E, delta[E][i].query, delta[E][i].k, delta[E][i].results>> \in AnswerRelation

\* The speculation is an answer, under a prediction of this utterance, to a
\* query the delta cache may take for the partial it is tagged with.
SpeculationAnswers ==
  cachedForSig # NoSig =>
    \E E \in inForce, q \in Signatures, k \in TopKs :
      /\ Hamming(q, cachedForSig) <= DeltaTolerance
      /\ <<E, q, k, cachedResults>> \in AnswerRelation

\* Why finalize never drifts: what it reuses is always tied to the query it
\* was computed for, and predictions are remembered from the moment they
\* come into force.
Grounded ==
  /\ predictedEvents \in inForce
  /\ EntriesAnswer
  /\ SpeculationAnswers
  /\ ServedNearQuery

\* A cached entry near a query is an answer for a query near it.
LEMMA EntryAnswersNearby ==
  ASSUME TypeOK, EntriesAnswer,
         NEW q \in Signatures, NEW k \in TopKs,
         NEW i \in Nearest(delta[predictedEvents], q, k)
  PROVE  \E near \in Signatures :
           /\ Hamming(near, q) <= DeltaTolerance
           /\ <<predictedEvents, near, k, delta[predictedEvents][i].results>> \in AnswerRelation
<1> DEFINE entry == delta[predictedEvents][i]
<1>1. predictedEvents \in EventSets
  BY DEF TypeOK
<1>2. /\ i \in DOMAIN delta[predictedEvents]
      /\ entry.k = k
      /\ Hamming(q, entry.query) <= DeltaTolerance
  BY NearestInBucket
<1>3. entry.query \in Signatures
  BY CachedEntryType DEF Entry
<1>4. Hamming(entry.query, q) <= DeltaTolerance
  BY <1>2, <1>3, HammingIsMetric
<1>5. <<predictedEvents, entry.query, entry.k, entry.results>> \in AnswerRelation
  BY <1>1, <1>2 DEF EntriesAnswer
<1> QED
  BY <1>2, <1>3, <1>4, <1>5

\* A scan is an answer for the query itself.
LEMMA ScanAnswersItself ==
  ASSUME TypeOK, NEW q \in Signatures, NEW k \in TopKs,
         NEW found \in ScopedSearch(predictedEvents, q, k)
  PROVE  /\ Hamming(q, q) = 0
         /\ <<predictedEvents, q, k, found.results>> \in AnswerRelation
BY HammingIsMetric, SearchAnswers DEF TypeOK

\* Touching moves answers, pushing adds one.
LEMMA EntriesAnswerPreserved ==
  ASSUME TypeOK, EntriesAnswer, [Next]_vars
  PROVE  EntriesAnswer'
<1> DEFINE bucket == delta[predictedEvents]
           Good(new) == \A j \in DOMAIN new :
             <<predictedEvents, new[j].query, new[j].k, new[j].results>> \in AnswerRelation
<1>1. /\ delta \in [EventSets -> Seq(Entry(Results))]
      /\ predictedEvents \in EventSets
      /\ bucket \in Seq(Entry(Results))
      /\ Len(bucket) <= MaxEntriesPerScope
      /\ DOMAIN bucket = 1..Len(bucket)
  BY LenProperties DEF TypeOK
<1>2. Good(bucket)
  BY <1>1 DEF EntriesAnswer
<1>3. SUFFICES ASSUME NEW new, Good(new),
                      delta' = [delta EXCEPT ![predictedEvents] = new]
               PROVE  EntriesAnswer'
  <2>1. CASE UNCHANGED delta
    BY <2>1 DEF EntriesAnswer
  <2>2. ASSUME NEW q \in Signatures, NEW k \in TopKs, DeltaTouched(q, k)
        PROVE  \E new : Good(new) /\ delta' = [delta EXCEPT ![predictedEvents] = new]
    <3>1. PICK i \in Nearest(bucket, q, k) :
            delta' = [delta EXCEPT ![predictedEvents] = Touch(bucket, i)]
      BY <2>2 DEF DeltaTouched
    <3>2. Good(Touch(bucket, i))
      <4>1. DOMAIN Touch(bucket, i) = 1..Len(bucket)
        BY <1>1, NearestInBucket, TouchPermutes
      <4> SUFFICES ASSUME NEW j \in 1..Len(bucket)
                   PROVE  <<predictedEvents, Touch(bucket, i)[j].query,
                            Touch(bucket, i)[j].k, Touch(bucket, i)[j].results>>
                            \in AnswerRelation
        BY <4>1
      <4>2. PICK m \in 1..Len(bucket) : Touch(bucket, i)[j] = bucket[m]
        BY <1>1, NearestInBucket, TouchPermutes
      <4> HIDE DEF bucket
      <4> QED
        BY <1>1, <1>2, <4>2
    <3> QED
      BY <3>1, <3>2
  <2>3. ASSUME NEW q \in Signatures, NEW k \in TopKs, DeltaPushed(q, k)
        PROVE  \E new : Good(new) /\ delta' = [delta EXCEPT ![predictedEvents] = new]
    <3>1. PICK found \in ScopedSearch(predictedEvents, q, k) :
            delta' = [delta EXCEPT ![predictedEvents] =
                        Push(bucket, [query |-> q, k |-> k, results |-> found.results])]
      BY <2>3 DEF DeltaPushed
    <3>2. PICK e \in Entry(Results) :
            e = [query |-> q, k |-> k, results |-> found.results]
      BY NewEntryType
    <3>3. <<predictedEvents, e.query, e.k, e.results>> \in AnswerRelation
      BY <3>2, ScanAnswersItself
    <3> DEFINE kept == Len(bucket) - Dropped(bucket)
    <3>4. /\ kept \in Nat
          /\ DOMAIN Push(bucket, e) = 1..(kept + 1)
          /\ \A j \in 1..kept :
               /\ j + Dropped(bucket) \in 1..Len(bucket)
               /\ Push(bucket, e)[j] = bucket[j + Dropped(bucket)]
          /\ Push(bucket, e)[kept + 1] = e
      BY <1>1, PushAdds
    <3>5. Good(Push(bucket, e))
      <4> SUFFICES ASSUME NEW j \in 1..(kept + 1)
                   PROVE  <<predictedEvents, Push(bucket, e)[j].query,
                            Push(bucket, e)[j].k, Push(bucket, e)[j].results>>
                            \in AnswerRelation
        BY <3>4
      <4>1. CASE j = kept + 1
        BY <3>3, <3>4, <4>1
      <4>2. CASE j # kept + 1
        <5>1. j \in 1..kept
          BY <3>4, <4>2
        <5>2. PICK m \in 1..Len(bucket) : Push(bucket, e)[j] = bucket[m]
          BY <3>4, <5>1
        <5> HIDE DEF bucket
        <5> QED
          BY <1>1, <1>2, <5>2
      <4> QED
        BY <4>1, <4>2
    <3> QED
      BY <3>1, <3>2, <3>5
  <2> QED
    BY <1>3, <2>1, <2>2, <2>3, DeltaSteps
<1> QED
  BY <1>1, <1>3 DEF EntriesAnswer

\* The speculation is tagged with the partial it was looked up for, and ends
\* with the utterance that saw its prediction.
LEMMA SpeculationAnswersPreserved ==
  ASSUME TypeOK, SpeculationKeepsUp, predictedEvents \in inForce,
         EntriesAnswer, SpeculationAnswers, [Next]_vars
  PROVE  SpeculationAnswers' /\ (predictedEvents \in inForce)'
<1>1. CASE UNCHANGED <<predictedEvents, utteranceVars, inForce>>
  BY <1>1 DEF SpeculationAnswers, utteranceVars
<1>2. CASE UNCHANGED utteranceVars /\ inForce' = inForce \cup {predictedEvents'}
  BY <1>2 DEF SpeculationAnswers, utteranceVars
<1>3. CASE ForgetUtterance /\ UNCHANGED predictedEvents
  BY <1>3 DEF ForgetUtterance, SpeculationAnswers
<1>4. ASSUME UNCHANGED <<predictedEvents, inForce>>,
             NEW partial \in Signatures, ObserveSuppressed(partial)
      PROVE  SpeculationAnswers' /\ (predictedEvents \in inForce)'
  BY <1>4 DEF ObserveSuppressed, SpeculationAnswers
<1>5. ASSUME UNCHANGED <<predictedEvents, inForce>>,
             NEW partial \in Signatures, NEW k \in TopKs, Emitted(partial, k)
      PROVE  SpeculationAnswers' /\ (predictedEvents \in inForce)'
  <2>1. \E near \in Signatures :
          /\ Hamming(near, partial) <= DeltaTolerance
          /\ <<predictedEvents, near, k, cachedResults'>> \in AnswerRelation
    <3>1. ASSUME NEW i \in Nearest(delta[predictedEvents], partial, k),
                 cachedResults' = delta[predictedEvents][i].results
          PROVE  \E near \in Signatures :
                   /\ Hamming(near, partial) <= DeltaTolerance
                   /\ <<predictedEvents, near, k, cachedResults'>> \in AnswerRelation
      BY <3>1, EntryAnswersNearby
    <3>2. ASSUME NEW found \in ScopedSearch(predictedEvents, partial, k),
                 cachedResults' = found.results
          PROVE  \E near \in Signatures :
                   /\ Hamming(near, partial) <= DeltaTolerance
                   /\ <<predictedEvents, near, k, cachedResults'>> \in AnswerRelation
      BY <3>2, ScanAnswersItself, DeltaAssumption
    <3> QED
      BY <1>5, <3>1, <3>2 DEF Emitted
  <2> QED
    BY <1>5, <2>1 DEF Emitted, SpeculationAnswers
<1> QED
  BY <1>1, <1>2, <1>3, <1>4, <1>5, UtteranceSteps

\* The three kinds of answers and how far each may stray.
LEMMA SlackOf ==
  /\ Slack("Speculative") = DeltaTolerance + SpeculativeTolerance
  /\ Slack("DeltaCache") = DeltaTolerance
  /\ Slack("ShardScan") = 0
  /\ Slack("FullScan") = 0
  /\ \A s : Slack(s) \in Nat /\ Slack(s) <= DeltaTolerance + SpeculativeTolerance
BY DeltaAssumption, ContextAssumption DEF Slack

\* Each of the three ways finalize answers stays within its own drift.
LEMMA ServedNearQueryPreserved ==
  ASSUME TypeOK, SpeculationKeepsUp, predictedEvents \in inForce,
         EntriesAnswer, SpeculationAnswers, ServedNearQuery, [Next]_vars
  PROVE  ServedNearQuery'
<1>1. CASE UNCHANGED output
  BY <1>1 DEF ServedNearQuery, Origins
<1>2. ASSUME NEW q \in Signatures, NEW k \in TopKs,
             NEW results, NEW servedBy, NEW size,
             Replied(q, k, results, servedBy, size)
      PROVE  ServedNearQuery'
  <2>1. /\ output'.query = q
        /\ output'.k = k
        /\ output'.results = results
        /\ output'.servedBy = servedBy
        /\ output'.inForce = inForce
        /\ output'.predictedEvents = predictedEvents
    BY <1>2 DEF Replied
  <2>2. SUFFICES /\ Len(results) <= k
                 /\ \E E \in (IF servedBy = "Speculative" THEN inForce ELSE {predictedEvents}),
                      near \in Signatures, n \in TopKs :
                        /\ Hamming(near, q) <= Slack(servedBy)
                        /\ <<E, near, n, results>> \in AnswerRelation
    BY <2>1 DEF ServedNearQuery, Origins
  <2>3. CASE servedBy = "Speculative" /\ SpeculationFits(q, k) /\ results = cachedResults
    <3>1. /\ cachedForSig # NoSig
          /\ Hamming(cachedForSig, q) <= SpeculativeTolerance
          /\ Len(results) = k
      BY <2>3 DEF SpeculationFits
    <3>2. cachedForSig \in Signatures
      BY <3>1 DEF TypeOK
    <3>3. PICK E \in inForce, near \in Signatures, n \in TopKs :
            /\ Hamming(near, cachedForSig) <= DeltaTolerance
            /\ <<E, near, n, cachedResults>> \in AnswerRelation
      BY <3>1 DEF SpeculationAnswers
    <3>4. Hamming(near, q) <= DeltaTolerance + SpeculativeTolerance
      <4>1. /\ Hamming(near, q) <= Hamming(near, cachedForSig) + Hamming(cachedForSig, q)
            /\ Hamming(near, q) \in Nat
            /\ Hamming(near, cachedForSig) \in Nat
            /\ Hamming(cachedForSig, q) \in Nat
        BY <3>2, HammingTriangle, HammingIsMetric
      <4> QED
        BY <3>1, <3>3, <4>1, DeltaAssumption, ContextAssumption
    <3>5. Len(results) <= k
      BY <3>1, IndexAssumption
    <3> QED
      BY <2>3, <3>3, <3>4, <3>5, SlackOf
  <2>4. ASSUME servedBy = "DeltaCache",
               NEW i \in Nearest(delta[predictedEvents], q, k),
               results = delta[predictedEvents][i].results
        PROVE  /\ Len(results) <= k
               /\ \E near \in Signatures :
                    /\ Hamming(near, q) <= Slack(servedBy)
                    /\ <<predictedEvents, near, k, results>> \in AnswerRelation
    <3>1. PICK near \in Signatures :
            /\ Hamming(near, q) <= DeltaTolerance
            /\ <<predictedEvents, near, k, results>> \in AnswerRelation
      BY <2>4, EntryAnswersNearby
    <3>2. Len(results) <= k
      BY <3>1, AnswersAreExact
    <3> QED
      BY <2>4, <3>1, <3>2, SlackOf
  <2>5. ASSUME servedBy \in {"ShardScan", "FullScan"},
               NEW found \in ScopedSearch(predictedEvents, q, k),
               results = found.results
        PROVE  /\ Len(results) <= k
               /\ Hamming(q, q) <= Slack(servedBy)
               /\ <<predictedEvents, q, k, results>> \in AnswerRelation
    <3>1. Hamming(q, q) = 0 /\ <<predictedEvents, q, k, results>> \in AnswerRelation
      BY <2>5, ScanAnswersItself
    <3>2. Len(results) <= k
      BY <3>1, AnswersAreExact
    <3>3. Slack(servedBy) = 0
      BY <2>5, SlackOf
    <3> QED
      BY <3>1, <3>2, <3>3
  <2>6. /\ servedBy = "DeltaCache" => servedBy # "Speculative"
        /\ servedBy \in {"ShardScan", "FullScan"} => servedBy # "Speculative"
    OBVIOUS
  <2> QED
    BY <1>2, <2>3, <2>4, <2>5, <2>6 DEF Replied
<1> QED
  BY <1>1, <1>2, OutputSteps

\* The answers never drift: the strengthening is inductive.
THEOREM AnswersStayGrounded == Spec => []Grounded
<1>1. Init => Grounded
  <2> SUFFICES ASSUME Init
               PROVE  Grounded
    OBVIOUS
  <2>1. EntriesAnswer
    BY DEF Init, EntriesAnswer
  <2>2. predictedEvents \in inForce /\ SpeculationAnswers /\ ServedNearQuery
    BY DEF Init, SpeculationAnswers, ServedNearQuery
  <2> QED
    BY <2>1, <2>2 DEF Grounded
<1>2. TypeOK /\ SpeculationKeepsUp /\ Grounded /\ [Next]_vars => Grounded'
  <2> SUFFICES ASSUME TypeOK, SpeculationKeepsUp, Grounded, [Next]_vars
               PROVE  Grounded'
    OBVIOUS
  <2> QED
    BY EntriesAnswerPreserved, SpeculationAnswersPreserved, ServedNearQueryPreserved
       DEF Grounded
<1> QED
  BY <1>1, <1>2, TypeCorrect, SpeculationFollowsGate, PTL DEF Spec

\* finalize returns at most k results, which are the exact answer to a
\* query within the two tolerances of the one asked.
THEOREM AnswersNearQuery == Spec => []ServedNearQuery
BY AnswersStayGrounded, PTL DEF Grounded

\* The output is exact for a query near the one asked: what the two quality
\* bounds below follow from.
LEMMA OutputExactNearby ==
  ASSUME TypeOK, ServedNearQuery, output # NoOutput
  PROVE  \E E \in Origins(output), near \in Signatures :
           /\ output.query \in Signatures
           /\ Hamming(near, output.query) <= Slack(output.servedBy)
           /\ output.results \in Results
           /\ Exact(near, output.results)
           /\ UnionScope(E) # {} => Complete(near, UnionScope(E), output.results)
<1>1. output.query \in Signatures
  BY DEF TypeOK, Output
<1>2. PICK E \in Origins(output), near \in Signatures, n \in TopKs :
        /\ Hamming(near, output.query) <= Slack(output.servedBy)
        /\ <<E, near, n, output.results>> \in AnswerRelation
  BY DEF ServedNearQuery
<1> QED
  BY <1>1, <1>2, AnswersAreExact

\* Documents are as far from a query as from one near it, give or take.
LEMMA DistanceToNearby ==
  ASSUME NEW p \in Signatures, NEW q \in Signatures, NEW d \in Docs,
         NEW s \in Nat, Hamming(p, q) <= s
  PROVE  /\ DistanceTo(p, d) \in Nat /\ DistanceTo(q, d) \in Nat
         /\ DistanceTo(p, d) <= DistanceTo(q, d) + s
         /\ DistanceTo(q, d) <= DistanceTo(p, d) + s
<1>1. Corpus[d] \in Signatures
  BY IndexAssumption, ElementOfSeq DEF Docs
<1>2. /\ Hamming(p, q) \in Nat /\ Hamming(p, q) = Hamming(q, p)
      /\ Hamming(p, Corpus[d]) \in Nat /\ Hamming(q, Corpus[d]) \in Nat
      /\ Hamming(p, Corpus[d]) <= Hamming(p, q) + Hamming(q, Corpus[d])
      /\ Hamming(q, Corpus[d]) <= Hamming(q, p) + Hamming(p, Corpus[d])
  BY <1>1, HammingIsMetric, HammingTriangle
<1> QED
  BY <1>2 DEF DistanceTo

\* The distance reported with each hit is right up to the drift.
THEOREM HonestDistances == Spec => []DistancesHonest
<1>1. TypeOK /\ ServedNearQuery => DistancesHonest
  <2> SUFFICES ASSUME TypeOK, ServedNearQuery, output # NoOutput,
                      NEW i \in DOMAIN output.results
               PROVE  LET hit    == output.results[i]
                          actual == DistanceTo(output.query, hit.doc)
                      IN  /\ hit.dist <= actual + Slack(output.servedBy)
                          /\ actual <= hit.dist + Slack(output.servedBy)
    BY DEF DistancesHonest
  <2>1. PICK near \in Signatures :
          /\ output.query \in Signatures
          /\ Hamming(near, output.query) <= Slack(output.servedBy)
          /\ Exact(near, output.results)
    BY OutputExactNearby
  <2>2. /\ output.results[i].doc \in Docs
        /\ output.results[i].dist = DistanceTo(near, output.results[i].doc)
    BY <2>1 DEF Exact
  <2> QED
    BY <2>1, <2>2, SlackOf, DistanceToNearby
<1> QED
  BY <1>1, TypeCorrect, AnswersNearQuery, PTL

\* Under a prediction with documents, what is returned is at most twice the
\* drift worse than anything left out.
THEOREM BoundedRegret == Spec => []RegretBounded
<1>1. TypeOK /\ ServedNearQuery => RegretBounded
  <2> SUFFICES ASSUME TypeOK, ServedNearQuery, output # NoOutput,
                      \A E \in Origins(output) : UnionScope(E) # {}
               PROVE  \E E \in Origins(output) :
                        RegretWithin(output.results, output.query, UnionScope(E),
                                     Slack(output.servedBy))
    BY DEF RegretBounded
  <2>1. PICK E \in Origins(output), near \in Signatures :
          /\ output.query \in Signatures
          /\ Hamming(near, output.query) <= Slack(output.servedBy)
          /\ Exact(near, output.results)
          /\ Complete(near, UnionScope(E), output.results)
    BY OutputExactNearby
  <2>2. ASSUME NEW d \in Returned(output.results),
               NEW e \in (UnionScope(E) \cap Docs) \ Returned(output.results)
        PROVE  DistanceTo(output.query, d)
                 <= DistanceTo(output.query, e) + 2 * Slack(output.servedBy)
    <3>1. d \in Docs /\ e \in Docs
      BY <2>1 DEF Exact, Returned
    <3>2. DistanceTo(near, d) <= DistanceTo(near, e)
      BY <2>1 DEF Complete, Returned
    <3>3. /\ DistanceTo(near, d) \in Nat /\ DistanceTo(output.query, d) \in Nat
          /\ DistanceTo(output.query, d) <= DistanceTo(near, d) + Slack(output.servedBy)
      BY <2>1, <3>1, SlackOf, DistanceToNearby
    <3>4. /\ DistanceTo(near, e) \in Nat /\ DistanceTo(output.query, e) \in Nat
          /\ DistanceTo(near, e) <= DistanceTo(output.query, e) + Slack(output.servedBy)
      BY <2>1, <3>1, SlackOf, DistanceToNearby
    <3>5. Slack(output.servedBy) \in Nat
      BY SlackOf
    <3> QED
      BY <3>2, <3>3, <3>4, <3>5
  <2> QED
    BY <2>2 DEF RegretWithin
<1> QED
  BY <1>1, TypeCorrect, AnswersNearQuery, PTL

-----------------------------------------------------------------------------
(* The conversation implements the turn service. *)

\* Between turns the service sees nothing.
LEMMA OtherSteps ==
  ASSUME TypeOK, [Next]_vars, UNCHANGED output,
         UNCHANGED <<window, taught>> \/ (window # <<>> /\ window' = Aged(window) /\ UNCHANGED taught)
  PROVE  LastTurn' = LastTurn /\ UNCHANGED taught
<1>1. window \in Seq(Observation)
  BY DEF TypeOK
<1>2. CASE UNCHANGED <<window, taught>>
  BY <1>2 DEF LastTurn
<1>3. CASE window # <<>> /\ window' = Aged(window) /\ UNCHANGED taught
  <2>1. Len(window) \in 1..Len(window)
    BY <1>1, <1>3, EmptySeq
  <2>2. /\ Aged(window) \in Seq(Observation)
        /\ Len(Aged(window)) = Len(window)
        /\ Aged(window)[Len(window)].event = window[Len(window)].event
    BY <1>1, <2>1, AgedType
  <2>3. window' # <<>>
    BY <1>3, <2>1, <2>2, EmptySeq
  <2> QED
    BY <1>3, <2>2, <2>3 DEF LastTurn
<1> QED
  BY <1>2, <1>3

\* A turn advances the conversation by its event, if it has one.
LEMMA LearnAdvances ==
  ASSUME TypeOK, NEW event \in Events \cup {NoEvent}, Learn(event)
  PROVE  /\ LastTurn' = IF event = NoEvent THEN LastTurn ELSE event
         /\ taught' = IF NoEvent \in {LastTurn, event} THEN taught
                      ELSE taught \cup {<<LastTurn, event>>}
<1>1. window \in Seq(Observation) /\ Len(window) <= WindowCapacity
  BY DEF TypeOK
<1>2. NoEvent \notin Events
  BY IndexAssumption DEF Events
<1>3. CASE event = NoEvent
  BY <1>3 DEF Learn, LastTurn
<1>4. CASE event # NoEvent
  <2>1. /\ event \in Events
        /\ window' = ObserveTurn(window, event)
        /\ taught' = IF window = <<>> THEN taught
                     ELSE taught \cup {<<window[Len(window)].event, event>>}
    BY <1>4 DEF Learn
  <2>2. /\ window' \in Seq(Observation)
        /\ Len(window') \in 1..WindowCapacity
        /\ window'[Len(window')] = [event |-> event, age |-> 0]
    BY <1>1, <2>1, ObserveTurnAppends
  <2>3. window' # <<>>
    BY <2>2, EmptySeq
  <2>4. LastTurn' = event
    BY <2>2, <2>3 DEF LastTurn
  <2>5. window # <<>> => LastTurn \in Events
    <3>1. window # <<>> => Len(window) \in 1..Len(window)
      BY <1>1, EmptySeq
    <3>2. window # <<>> => window[Len(window)] \in Observation
      BY <1>1, <3>1, ElementOfSeq
    <3> QED
      BY <3>2 DEF Observation, LastTurn
  <2> QED
    BY <1>2, <1>4, <2>1, <2>4, <2>5 DEF LastTurn
<1> QED
  BY <1>3, <1>4

\* A finalize is a turn of the service.
LEMMA ReplyIsTurn ==
  ASSUME TypeOK, ServedNearQuery', NEW q \in Signatures, NEW k \in TopKs,
         NEW results, NEW servedBy, NEW size,
         Replied(q, k, results, servedBy, size), output' \in Output
  PROVE  Turns!Turn
<1>1. output' # NoOutput
  BY OutputAssumption
<1>2. /\ output'.query = q /\ output'.k = k /\ output'.results = results
      /\ output'.servedBy = servedBy
      /\ results \in Results
  BY DEF Replied, Output
<1>3. Reply' = [query |-> q, k |-> k, results |-> results]
  BY <1>1, <1>2 DEF Reply
<1>4. Reply' # NoOutput /\ Reply'.results = results
  BY <1>2, <1>3, OutputAssumption DEF Replies
<1>5. PICK E \in Origins(output'), near \in Signatures, n \in TopKs :
        /\ Hamming(near, q) <= Slack(servedBy)
        /\ <<E, near, n, results>> \in AnswerRelation
  BY <1>1, <1>2 DEF ServedNearQuery
<1>6. Len(results) <= k
  BY <1>1, <1>2 DEF ServedNearQuery
<1>7. Hamming(near, q) <= DeltaTolerance + SpeculativeTolerance
  BY <1>5, SlackOf, HammingIsMetric, DeltaAssumption, ContextAssumption
<1>8. Turns!GoodReply(q, k, results)
  BY <1>5, <1>6, <1>7 DEF Turns!GoodReply
<1>9. TopEvent(results) \in Events \cup {NoEvent} /\ Learn(TopEvent(results))
  BY TopEventType DEF Replied
<1>10. /\ LastTurn' = IF TopEvent(results) = NoEvent THEN LastTurn ELSE TopEvent(results)
       /\ taught' = IF NoEvent \in {LastTurn, TopEvent(results)} THEN taught
                    ELSE taught \cup {<<LastTurn, TopEvent(results)>>}
  BY <1>9, LearnAdvances
<1> QED
  BY <1>3, <1>4, <1>8, <1>10 DEF Turns!Turn

\* A conversation is a turn service: with its gate, its speculation and its
\* cache it answers and learns as the service does without them.
THEOREM ConversationIsTurnService == Spec => ImplementsTurns
<1>1. Init => Turns!Init
  BY DEF Init, Turns!Init, Reply, LastTurn
<1>2. TypeOK /\ TypeOK' /\ ServedNearQuery' /\ [Next]_vars => [Turns!Turn]_(Turns!vars)
  <2> SUFFICES ASSUME TypeOK, TypeOK', ServedNearQuery', [Next]_vars
               PROVE  Turns!Turn \/ UNCHANGED <<Reply, LastTurn, taught>>
    BY DEF Turns!vars
  <2>1. CASE /\ UNCHANGED output
             /\ \/ UNCHANGED <<window, taught>>
                \/ window # <<>> /\ window' = Aged(window) /\ UNCHANGED taught
    BY <2>1, OtherSteps DEF Reply
  <2>2. ASSUME NEW q \in Signatures, NEW k \in TopKs,
               NEW results, NEW servedBy, NEW size,
               Replied(q, k, results, servedBy, size)
        PROVE  Turns!Turn
    BY <2>2, ReplyType, ReplyIsTurn
  <2> QED
    BY <2>1, <2>2, OutputSteps
<1> QED
  BY <1>1, <1>2, TypeCorrect, AnswersNearQuery, PTL DEF Spec, ImplementsTurns, Turns!Spec

=============================================================================
