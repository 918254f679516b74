------------------------ MODULE ShardedSearch_proofs ------------------------
(***************************************************************************)
(* Theorems about searches through lazily built shards, for any corpus and *)
(* scopes, any number of threads, requests, saves, loads and restarts: who *)
(* holds the lock is where it says, a shard is built once, what is put     *)
(* together from shards is an honest answer, and not an empty one, and a   *)
(* scan returns k nearest documents of its scope however it is split over  *)
(* rayon's threads and its heaps are joined.                               *)
(***************************************************************************)
EXTENDS ShardedSearch, OrderLemmas

-----------------------------------------------------------------------------
(* Types, and the lock. *)

\* One thread moves and the read lock changes hands, or does not.
LEMMA ReadersFollow ==
  ASSUME NEW t \in Threads, NEW to \in Places,
         at \in [Threads -> Places], Goes(t, to),
         readers = {u \in Threads : at[u] \in {"reading", "saving"}},
         readers' = IF to \in {"reading", "saving"} THEN readers \cup {t} ELSE readers \ {t}
  PROVE  /\ at' \in [Threads -> Places]
         /\ at'[t] = to /\ \A u \in Threads \ {t} : at'[u] = at[u]
         /\ readers' = {u \in Threads : at'[u] \in {"reading", "saving"}}
BY DEF Goes

\* Likewise the write lock.
LEMMA WriterFollows ==
  ASSUME NEW t \in Threads, NEW to \in Places,
         at \in [Threads -> Places], Goes(t, to),
         {writer} \ {NoThread} = {u \in Threads : at[u] \in {"writing", "rebuilding"}},
         \/ /\ at[t] \notin {"writing", "rebuilding"} /\ to \notin {"writing", "rebuilding"}
            /\ writer' = writer
         \/ /\ to \in {"writing", "rebuilding"} /\ writer = NoThread /\ writer' = t
         \/ /\ at[t] \in {"writing", "rebuilding"} /\ to \notin {"writing", "rebuilding"}
            /\ writer' = NoThread
  PROVE  {writer'} \ {NoThread} = {u \in Threads : at'[u] \in {"writing", "rebuilding"}}
BY ShardedAssumption DEF Goes

LEMMA EventsFinite == IsFiniteSet(Events)
BY IndexAssumption, LenProperties, FS_Interval DEF Events

THEOREM TypeCorrect == Spec => []TypeOK
<1>1. Init => TypeOK
  <2> SUFFICES ASSUME Init PROVE TypeOK
    OBVIOUS
  <2>1. at \in [Threads -> Places] /\ \A t \in Threads : at[t] = "idle"
    BY DEF Init, Places
  <2>2. warmFile # NoFile => IsFiniteSet(warmFile)
    BY ShardedAssumption DEF Init
  <2>3. builds \in [Events -> Nat] /\ built \subseteq Events
    BY DEF Init
  <2> QED
    BY <2>1, <2>2, <2>3 DEF Init, TypeOK
<1>2. TypeOK /\ [Next]_vars => TypeOK'
  <2> SUFFICES ASSUME TypeOK, [Next]_vars PROVE TypeOK'
    OBVIOUS
  <2>1. CASE UNCHANGED vars
    BY <2>1 DEF vars, lockVars, searchVars, countVars, TypeOK
  <2>2. CASE Restart
    BY <2>2 DEF Restart, TypeOK, Places
  <2>3. ASSUME NEW t \in Threads, Begin(t)
        PROVE  TypeOK'
    <3>1. UNCHANGED <<built, builds, lockVars, warmFile>> /\ at[t] = "idle"
      BY <2>3 DEF Begin, Take
    <3>2. CASE UNCHANGED <<at, todo>>
      BY <3>1, <3>2 DEF TypeOK, lockVars
    <3>3. CASE Goes(t, "lookup") /\ \E events : todo' = [todo EXCEPT ![t] = events]
      <4>1. PICK events : todo' = [todo EXCEPT ![t] = events]
        BY <3>3
      <4>2. \A u \in Threads \ {t} : todo'[u] = todo[u]
        BY <4>1
      <4> QED
        BY <3>1, <3>3, <4>2, ReadersFollow, WriterFollows DEF TypeOK, lockVars, Places
    <3> QED
      <4>1. ASSUME NEW rq, NEW found, BeginFlat(t, rq, found)
            PROVE  TypeOK'
        BY <3>2, <4>1 DEF BeginFlat
      <4>2. ASSUME NEW rq, NEW found, BeginRescan(t, rq, found)
            PROVE  TypeOK'
        BY <3>2, <4>2 DEF BeginRescan
      <4>3. ASSUME NEW rq, NEW found, BeginShards(t, rq, found)
            PROVE  TypeOK'
        BY <3>3, <4>3 DEF BeginShards
      <4> QED
        BY <2>3, <4>1, <4>2, <4>3 DEF Begin
  <2>4. ASSUME NEW t \in Threads, Save(t)
        PROVE  TypeOK'
    <3>1. /\ Goes(t, "saving") /\ at[t] = "idle" /\ LockRead(t)
          /\ UNCHANGED <<built, builds, warmFile, todo>>
      BY <2>4 DEF Save, Take, searchVars
    <3> QED
      BY <3>1, ReadersFollow, WriterFollows DEF TypeOK, LockRead, Places
  <2>5. ASSUME NEW t \in Threads, Load(t)
        PROVE  TypeOK'
    <3>1. /\ Goes(t, "loading") /\ at[t] = "idle"
          /\ UNCHANGED <<built, builds, warmFile, todo, readers, writer>>
      BY <2>5 DEF Load, Take, searchVars, lockVars
    <3> QED
      BY <3>1, ReadersFollow, WriterFollows DEF TypeOK, Places
  <2>6. ASSUME NEW t \in Threads, Lookup(t)
        PROVE  TypeOK'
    <3>1. /\ Goes(t, "reading") /\ at[t] = "lookup" /\ LockRead(t) /\ todo[t] # <<>>
          /\ UNCHANGED <<built, builds, warmFile, todo>>
      BY <2>6 DEF Lookup, searchVars
    <3> QED
      BY <3>1, ReadersFollow, WriterFollows DEF TypeOK, LockRead, Places
  <2>7. ASSUME NEW t \in Threads, ReadHit(t)
        PROVE  TypeOK'
    <3>1. /\ Goes(t, "lookup") /\ at[t] = "reading" /\ UnlockRead(t)
          /\ UNCHANGED <<built, builds, warmFile>>
          /\ \A u \in Threads \ {t} : todo'[u] = todo[u]
      BY <2>7 DEF ReadHit, NextEvent
    <3> QED
      BY <3>1, ReadersFollow, WriterFollows DEF TypeOK, UnlockRead, Places
  <2>8. ASSUME NEW t \in Threads, ReadMiss(t)
        PROVE  TypeOK'
    <3>1. /\ Goes(t, "upgrade") /\ at[t] = "reading" /\ UnlockRead(t)
          /\ UNCHANGED <<built, builds, warmFile, todo>>
      BY <2>8 DEF ReadMiss, searchVars
    <3> QED
      BY <3>1, ReadersFollow, WriterFollows DEF TypeOK, UnlockRead, Places
  <2>9. ASSUME NEW t \in Threads, Upgrade(t)
        PROVE  TypeOK'
    <3>1. /\ Goes(t, "writing") /\ at[t] = "upgrade" /\ LockWrite(t)
          /\ UNCHANGED <<built, builds, warmFile, todo>>
      BY <2>9 DEF Upgrade, searchVars
    <3> QED
      BY <3>1, ReadersFollow, WriterFollows DEF TypeOK, LockWrite, Places
  <2>10. ASSUME NEW t \in Threads, WriteAndAsk(t)
         PROVE  TypeOK'
    <3>1. /\ Goes(t, "lookup") /\ at[t] = "writing" /\ UnlockWrite
          /\ UNCHANGED warmFile
          /\ \A u \in Threads \ {t} : todo'[u] = todo[u]
      BY <2>10 DEF WriteAndAsk, NextEvent
    <3>2. built' \subseteq Events /\ builds' \in [Events -> Nat]
      BY <2>10 DEF WriteAndAsk, TypeOK, Missing, Large
    <3> QED
      BY <3>1, <3>2, ReadersFollow, WriterFollows DEF TypeOK, UnlockWrite, Places
  <2>11. ASSUME NEW t \in Threads, Finish(t)
         PROVE  TypeOK'
    <3>1. /\ Goes(t, "idle") /\ at[t] = "lookup"
          /\ UNCHANGED <<built, builds, warmFile, todo, readers, writer>>
      BY <2>11 DEF Finish, lockVars
    <3> QED
      BY <3>1, ReadersFollow, WriterFollows DEF TypeOK, Places
  <2>12. ASSUME NEW t \in Threads, SaveWrite(t)
         PROVE  TypeOK'
    <3>1. /\ Goes(t, "idle") /\ at[t] = "saving" /\ UnlockRead(t)
          /\ UNCHANGED <<built, builds, todo>> /\ warmFile' = built
      BY <2>12 DEF SaveWrite, searchVars
    <3>2. IsFiniteSet(warmFile')
      BY <3>1, EventsFinite, FS_Subset DEF TypeOK
    <3> QED
      BY <3>1, <3>2, ReadersFollow, WriterFollows DEF TypeOK, UnlockRead, Places
  <2>13. ASSUME NEW t \in Threads, LoadLock(t)
         PROVE  TypeOK'
    <3>1. /\ Goes(t, "rebuilding") /\ at[t] = "loading" /\ LockWrite(t)
          /\ UNCHANGED <<built, builds, warmFile, todo>>
      BY <2>13 DEF LoadLock, searchVars
    <3> QED
      BY <3>1, ReadersFollow, WriterFollows DEF TypeOK, LockWrite, Places
  <2>14. ASSUME NEW t \in Threads, LoadRebuild(t)
         PROVE  TypeOK'
    <3>1. /\ Goes(t, "idle") /\ at[t] = "rebuilding" /\ UnlockWrite
          /\ UNCHANGED <<warmFile, todo>>
      BY <2>14 DEF LoadRebuild, searchVars
    <3>2. built' \subseteq Events /\ builds' \in [Events -> Nat]
      BY <2>14 DEF LoadRebuild, TypeOK, Missing, Large
    <3> QED
      BY <3>1, <3>2, ReadersFollow, WriterFollows DEF TypeOK, UnlockWrite, Places
  <2> QED
    BY <2>1, <2>2, <2>3, <2>4, <2>5, <2>6, <2>7, <2>8, <2>9, <2>10, <2>11, <2>12, <2>13, <2>14
       DEF Next, Step
<1> QED
  BY <1>1, <1>2, PTL DEF Spec

-----------------------------------------------------------------------------
(* The shards. *)

\* What a step does to the map of shards.
LEMMA ShardSteps ==
  ASSUME TypeOK, [Next]_vars
  PROVE  \/ UNCHANGED <<built, builds>>
         \/ built' = {} /\ builds' = [e \in Events |-> 0]
         \/ \E new \in SUBSET {e \in Events : Missing(e)} :
              /\ built' = built \cup new
              /\ builds' = [e \in Events |-> builds[e] + (IF e \in new THEN 1 ELSE 0)]
<1>1. ASSUME NEW t \in Threads, WriteAndAsk(t)
      PROVE  \E new \in SUBSET {e \in Events : Missing(e)} :
               /\ built' = built \cup new
               /\ builds' = [e \in Events |-> builds[e] + (IF e \in new THEN 1 ELSE 0)]
  <2> DEFINE new == {e \in {Head(todo[t])} : Missing(e)}
  <2>1. new \in SUBSET {e \in Events : Missing(e)}
    BY DEF Missing, Large
  <2>2. built' = built \cup new
    BY <1>1 DEF WriteAndAsk
  <2>3. builds' = [s \in Events |-> builds[s] + (IF s = Head(todo[t]) /\ Missing(Head(todo[t]))
                                                 THEN 1 ELSE 0)]
    BY <1>1 DEF WriteAndAsk
  <2>4. \A e \in Events : e \in new <=> (e = Head(todo[t]) /\ Missing(Head(todo[t])))
    OBVIOUS
  <2> QED
    BY <2>1, <2>2, <2>3, <2>4
<1>2. ASSUME NEW t \in Threads, LoadRebuild(t)
      PROVE  \E new \in SUBSET {e \in Events : Missing(e)} :
               /\ built' = built \cup new
               /\ builds' = [e \in Events |-> builds[e] + (IF e \in new THEN 1 ELSE 0)]
  BY <1>2 DEF LoadRebuild, Missing, Large
<1>3. ASSUME NEW t \in Threads, Begin(t) \/ Save(t) \/ Load(t)
      PROVE  UNCHANGED <<built, builds>>
  BY <1>3 DEF Begin, Save, Load
<1>4. ASSUME NEW t \in Threads,
             \/ Lookup(t) \/ ReadHit(t) \/ ReadMiss(t) \/ Upgrade(t) \/ Finish(t)
             \/ SaveWrite(t) \/ LoadLock(t)
      PROVE  UNCHANGED <<built, builds>>
  BY <1>4 DEF Lookup, ReadHit, ReadMiss, Upgrade, Finish, SaveWrite, LoadLock
<1>5. CASE Restart
  BY <1>5 DEF Restart
<1>6. CASE UNCHANGED vars
  BY <1>6 DEF vars
<1> QED
  BY <1>1, <1>2, <1>3, <1>4, <1>5, <1>6 DEF Next, Step

\* However lookups, builds and loads interleave, a process builds a shard
\* once, and only of an event that is worth it.
THEOREM BuiltOnceAlways == Spec => []BuiltOnce
<1>1. Init => BuiltOnce
  BY DEF Init, BuiltOnce
<1>2. TypeOK /\ BuiltOnce /\ [Next]_vars => BuiltOnce'
  <2> SUFFICES ASSUME TypeOK, BuiltOnce, [Next]_vars PROVE BuiltOnce'
    OBVIOUS
  <2>1. CASE UNCHANGED <<built, builds>>
    BY <2>1 DEF BuiltOnce, Large
  <2>2. CASE built' = {} /\ builds' = [e \in Events |-> 0]
    BY <2>2 DEF BuiltOnce
  <2>3. ASSUME NEW new \in SUBSET {e \in Events : Missing(e)}, built' = built \cup new,
               builds' = [e \in Events |-> builds[e] + (IF e \in new THEN 1 ELSE 0)]
        PROVE  BuiltOnce'
    <3> SUFFICES ASSUME NEW e \in Events
                 PROVE  /\ builds'[e] = IF e \in built' THEN 1 ELSE 0
                        /\ e \in built' => Large(e)
      BY DEF BuiltOnce, Large
    <3>1. e \in new => Missing(e)
      OBVIOUS
    <3> QED
      BY <2>3, <3>1 DEF BuiltOnce, Missing
  <2> QED
    BY <2>1, <2>2, <2>3, ShardSteps
<1> QED
  BY <1>1, <1>2, TypeCorrect, PTL DEF Spec

-----------------------------------------------------------------------------
(* Documents. *)

\* A document's event is an event of the catalog or none.
LEMMA DocEventType ==
  ASSUME NEW d
  PROVE  DocEvent(d) \in Events \cup {NoEvent}
<1> DEFINE owners == {e \in Events : d \in Scopes[e]}
<1>1. Len(Scopes) \in Nat
  BY IndexAssumption, LenProperties
<1>2. owners # {} => Max(owners) \in owners
  <2>1. owners \in SUBSET (0..Len(Scopes))
    BY <1>1 DEF Events
  <2> HIDE DEF owners
  <2> QED
    BY <1>1, <2>1, MaxIsGreatest
<1> QED
  BY <1>2 DEF DocEvent

\* Corpus distances are naturals.
LEMMA DistanceToType ==
  ASSUME NEW q \in Signatures, NEW d \in Docs
  PROVE  DistanceTo(q, d) \in Nat
<1>1. <<q, Corpus[d]>> \in Signatures \X Signatures
  BY IndexAssumption, ElementOfSeq DEF Docs
<1>2. Distance[<<q, Corpus[d]>>] \in Nat
  BY <1>1, DistanceType
<1> QED
  BY Zenon, <1>2 DEF DistanceTo, Hamming

\* The corpus has finitely many documents.
LEMMA DocsFinite ==
  /\ Len(Corpus) \in Nat
  /\ IsFiniteSet(Docs)
  /\ Cardinality(Docs) \in Nat
BY IndexAssumption, LenProperties, FS_Interval, FS_CardinalityType DEF Docs

-----------------------------------------------------------------------------
(* What the shards' hits come to. *)

\* The candidates are finitely many, and listed.
LEMMA SeedsListed ==
  ASSUME NEW hits, NEW k
  PROVE  Seeds(hits, k) \in Seq(Range(Seeds(hits, k)))
<1> DEFINE cut == Prefix(hits, AtLeast(4 * k, 1))
           limit == AtLeast(MaxCandidateEvents, 1)
           events == CandidateEvents(cut, limit)
<1>1. events \subseteq Events
  <2>1. \A d : DocEvent(d) \in Events \cup {NoEvent}
    BY DocEventType
  <2> HIDE DEF cut, limit
  <2>2. ASSUME NEW e \in events
        PROVE  \E d : e = DocEvent(d) /\ e # NoEvent
    BY <2>2 DEF CandidateEvents
  <2> QED
    BY Zenon, <2>1, <2>2
<1>2. Cardinality(events) \in Nat
  BY <1>1, EventsFinite, FS_Subset, FS_CardinalityType
<1>3. PICK n : n = Cardinality(events)
  OBVIOUS
<1>4. PICK list : list = Seeds(hits, k)
  OBVIOUS
<1> HIDE DEF events
<1> DEFINE first(e) == Min({i \in DOMAIN cut : DocEvent(cut[i].doc) = e})
           item(r) == CHOOSE x \in events : Cardinality({y \in events : first(y) < first(x)}) = r - 1
<1> HIDE DEF item
<1>5. list = [r \in 1..n |-> item(r)]
  BY Zenon, <1>3, <1>4 DEF Seeds, CandidateList, Ordered, item, events
<1>6. list \in [1..n -> Range(list)]
  BY <1>5 DEF Range
<1> HIDE DEF cut, limit
<1> QED
  BY <1>2, <1>3, <1>4, <1>6, SeqDef

\* The merged list: sorted, cut to k, of the hits that went in.
LEMMA MergedSorted ==
  ASSUME NEW hits \in Results, NEW k \in Nat
  PROVE  /\ MergeSorted(hits, k) \in Results
         /\ Len(MergeSorted(hits, k)) = AtMost(k, Len(hits))
         /\ \A i \in DOMAIN MergeSorted(hits, k) :
              \E j \in DOMAIN hits : MergeSorted(hits, k)[i] = hits[j]
         /\ Sorted(MergeSorted(hits, k))
<1>1. PICK n \in Nat : n = Len(hits) /\ DOMAIN hits = 1..n
  BY LenProperties DEF Results
<1>2. \A i \in 1..n : hits[i] \in Hit /\ hits[i].dist \in Nat
  <2>1. \A i \in 1..n : hits[i] \in Hit
    BY <1>1, ElementOfSeq DEF Results
  <2> QED
    BY <2>1 DEF Hit
<1>3. IsFiniteSet(1..n) /\ Cardinality(1..n) = n
  BY FS_Interval
<1> DEFINE before(i, j) == hits[i].dist < hits[j].dist \/ (hits[i].dist = hits[j].dist /\ i < j)
<1>4. PICK R : R = {p \in (1..n) \X (1..n) : before(p[1], p[2])}
  OBVIOUS
<1>5. \A i, j \in 1..n : <<i, j>> \in R <=> before(i, j)
  BY <1>4
<1>6. StrictOrder(1..n, R)
  BY <1>2, <1>5 DEF StrictOrder
<1>7. ASSUME NEW x \in 1..n
      PROVE  {y \in 1..n : before(y, x)} = Ahead(1..n, R, x)
  BY <1>5 DEF Ahead
<1>8. PICK order : order = Listing(1..n, R)
  OBVIOUS
<1>9. /\ order \in [1..n -> 1..n]
      /\ \A i, j \in 1..n : i < j => <<order[i], order[j]>> \in R
  <2>1. /\ Listing(1..n, R) \in [1..Cardinality(1..n) -> 1..n]
        /\ \A i, j \in 1..Cardinality(1..n) :
             i < j => <<Listing(1..n, R)[i], Listing(1..n, R)[j]>> \in R
    BY <1>3, <1>6, ListedInOrder
  <2> QED
    BY Zenon, <1>3, <1>8, <2>1
<1>10. PICK sorted : sorted = [r \in 1..n |-> hits[order[r]]]
  OBVIOUS
<1>11. MergeSorted(hits, k) = Prefix(sorted, k)
  <2> HIDE DEF before
  <2>1. Ordered(1..n, before) = order
    <3>1. \A r : (CHOOSE x \in 1..n : Cardinality({y \in 1..n : before(y, x)}) = r - 1)
                 = (CHOOSE x \in 1..n : Cardinality(Ahead(1..n, R, x)) = r - 1)
      BY Zenon, <1>7
    <3>2. Ordered(1..n, before) =
            [r \in 1..Cardinality(1..n) |->
               CHOOSE x \in 1..n : Cardinality({y \in 1..n : before(y, x)}) = r - 1]
      BY Zenon DEF Ordered
    <3> QED
      BY Zenon, <1>3, <1>8, <3>1, <3>2 DEF Listing
  <2>2. MergeSorted(hits, k) = Prefix([r \in DOMAIN hits |-> hits[Ordered(DOMAIN hits, before)[r]]], k)
    BY Zenon DEF MergeSorted, before
  <2> QED
    BY Zenon, <1>1, <1>10, <2>1, <2>2
<1>12. sorted \in [1..n -> Hit]
  BY <1>2, <1>9, <1>10
<1>13. sorted \in Seq(Hit) /\ Len(sorted) = n
  BY <1>12, SeqDef, LenProperties
<1>14. PICK m : m = AtMost(k, n)
  OBVIOUS
<1>15. m \in Nat /\ m <= n
  BY <1>14 DEF AtMost
<1>16. PICK cut : cut = SubSeq(sorted, 1, m)
  OBVIOUS
<1>17. /\ cut \in Seq(Hit) /\ Len(cut) = m
       /\ \A i \in 1..m : cut[i] = sorted[i]
  <2>1. \A i \in 1..m : sorted[i] \in Hit
    BY <1>12, <1>15
  <2> QED
    BY <1>15, <1>16, <2>1, SubSeqProperties
<1>18. DOMAIN cut = 1..m
  BY <1>17, LenProperties
<1>19. MergeSorted(hits, k) = cut
  BY Zenon, <1>11, <1>13, <1>14, <1>16 DEF Prefix
<1>20. ASSUME NEW i \in DOMAIN cut
       PROVE  i \in 1..n /\ order[i] \in 1..n /\ cut[i] = hits[order[i]]
  <2>1. i \in 1..m /\ i \in 1..n
    BY <1>15, <1>18
  <2>2. cut[i] = sorted[i]
    BY <1>17, <2>1
  <2>3. sorted[i] = hits[order[i]]
    BY <1>10, <2>1
  <2>4. order[i] \in 1..n
    BY <1>9, <2>1
  <2> QED
    BY <2>1, <2>2, <2>3, <2>4
<1>21. Sorted(cut)
  <2> SUFFICES ASSUME NEW i \in DOMAIN cut, NEW j \in DOMAIN cut, i < j
               PROVE  cut[i].dist <= cut[j].dist
    BY DEF Sorted
  <2>1. i \in 1..n /\ j \in 1..n
    BY <1>15, <1>18
  <2>2. PICK a \in 1..n, b \in 1..n : a = order[i] /\ b = order[j]
    BY <1>20
  <2>3. before(a, b)
    BY <1>5, <1>9, <2>1, <2>2
  <2>4. hits[a].dist \in Nat /\ hits[b].dist \in Nat
    BY <1>2
  <2>5. hits[a].dist <= hits[b].dist
    BY <2>3, <2>4
  <2>6. cut[i] = hits[a] /\ cut[j] = hits[b]
    BY Zenon, <1>20, <2>2
  <2> QED
    BY Zenon, <2>5, <2>6
<1> QED
  BY <1>1, <1>14, <1>17, <1>19, <1>20, <1>21 DEF Results

\* A shard answers, and with documents of its event.
LEMMA ShardAnswersSomething ==
  ASSUME NEW e \in Events, NEW q \in Signatures, NEW k, NEW hits \in ShardAnswers(e, q, k)
  PROVE  /\ hits \in Results
         /\ hits # <<>>
         /\ \A i \in DOMAIN hits : /\ hits[i].dist = DistanceTo(q, hits[i].doc)
                                   /\ hits[i].doc \in Scopes[e]
<1>1. PICK S \in SUBSET Scopes[e] : S # {} /\ \E r \in Rankings(q, S) : hits = HitsOf(q, r)
  BY Zenon DEF ShardAnswers
<1>2. PICK r \in Rankings(q, S) : hits = HitsOf(q, r)
  BY <1>1
<1>3. S \subseteq Docs /\ IsFiniteSet(S)
  BY ScopesInCorpus, DocsFinite, FS_Subset
<1>4. PICK n : n = Cardinality(S)
  OBVIOUS
<1>5. n \in Nat /\ n # 0
  BY <1>1, <1>3, <1>4, FS_CardinalityType, FS_EmptySet
<1>6. r \in [1..n -> S]
  BY <1>4 DEF Rankings
<1>7. hits = [i \in 1..n |-> [dist |-> DistanceTo(q, r[i]), doc |-> r[i]]]
  BY <1>2, <1>6 DEF HitsOf
<1>8. \A i \in 1..n : r[i] \in S /\ DistanceTo(q, r[i]) \in Nat
  BY <1>3, <1>6, DistanceToType
<1>9. hits \in [1..n -> Hit]
  BY <1>3, <1>7, <1>8 DEF Hit
<1>10. hits \in Seq(Hit) /\ Len(hits) = n
  BY <1>5, <1>9, SeqDef, LenProperties
<1>11. hits # <<>>
  BY <1>5, <1>10, EmptySeq
<1> QED
  BY <1>7, <1>8, <1>10, <1>11 DEF Results

-----------------------------------------------------------------------------
(* A search on its way through the shards. *)

Asking(t) == at[t] \in {"lookup", "reading", "upgrade", "writing"}
Named(t)  == Range(Seeds(coarse[t], request[t].k))

\* What was found so far is of the events named, with true distances; an event
\* that is large enough is still to be asked or has something been found.
AskedSoFar(t) ==
  Asking(t) =>
    /\ request[t] \in Requests
    /\ todo[t] \in Seq(Named(t))
    /\ merged[t] \in Results
    /\ \A i \in DOMAIN merged[t] :
         /\ merged[t][i].dist = DistanceTo(request[t].query, merged[t][i].doc)
         /\ merged[t][i].doc \in UnionScope(Named(t))
    /\ \A e \in Named(t) : Large(e) => e \in Range(todo[t]) \/ merged[t] # <<>>

ShardInv ==
  /\ Threads = DOMAIN request
  /\ Threads = DOMAIN coarse
  /\ Threads = DOMAIN todo
  /\ Threads = DOMAIN merged
  /\ Threads = DOMAIN result
  /\ \A t \in Threads : AskedSoFar(t)
  /\ ShardAnswersHonest
  /\ LargeEventAnswers

\* A thread that does not search through shards, or does not move, is as it was.
LEMMA OthersKeep ==
  ASSUME NEW u \in Threads, AskedSoFar(u),
         \/ /\ at'[u] = at[u] \/ (Asking(u) /\ Asking(u)')
            /\ request'[u] = request[u] /\ coarse'[u] = coarse[u]
            /\ todo'[u] = todo[u] /\ merged'[u] = merged[u]
         \/ ~Asking(u)'
  PROVE  AskedSoFar(u)'
BY DEF AskedSoFar, Asking, Named, Large

\* The first event named has been asked, or has no shard.
LEMMA AskedNext ==
  ASSUME NEW t \in Threads, AskedSoFar(t), Asking(t), todo[t] # <<>>,
         todo'[t] = Tail(todo[t]), request'[t] = request[t], coarse'[t] = coarse[t],
         \/ merged'[t] = merged[t] /\ ~Large(Head(todo[t]))
         \/ /\ Head(todo[t]) \in Events
            /\ \E hits \in ShardAnswers(Head(todo[t]), request[t].query, request[t].k) :
                 merged'[t] = merged[t] \o hits
  PROVE  AskedSoFar(t)'
<1>1. PICK N, list, found, q, k, e :
        /\ N = Named(t) /\ list = todo[t] /\ found = merged[t] /\ e = Head(list)
        /\ q = request[t].query /\ k = request[t].k
  OBVIOUS
<1>2. /\ request[t] \in Requests /\ list \in Seq(N) /\ found \in Results
      /\ \A i \in DOMAIN found : /\ found[i].dist = DistanceTo(q, found[i].doc)
                                 /\ found[i].doc \in UnionScope(N)
      /\ \A d \in N : Large(d) => d \in Range(list) \/ found # <<>>
  BY <1>1 DEF AskedSoFar
<1>3. q \in Signatures /\ Named(t)' = N /\ list # <<>> /\ todo'[t] = Tail(list)
  <2>1. q \in Signatures
    BY <1>1, <1>2, ShardedAssumption
  <2>2. Named(t)' = N
    BY <1>1 DEF Named
  <2> QED
    BY <1>1, <2>1, <2>2
<1>4. /\ e \in N /\ Tail(list) \in Seq(N)
      /\ \A d \in Range(list) : d = e \/ d \in Range(Tail(list))
  <2>1. e \in N /\ Tail(list) \in Seq(N)
    BY <1>1, <1>2, <1>3, HeadTailProperties
  <2>2. ASSUME NEW i \in DOMAIN list
        PROVE  list[i] = e \/ list[i] \in Range(Tail(list))
    <3>1. /\ Len(list) \in Nat /\ DOMAIN list = 1..Len(list)
          /\ Len(Tail(list)) = Len(list) - 1
          /\ \A j \in 1..Len(Tail(list)) : Tail(list)[j] = list[j + 1]
      BY <1>2, <1>3, LenProperties, HeadTailProperties
    <3>2. DOMAIN Tail(list) = 1..Len(Tail(list))
      BY <2>1, LenProperties
    <3>3. CASE i = 1
      BY <1>1, <3>3
    <3>4. CASE i # 1
      <4>1. i - 1 \in 1..Len(Tail(list)) /\ Tail(list)[i - 1] = list[i]
        BY <3>1, <3>4
      <4> QED
        BY <3>2, <4>1 DEF Range
    <3> QED
      BY <3>3, <3>4
  <2> QED
    BY <2>1, <2>2 DEF Range
<1>5. CASE merged'[t] = found /\ ~Large(e)
  <2>1. \A d \in N : Large(d) => d \in Range(Tail(list)) \/ found # <<>>
    BY <1>2, <1>4, <1>5
  <2>2. /\ request'[t] \in Requests /\ todo'[t] \in Seq(Named(t)') /\ merged'[t] \in Results
        /\ \A d \in Named(t)' : Large(d) => d \in Range(todo'[t]) \/ merged'[t] # <<>>
        /\ request'[t].query = q
    BY <1>1, <1>2, <1>3, <1>4, <1>5, <2>1
  <2>3. \A i \in DOMAIN merged'[t] : /\ merged'[t][i].dist = DistanceTo(q, merged'[t][i].doc)
                                     /\ merged'[t][i].doc \in UnionScope(Named(t)')
    BY <1>2, <1>3, <1>5
  <2> QED
    BY <2>2, <2>3 DEF AskedSoFar, Large
<1>6. ASSUME e \in Events, NEW hits \in ShardAnswers(e, q, k), merged'[t] = found \o hits
      PROVE  AskedSoFar(t)'
  <2>1. /\ hits \in Results /\ hits # <<>>
        /\ \A i \in DOMAIN hits : /\ hits[i].dist = DistanceTo(q, hits[i].doc)
                                  /\ hits[i].doc \in Scopes[e]
    BY <1>3, <1>6, ShardAnswersSomething
  <2>2. PICK all : all = found \o hits
    OBVIOUS
  <2>3. PICK m \in Nat, n \in Nat : /\ m = Len(found) /\ DOMAIN found = 1..m
                                    /\ n = Len(hits) /\ DOMAIN hits = 1..n /\ n # 0
    BY <1>2, <2>1, LenProperties, EmptySeq DEF Results
  <2>4. /\ all \in Seq(Hit) /\ Len(all) = m + n
        /\ \A i \in 1..(m + n) : all[i] = IF i <= m THEN found[i] ELSE hits[i - m]
    BY <1>2, <2>1, <2>2, <2>3, ConcatProperties DEF Results
  <2>5. DOMAIN all = 1..(m + n) /\ all # <<>>
    BY <2>3, <2>4, LenProperties, EmptySeq
  <2>6. ASSUME NEW i \in DOMAIN all
        PROVE  all[i].dist = DistanceTo(q, all[i].doc) /\ all[i].doc \in UnionScope(N)
    <3>1. CASE i <= m
      <4>1. i \in DOMAIN found /\ all[i] = found[i]
        BY <2>3, <2>4, <2>5, <3>1
      <4> QED
        BY <1>2, <4>1
    <3>2. CASE ~(i <= m)
      <4>1. i - m \in DOMAIN hits /\ all[i] = hits[i - m]
        BY <2>3, <2>4, <2>5, <3>2
      <4> QED
        BY <1>4, <1>6, <2>1, <4>1 DEF UnionScope
    <3> QED
      BY <3>1, <3>2
  <2>7. merged'[t] = all /\ all \in Results
    BY <1>6, <2>2, <2>4 DEF Results
  <2> QED
    <3>1. /\ request'[t] \in Requests /\ todo'[t] \in Seq(Named(t)') /\ merged'[t] \in Results
          /\ merged'[t] # <<>> /\ request'[t].query = q
      BY <1>1, <1>2, <1>3, <1>4, <2>5, <2>7
    <3>2. \A i \in DOMAIN merged'[t] : /\ merged'[t][i].dist = DistanceTo(q, merged'[t][i].doc)
                                       /\ merged'[t][i].doc \in UnionScope(Named(t)')
      BY <1>3, <2>6, <2>7
    <3> QED
      BY <3>1, <3>2 DEF AskedSoFar
<1> QED
  BY <1>1, <1>5, <1>6

\* What the properties say of one answer.
ShardAnswerOK(r) ==
  r # NoResult /\ r.viaShards =>
    /\ Len(r.results) <= r.k
    /\ Sorted(r.results)
    /\ \A i \in DOMAIN r.results :
         /\ r.results[i].dist = DistanceTo(r.query, r.results[i].doc)
         /\ r.results[i].doc \in UnionScope(Range(Seeds(r.coarse, r.k)))
    /\ (\E e \in Range(Seeds(r.coarse, r.k)) : Large(e)) => r.results # <<>>

LEMMA AnswerByAnswer ==
  ShardAnswersHonest /\ LargeEventAnswers <=> \A t \in Threads : ShardAnswerOK(result[t])
BY DEF ShardAnswersHonest, LargeEventAnswers, ShardAnswerOK

\* The answer put together when no event is left to be asked.
LEMMA FinishedAnswer ==
  ASSUME NEW t \in Threads, AskedSoFar(t), Asking(t), todo[t] = <<>>
  PROVE  ShardAnswerOK(Found(request[t], MergeSorted(merged[t], request[t].k), coarse[t], TRUE))
<1>1. PICK found, q, k, N : /\ found = merged[t] /\ q = request[t].query /\ k = request[t].k
                            /\ N = Named(t)
  OBVIOUS
<1>2. /\ request[t] \in Requests /\ found \in Results
      /\ \A i \in DOMAIN found : /\ found[i].dist = DistanceTo(q, found[i].doc)
                                 /\ found[i].doc \in UnionScope(N)
      /\ \A d \in N : Large(d) => d \in Range(<<>>) \/ found # <<>>
  BY <1>1 DEF AskedSoFar
<1>3. k \in Nat /\ k # 0
  BY <1>1, <1>2, ShardedAssumption
<1>4. PICK hits : hits = MergeSorted(found, k)
  OBVIOUS
<1>5. /\ hits \in Results
      /\ Len(hits) = AtMost(k, Len(found))
      /\ \A i \in DOMAIN hits : \E j \in DOMAIN found : hits[i] = found[j]
      /\ Sorted(hits)
  BY <1>2, <1>3, <1>4, MergedSorted
<1>6. Len(found) \in Nat /\ (found # <<>> => Len(found) # 0)
  BY <1>2, LenProperties, EmptySeq DEF Results
<1>7. Len(hits) <= k /\ (found # <<>> => Len(hits) # 0)
  BY <1>3, <1>5, <1>6 DEF AtMost
<1>8. (\E e \in N : Large(e)) => hits # <<>>
  BY <1>2, <1>5, <1>7, EmptySeq DEF Range, Results
<1>9. \A i \in DOMAIN hits : /\ hits[i].dist = DistanceTo(q, hits[i].doc)
                             /\ hits[i].doc \in UnionScope(N)
  BY Zenon, <1>2, <1>5
<1>10. PICK r : r = Found(request[t], hits, coarse[t], TRUE)
  OBVIOUS
<1>11. r.query = q /\ r.k = k /\ r.coarse = coarse[t] /\ r.results = hits
  BY <1>1, <1>10 DEF Found
<1>12. N = Range(Seeds(r.coarse, r.k))
  BY Zenon, <1>1, <1>11 DEF Named
<1>13. ShardAnswerOK(r)
  BY Zenon, <1>5, <1>7, <1>8, <1>9, <1>11, <1>12 DEF ShardAnswerOK
<1> QED
  BY Zenon, <1>1, <1>4, <1>10, <1>13

\* What a step of a thread has to keep.
LEMMA ShardFrame ==
  ASSUME ShardInv, NEW t \in Threads,
         \A u \in Threads \ {t} :
           /\ at'[u] = at[u] /\ request'[u] = request[u] /\ coarse'[u] = coarse[u]
           /\ todo'[u] = todo[u] /\ merged'[u] = merged[u] /\ result'[u] = result[u],
         DOMAIN request' = DOMAIN request, DOMAIN coarse' = DOMAIN coarse,
         DOMAIN todo' = DOMAIN todo, DOMAIN merged' = DOMAIN merged,
         DOMAIN result' = DOMAIN result,
         AskedSoFar(t)',
         result'[t] = result[t] \/ ShardAnswerOK(result'[t])
  PROVE  ShardInv'
<1>1. \A u \in Threads : AskedSoFar(u)'
  <2>1. ASSUME NEW u \in Threads \ {t}
        PROVE  AskedSoFar(u)'
    BY OthersKeep DEF ShardInv
  <2> QED
    BY <2>1
<1>2. \A u \in Threads : ShardAnswerOK(result[u])
  BY AnswerByAnswer DEF ShardInv
<1>3. \A u \in Threads : ShardAnswerOK(result'[u])
  <2> TAKE u \in Threads
  <2>1. CASE u = t
    BY Zenon, <1>2, <2>1
  <2>2. CASE u # t
    BY Zenon, <1>2, <2>2
  <2> QED
    BY Zenon, <2>1, <2>2
<1>4. (ShardAnswersHonest /\ LargeEventAnswers)'
  BY <1>3 DEF ShardAnswersHonest, LargeEventAnswers, ShardAnswerOK
<1> QED
  BY <1>1, <1>4 DEF ShardInv

LEMMA ShardInvInit == Init => ShardInv
<1> SUFFICES ASSUME Init PROVE ShardInv
  OBVIOUS
<1>1. /\ Threads = DOMAIN request /\ Threads = DOMAIN coarse /\ Threads = DOMAIN todo
      /\ Threads = DOMAIN merged /\ Threads = DOMAIN result
  BY DEF Init
<1>2. \A t \in Threads : at[t] = "idle" /\ result[t] = NoResult
  BY DEF Init
<1>3. \A t \in Threads : AskedSoFar(t)
  BY <1>2 DEF AskedSoFar, Asking
<1> QED
  BY <1>1, <1>2, <1>3 DEF ShardInv, ShardAnswersHonest, LargeEventAnswers

\* Steps of one thread that leave its search as it is.
LEMMA ShardInvMoves ==
  ASSUME TypeOK, ShardInv, NEW t \in Threads, NEW to, Goes(t, to), UNCHANGED searchVars,
         \/ to \notin {"lookup", "reading", "upgrade", "writing"}
         \/ Asking(t) /\ to \in {"lookup", "reading", "upgrade", "writing"}
  PROVE  ShardInv'
<1>1. DOMAIN at = Threads
  BY DEF TypeOK
<1>2. at'[t] = to /\ \A u \in Threads \ {t} : at'[u] = at[u]
  BY <1>1 DEF Goes
<1>3. AskedSoFar(t)
  BY DEF ShardInv
<1>4. AskedSoFar(t)'
  BY <1>2, <1>3, OthersKeep DEF Asking, searchVars
<1> QED
  BY <1>2, <1>4, ShardFrame DEF searchVars

LEMMA ShardInvBegin ==
  ASSUME TypeOK, ShardInv, NEW t \in Threads, Begin(t)
  PROVE  ShardInv'
<1>1. PICK rq \in Requests :
        \E found : BeginFlat(t, rq, found) \/ BeginRescan(t, rq, found) \/ BeginShards(t, rq, found)
  BY DEF Begin
<1>2. PICK found : BeginFlat(t, rq, found) \/ BeginRescan(t, rq, found) \/ BeginShards(t, rq, found)
  BY <1>1
<1>3. at[t] = "idle" /\ DOMAIN at = Threads
  BY DEF Begin, Take, TypeOK
<1>4. ASSUME UNCHANGED <<at, request, coarse, todo, merged>>, NEW hits,
             result' = [result EXCEPT ![t] = Found(rq, hits, found, FALSE)]
      PROVE  ShardInv'
  <2>1. AskedSoFar(t)'
    BY <1>3, <1>4 DEF AskedSoFar, Asking
  <2>2. result'[t] = Found(rq, hits, found, FALSE)
    BY <1>4 DEF ShardInv
  <2>3. ShardAnswerOK(result'[t])
    BY <2>2 DEF ShardAnswerOK, Found
  <2>4. PICK r : r = Found(rq, hits, found, FALSE)
    OBVIOUS
  <2>5. result' = [result EXCEPT ![t] = r]
    BY Zenon, <1>4, <2>4
  <2>6. DOMAIN result' = DOMAIN result /\ \A u \in Threads \ {t} : result'[u] = result[u]
    BY <2>5 DEF ShardInv
  <2> QED
    BY <1>4, <2>1, <2>3, <2>6, ShardFrame
<1>5. CASE BeginFlat(t, rq, found)
  BY <1>4, <1>5 DEF BeginFlat
<1>6. CASE BeginRescan(t, rq, found)
  BY <1>4, <1>6 DEF BeginRescan
<1>7. CASE BeginShards(t, rq, found)
  <2> DEFINE events == Seeds(found, rq.k)
  <2>1. /\ at' = [at EXCEPT ![t] = "lookup"]
        /\ request' = [request EXCEPT ![t] = rq]
        /\ coarse' = [coarse EXCEPT ![t] = found]
        /\ todo' = [todo EXCEPT ![t] = events]
        /\ merged' = [merged EXCEPT ![t] = <<>>]
        /\ UNCHANGED result
    BY <1>7 DEF BeginShards, Goes
  <2> HIDE DEF events
  <2>2. /\ request'[t] = rq /\ coarse'[t] = found /\ todo'[t] = events /\ merged'[t] = <<>>
    BY <2>1 DEF ShardInv
  <2>3. Named(t)' = Range(events)
    BY <2>2 DEF Named, events
  <2>4. events \in Seq(Range(events))
    BY SeedsListed DEF events
  <2>5. <<>> \in Results /\ \A i \in DOMAIN <<>> : FALSE
    BY EmptySeq, LenProperties DEF Results
  <2>6. AskedSoFar(t)'
    BY <2>2, <2>3, <2>4, <2>5 DEF AskedSoFar
  <2>7. ASSUME NEW u \in Threads \ {t}
        PROVE  /\ at'[u] = at[u] /\ request'[u] = request[u] /\ coarse'[u] = coarse[u]
               /\ todo'[u] = todo[u] /\ merged'[u] = merged[u] /\ result'[u] = result[u]
    BY <1>3, <2>1 DEF ShardInv
  <2>8. /\ DOMAIN request' = DOMAIN request /\ DOMAIN coarse' = DOMAIN coarse
        /\ DOMAIN todo' = DOMAIN todo /\ DOMAIN merged' = DOMAIN merged
        /\ result' = result
    BY <2>1
  <2> QED
    BY <2>6, <2>7, <2>8, ShardFrame
<1> QED
  BY <1>2, <1>5, <1>6, <1>7

\* A shard asked, under either lock.
LEMMA ShardInvAsks ==
  ASSUME TypeOK, BuiltOnce, ShardInv, NEW t \in Threads, ReadHit(t) \/ WriteAndAsk(t)
  PROVE  ShardInv'
<1>1. PICK e : e = Head(todo[t])
  OBVIOUS
<1>2. /\ at[t] \in {"reading", "writing"} /\ todo[t] # <<>>
      /\ at' = [at EXCEPT ![t] = "lookup"] /\ todo' = [todo EXCEPT ![t] = Tail(@)]
      /\ UNCHANGED <<request, coarse, result>>
  BY DEF ReadHit, WriteAndAsk, NextEvent, Goes, TypeOK
<1>3. \/ UNCHANGED merged /\ ~Large(e)
      \/ e \in Events /\ AskShard(t, e)
  <2>1. CASE ReadHit(t)
    BY <1>1, <2>1 DEF ReadHit, TypeOK
  <2>2. CASE WriteAndAsk(t)
    <3>1. built' = built \cup {s \in {e} : Missing(s)}
      BY <1>1, <2>2 DEF WriteAndAsk
    <3>2. \/ e \in built' /\ AskShard(t, e)
          \/ e \notin built' /\ UNCHANGED merged
      BY <1>1, <2>2 DEF WriteAndAsk
    <3>3. e \in built' => e \in Events
      BY <3>1 DEF Missing, Large, TypeOK
    <3>4. e \notin built' => ~Large(e)
      BY <3>1 DEF Missing
    <3> QED
      BY <3>2, <3>3, <3>4
  <2> QED
    BY <2>1, <2>2
<1>4. \/ merged'[t] = merged[t] /\ ~Large(e)
      \/ e \in Events /\ \E hits \in ShardAnswers(e, request[t].query, request[t].k) :
                           merged'[t] = merged[t] \o hits
  BY <1>3 DEF AskShard, ShardInv
<1>5. \A u \in Threads \ {t} : merged'[u] = merged[u]
  BY <1>3 DEF AskShard, ShardInv
<1>6. DOMAIN merged' = DOMAIN merged
  BY <1>3 DEF AskShard
<1>7. AskedSoFar(t) /\ Asking(t) /\ todo'[t] = Tail(todo[t])
  BY <1>2 DEF ShardInv, Asking
<1>8. AskedSoFar(t)'
  BY <1>1, <1>2, <1>4, <1>7, AskedNext
<1>9. \A u \in Threads \ {t} : at'[u] = at[u] /\ todo'[u] = todo[u]
  BY <1>2 DEF TypeOK
<1> QED
  BY <1>2, <1>5, <1>6, <1>8, <1>9, ShardFrame

LEMMA ShardInvFinish ==
  ASSUME TypeOK, ShardInv, NEW t \in Threads, Finish(t)
  PROVE  ShardInv'
<1>1. PICK r : r = Found(request[t], MergeSorted(merged[t], request[t].k), coarse[t], TRUE)
  OBVIOUS
<1>2. /\ at[t] = "lookup" /\ todo[t] = <<>>
      /\ result' = [result EXCEPT ![t] = r]
      /\ merged' = [merged EXCEPT ![t] = <<>>]
      /\ coarse' = [coarse EXCEPT ![t] = <<>>]
      /\ at' = [at EXCEPT ![t] = "idle"]
      /\ UNCHANGED <<request, todo>>
  BY <1>1 DEF Finish, Goes
<1>3. ShardAnswerOK(r)
  BY <1>1, <1>2, FinishedAnswer DEF ShardInv, Asking
<1>4. result'[t] = r /\ at'[t] = "idle"
  BY <1>2 DEF ShardInv, TypeOK
<1>5. AskedSoFar(t)'
  BY <1>4 DEF AskedSoFar, Asking
<1>6. ShardAnswerOK(result'[t])
  BY Zenon, <1>3, <1>4
<1> QED
  BY <1>2, <1>5, <1>6, ShardFrame

LEMMA ShardInvNext == TypeOK /\ BuiltOnce /\ ShardInv /\ [Next]_vars => ShardInv'
<1> SUFFICES ASSUME TypeOK, BuiltOnce, ShardInv, [Next]_vars PROVE ShardInv'
  OBVIOUS
<1>1. CASE UNCHANGED vars
  <2>1. UNCHANGED <<at, request, coarse, todo, merged, result>>
    BY <1>1 DEF vars, searchVars
  <2>2. \A t \in Threads : AskedSoFar(t)'
    BY <2>1, OthersKeep DEF ShardInv
  <2> QED
    BY <2>1, <2>2 DEF ShardInv, ShardAnswersHonest, LargeEventAnswers, Large
<1>2. CASE Restart
  <2>1. /\ UNCHANGED request
        /\ coarse' = [t \in Threads |-> <<>>] /\ todo' = [t \in Threads |-> <<>>]
        /\ merged' = [t \in Threads |-> <<>>] /\ result' = [t \in Threads |-> NoResult]
        /\ at' = [t \in Threads |-> "idle"]
    BY <1>2 DEF Restart
  <2>2. \A t \in Threads : AskedSoFar(t)'
    BY <2>1 DEF AskedSoFar, Asking
  <2> QED
    BY <2>1, <2>2 DEF ShardInv, ShardAnswersHonest, LargeEventAnswers
<1>3. ASSUME NEW t \in Threads, Lookup(t) \/ ReadMiss(t) \/ Upgrade(t)
      PROVE  ShardInv'
  <2>1. /\ Asking(t) /\ UNCHANGED searchVars
        /\ Goes(t, "reading") \/ Goes(t, "upgrade") \/ Goes(t, "writing")
    BY <1>3 DEF Lookup, ReadMiss, Upgrade, Asking
  <2> QED
    BY <2>1, ShardInvMoves
<1>4. ASSUME NEW t \in Threads,
             Save(t) \/ SaveWrite(t) \/ Load(t) \/ LoadLock(t) \/ LoadRebuild(t)
      PROVE  ShardInv'
  <2>1. /\ UNCHANGED searchVars
        /\ \/ Goes(t, "saving") \/ Goes(t, "idle")
           \/ Goes(t, "loading") \/ Goes(t, "rebuilding")
    BY <1>4 DEF Save, SaveWrite, Load, LoadLock, LoadRebuild
  <2> QED
    BY <2>1, ShardInvMoves
<1> QED
  BY <1>1, <1>2, <1>3, <1>4, ShardInvBegin, ShardInvAsks, ShardInvFinish DEF Next, Step

LEMMA ShardInvAlways == Spec => []ShardInv
BY ShardInvInit, ShardInvNext, TypeCorrect, BuiltOnceAlways, PTL DEF Spec

\* Whatever the other threads ask and build meanwhile, an answer put together
\* from shards is ranked, no longer than asked for, its distances are those of
\* its query and its documents those of the events the coarse ranking named.
THEOREM ShardAnswersHonestAlways == Spec => []ShardAnswersHonest
<1>1. ShardInv => ShardAnswersHonest
  BY DEF ShardInv
<1> QED
  BY <1>1, ShardInvAlways, PTL

\* A search that went to the shards comes back with something if any candidate
\* event is large enough for a shard.
THEOREM LargeEventAnswersAlways == Spec => []LargeEventAnswers
<1>1. ShardInv => LargeEventAnswers
  BY DEF ShardInv
<1> QED
  BY <1>1, ShardInvAlways, PTL

-----------------------------------------------------------------------------
(* Heaps. *)

Pairs == Nat \X Nat

\* A heap that has been shown the pairs P keeps k of the nearest.
Best(heap, P, k) ==
  /\ IsFiniteSet(P)
  /\ heap \subseteq P
  /\ Cardinality(heap) = AtMost(k, Cardinality(P))
  /\ \A a \in heap, b \in P \ heap : a[1] <= b[1]

PairOrder(heap) == {p \in heap \X heap : PairBefore(p[1], p[2])}

LEMMA PairsOrdered ==
  ASSUME NEW heap \in SUBSET Pairs
  PROVE  /\ StrictOrder(heap, PairOrder(heap))
         /\ \A a, b \in heap : <<a, b>> \in PairOrder(heap) <=> PairBefore(a, b)
<1>1. \A a, b \in heap : <<a, b>> \in PairOrder(heap) <=> PairBefore(a, b)
  BY DEF PairOrder
<1>2. \A a \in heap : a[1] \in Nat /\ a[2] \in Nat /\ a = <<a[1], a[2]>>
  BY DEF Pairs
<1>3. \A a \in heap : ~PairBefore(a, a)
  BY <1>2 DEF PairBefore
<1>4. \A a, b, c \in heap : PairBefore(a, b) /\ PairBefore(b, c) => PairBefore(a, c)
  BY <1>2 DEF PairBefore
<1>5. \A a, b \in heap : a # b => PairBefore(a, b) \/ PairBefore(b, a)
  BY <1>2 DEF PairBefore
<1> QED
  BY Zenon, <1>1, <1>3, <1>4, <1>5 DEF StrictOrder

\* A heap with something in it has a worst pair.
LEMMA WorstIsLast ==
  ASSUME NEW heap \in SUBSET Pairs, IsFiniteSet(heap), heap # {}
  PROVE  Worst(heap) \in heap /\ \A a \in heap : a[1] <= Worst(heap)[1]
<1>1. PICK n, list : n = Cardinality(heap) /\ list = Listing(heap, PairOrder(heap))
  OBVIOUS
<1>2. n \in Nat /\ n # 0
  BY <1>1, FS_CardinalityType, FS_EmptySet
<1>3. /\ list \in [1..n -> heap]
      /\ \A x \in heap : \E r \in 1..n : list[r] = x
      /\ \A i, j \in 1..n : i < j => <<list[i], list[j]>> \in PairOrder(heap)
  <2>1. StrictOrder(heap, PairOrder(heap))
    BY PairsOrdered
  <2>2. PICK R : R = PairOrder(heap)
    OBVIOUS
  <2>3. /\ Listing(heap, R) \in [1..Cardinality(heap) -> heap]
        /\ \A x \in heap : \E r \in 1..Cardinality(heap) : Listing(heap, R)[r] = x
        /\ \A i, j \in 1..Cardinality(heap) :
             i < j => <<Listing(heap, R)[i], Listing(heap, R)[j]>> \in R
    BY <2>1, <2>2, ListedInOrder
  <2> QED
    BY Zenon, <1>1, <2>2, <2>3
<1>4. list[n] \in heap /\ \A p \in heap \ {list[n]} : PairBefore(p, list[n])
  <2>1. n \in 1..n
    BY <1>2
  <2>2. ASSUME NEW p \in heap \ {list[n]}
        PROVE  PairBefore(p, list[n])
    <3>1. PICK r \in 1..n : list[r] = p
      BY <1>3
    <3>2. r < n
      BY <1>2, <2>2, <3>1
    <3>3. <<p, list[n]>> \in PairOrder(heap)
      BY Zenon, <1>3, <2>1, <3>1, <3>2
    <3> QED
      BY <1>3, <2>1, <3>3, PairsOrdered
  <2> QED
    BY <1>3, <2>1, <2>2
<1>5. PICK w : w = Worst(heap)
  OBVIOUS
<1>6. w \in heap /\ \A p \in heap \ {w} : PairBefore(p, w)
  BY Zenon, <1>4, <1>5 DEF Worst
<1>7. \A a \in heap : a[1] \in Nat
  BY DEF Pairs
<1>8. \A a \in heap : a[1] <= w[1]
  BY <1>6, <1>7 DEF PairBefore
<1> QED
  BY Zenon, <1>5, <1>6, <1>8

LEMMA PushKeepsBest ==
  ASSUME NEW P \in SUBSET Pairs, NEW k \in Nat, k # 0, NEW heap, Best(heap, P, k),
         NEW p \in Pairs, p \notin P
  PROVE  Best(Push(heap, k, p), P \cup {p}, k)
<1>1. /\ IsFiniteSet(P) /\ heap \subseteq P /\ heap \in SUBSET Pairs
      /\ \A a \in heap, b \in P \ heap : a[1] <= b[1]
  BY DEF Best
<1>2. IsFiniteSet(heap)
  BY <1>1, FS_Subset
<1>3. PICK m, n \in Nat : n = Cardinality(P) /\ m = Cardinality(heap)
  BY <1>1, <1>2, FS_CardinalityType
<1>4. m = AtMost(k, n) /\ m \in Nat
  BY <1>2, <1>3, FS_CardinalityType DEF Best
<1>5. IsFiniteSet(P \cup {p}) /\ Cardinality(P \cup {p}) = n + 1
  BY <1>1, <1>3, FS_AddElement
<1>6. p \notin heap /\ IsFiniteSet(heap \cup {p}) /\ Cardinality(heap \cup {p}) = m + 1
  BY <1>1, <1>2, <1>3, FS_AddElement
<1>7. \A a \in P \cup {p} : a[1] \in Nat
  BY DEF Pairs
<1>8. CASE m < k
  <2>1. m = n /\ m + 1 = AtMost(k, n + 1)
    BY <1>4, <1>8 DEF AtMost
  <2>2. heap = P
    BY <1>1, <1>3, <2>1, FS_Subset
  <2>3. Push(heap, k, p) = heap \cup {p}
    BY <1>3, <1>8 DEF Push
  <2> QED
    BY <1>5, <1>6, <2>1, <2>2, <2>3 DEF Best
<1>9. CASE ~(m < k)
  <2>1. m = k /\ AtMost(k, n + 1) = k
    BY <1>4, <1>9 DEF AtMost
  <2>2. heap # {}
    BY <1>3, <2>1, FS_EmptySet
  <2>3. PICK w : w = Worst(heap)
    OBVIOUS
  <2>4. w \in heap /\ \A a \in heap : a[1] <= w[1]
    BY Zenon, <1>1, <1>2, <2>2, <2>3, WorstIsLast
  <2>5. CASE p[1] < w[1]
    <3>1. PICK new : new = (heap \ {w}) \cup {p}
      OBVIOUS
    <3>2. Push(heap, k, p) = new
      BY Zenon, <1>3, <1>9, <2>3, <2>5, <3>1 DEF Push
    <3>3. Cardinality(new) = k
      <4>1. IsFiniteSet(heap \ {w}) /\ Cardinality(heap \ {w}) = m - 1
        BY <1>2, <1>3, <2>4, FS_RemoveElement
      <4>2. p \notin heap \ {w}
        BY <1>6
      <4>3. Cardinality(new) = (m - 1) + 1
        BY <3>1, <4>1, <4>2, FS_AddElement
      <4> QED
        BY <2>1, <4>3
    <3>4. ASSUME NEW a \in new, NEW b \in (P \cup {p}) \ new
          PROVE  a[1] <= b[1]
      <4>1. b \in P /\ (b = w \/ b \notin heap) /\ b[1] \in Nat /\ w[1] \in Nat /\ a[1] \in Nat
        BY <1>1, <1>7, <2>4, <3>1, <3>4
      <4>2. w[1] <= b[1]
        BY <1>1, <2>4, <4>1
      <4>3. a[1] <= w[1]
        BY <2>4, <2>5, <3>1, <4>1
      <4> QED
        BY <4>1, <4>2, <4>3
    <3>5. new \subseteq P \cup {p}
      BY <1>1, <3>1
    <3> QED
      BY <1>5, <2>1, <3>2, <3>3, <3>4, <3>5 DEF Best
  <2>6. CASE ~(p[1] < w[1])
    <3>1. Push(heap, k, p) = heap
      BY Zenon, <1>3, <1>9, <2>3, <2>6 DEF Push
    <3>2. ASSUME NEW a \in heap
          PROVE  a[1] <= p[1]
      BY <1>1, <1>7, <2>4, <2>6
    <3> QED
      BY <1>1, <1>3, <1>5, <2>1, <3>1, <3>2 DEF Best
  <2> QED
    BY <2>5, <2>6
<1> QED
  BY <1>8, <1>9


\* Nothing but the pair pushed comes in.
LEMMA PushBrings ==
  ASSUME NEW heap, NEW k, NEW p
  PROVE  Push(heap, k, p) \subseteq heap \cup {p}
BY DEF Push

-----------------------------------------------------------------------------
(* A chunk. *)

PairAt(q, docs, i) == <<DistanceTo(q, docs[i]), i>>

\* The heaps of a chunk of L positions, one after the other.
FilledBy(heap, L, k, pair) ==
  heap = [n \in 0..L |-> IF n = 0 THEN {} ELSE Push(heap[n - 1], k, pair[n])]

LEMMA HeapsExist ==
  ASSUME NEW L \in Nat, NEW k, NEW pair \in [1..L -> Pairs]
  PROVE  \E heap : FilledBy(heap, L, k, pair)
<1> DEFINE D == 0..L
           V == SUBSET Pairs
           body(g, n) == IF n = 0 THEN {} ELSE Push(g[n - 1], k, pair[n])
           step == [g \in [D -> V] |-> [n \in D |-> body(g, n)]]
           rank == [n \in D |-> n]
<1>1. \A n \in D : n # 0 => n - 1 \in D /\ n \in 1..L /\ n - 1 < n
  OBVIOUS
<1>2. ASSUME NEW g \in [D -> V], NEW n \in D
      PROVE  body(g, n) \in V
  <2>1. CASE n = 0
    BY <2>1
  <2>2. CASE n # 0
    <3>1. g[n - 1] \in V /\ pair[n] \in Pairs
      BY <1>1, <2>2
    <3>2. Push(g[n - 1], k, pair[n]) \subseteq g[n - 1] \cup {pair[n]}
      BY PushBrings
    <3> QED
      BY <2>2, <3>1, <3>2
  <2> QED
    BY <2>1, <2>2
<1>3. ASSUME NEW g \in [D -> V], NEW h \in [D -> V], NEW n \in D,
             \A m \in D : rank[m] < rank[n] => g[m] = h[m]
      PROVE  body(g, n) = body(h, n)
  <2>1. CASE n = 0
    BY <2>1
  <2>2. CASE n # 0
    <3>1. g[n - 1] = h[n - 1]
      BY <1>1, <1>3, <2>2
    <3> QED
      BY Zenon, <3>1
  <2> QED
    BY <2>1, <2>2
<1>4. rank \in [D -> Nat]
  OBVIOUS
<1>5. Bounded(D, rank) /\ V # {}
  <2>1. L + 1 \in Nat /\ \A n \in D : rank[n] < L + 1
    OBVIOUS
  <2> QED
    BY <2>1 DEF Bounded
<1> HIDE DEF D, V, body, rank
<1>6. step \in [[D -> V] -> [D -> V]]
  BY Zenon, <1>2
<1>7. \A g, h \in [D -> V], n \in D :
        (\A m \in D : rank[m] < rank[n] => g[m] = h[m]) => step[g][n] = step[h][n]
  BY Zenon, <1>3
<1>8. PICK f \in [D -> V] : f = step[f]
  <2> HIDE DEF step
  <2>1. AsksBelow(D, V, rank, step)
    BY Zenon, <1>6, <1>7 DEF AsksBelow
  <2>2. FixedBy(D, V, step)
    BY Zenon, <1>4, <1>5, <2>1, FixedPoint
  <2> QED
    BY Zenon, <2>2 DEF FixedBy
<1>9. f = [n \in D |-> body(f, n)]
  BY Zenon, <1>8
<1>10. FilledBy(f, L, k, pair)
  BY Zenon, <1>9 DEF D, body, FilledBy
<1> QED
  BY Zenon, <1>10

LEMMA HeapsKeepBest ==
  ASSUME NEW L \in Nat, NEW k \in Nat, k # 0, NEW pair \in [1..L -> Pairs],
         \A i, j \in 1..L : i # j => pair[i] # pair[j],
         NEW heap, FilledBy(heap, L, k, pair)
  PROVE  Best(heap[L], {pair[i] : i \in 1..L}, k)
<1> DEFINE shown(n) == {pair[i] : i \in 1..n}
           P == {n \in 0..L : Best(heap[n], shown(n), k)}
<1>1. heap[0] = {} /\ \A n \in 1..L : heap[n] = Push(heap[n - 1], k, pair[n])
  <2> DEFINE body(n) == IF n = 0 THEN {} ELSE Push(heap[n - 1], k, pair[n])
  <2>1. 0 \in 0..L /\ \A n \in 1..L : n \in 0..L /\ n # 0
    OBVIOUS
  <2>2. heap = [n \in 0..L |-> body(n)]
    BY Zenon DEF FilledBy
  <2>3. \A n \in 0..L : heap[n] = body(n)
    <3> HIDE DEF body
    <3> QED
      BY Zenon, <2>2
  <2>4. body(0) = {} /\ \A n \in 1..L : body(n) = Push(heap[n - 1], k, pair[n])
    BY <2>1
  <2> QED
    BY Zenon, <2>1, <2>3, <2>4
<1>2. Best(heap[0], shown(0), k)
  <2>1. shown(0) = {}
    OBVIOUS
  <2>2. AtMost(k, 0) = 0
    BY DEF AtMost
  <2>3. Best({}, {}, k)
    BY <2>2, FS_EmptySet DEF Best
  <2> QED
    BY Zenon, <1>1, <2>1, <2>3
<1>3. ASSUME NEW n \in 1..L, Best(heap[n - 1], shown(n - 1), k)
      PROVE  Best(heap[n], shown(n), k)
  <2>1. shown(n) = shown(n - 1) \cup {pair[n]}
    <3>1. 1..n = (1..(n - 1)) \cup {n}
      OBVIOUS
    <3> QED
      BY Zenon, <3>1
  <2>2. pair[n] \notin shown(n - 1) /\ pair[n] \in Pairs /\ shown(n - 1) \in SUBSET Pairs
    <3>1. \A i \in 1..(n - 1) : i \in 1..L /\ i # n
      OBVIOUS
    <3> QED
      BY <3>1
  <2>3. heap[n] = Push(heap[n - 1], k, pair[n])
    BY <1>1
  <2> HIDE DEF shown
  <2> QED
    BY <1>3, <2>1, <2>2, <2>3, PushKeepsBest
<1>4. PICK id \in [0..L -> Nat] : \A n \in 0..L : id[n] = n
  <2>1. [n \in 0..L |-> n] \in [0..L -> Nat]
    OBVIOUS
  <2> QED
    BY <2>1
<1>5. ASSUME NEW n \in 0..L, \A m \in 0..L : id[m] < id[n] => m \in P
      PROVE  n \in P
  <2>1. CASE n = 0
    BY <1>2, <2>1
  <2>2. CASE n # 0
    <3>1. n \in 1..L /\ n - 1 \in 0..L /\ n - 1 < n
      BY <2>2
    <3>2. n - 1 \in P
      BY Zenon, <1>4, <1>5, <3>1
    <3> QED
      BY Zenon, <1>3, <3>1, <3>2
  <2> QED
    BY <2>1, <2>2
<1>6. L \in P
  <2>1. PICK D : D = 0..L
    OBVIOUS
  <2> HIDE DEF P
  <2>2. Hereditary(D, id, P)
    BY Zenon, <1>5, <2>1 DEF Hereditary
  <2>3. id \in [D -> Nat] /\ L \in D
    BY <2>1
  <2>4. D \subseteq P
    BY Zenon, <2>2, <2>3, RankInduction
  <2> QED
    BY <2>3, <2>4
<1> QED
  BY <1>6

\* A chunk's heap keeps the best of its positions.
LEMMA ChunkKeepsBest ==
  ASSUME NEW q, NEW docs, NEW k \in Nat, k # 0, NEW chunk, NEW L \in Nat, L = Len(chunk),
         \A n \in 1..L : chunk[n] \in Nat /\ DistanceTo(q, docs[chunk[n]]) \in Nat,
         \A i, j \in 1..L : i # j => chunk[i] # chunk[j]
  PROVE  Best(ScanChunk(q, docs, k, chunk), {PairAt(q, docs, chunk[i]) : i \in 1..L}, k)
<1> DEFINE fills(heap) ==
      heap = [n \in 0..L |-> IF n = 0 THEN {}
                             ELSE Push(heap[n - 1], k, <<DistanceTo(q, docs[chunk[n]]), chunk[n]>>)]
<1>1. PICK pair : pair = [n \in 1..L |-> PairAt(q, docs, chunk[n])]
  OBVIOUS
<1>2. /\ pair \in [1..L -> Pairs]
      /\ \A n \in 1..L : pair[n] = <<DistanceTo(q, docs[chunk[n]]), chunk[n]>>
  BY <1>1 DEF Pairs, PairAt
<1>3. \A i, j \in 1..L : i # j => pair[i] # pair[j]
  BY <1>2
<1>4. ASSUME NEW heap
      PROVE  fills(heap) <=> FilledBy(heap, L, k, pair)
  <2>1. ASSUME NEW n \in 0..L
        PROVE  (IF n = 0 THEN {} ELSE Push(heap[n - 1], k, <<DistanceTo(q, docs[chunk[n]]), chunk[n]>>))
                 = (IF n = 0 THEN {} ELSE Push(heap[n - 1], k, pair[n]))
    <3>1. n # 0 => n \in 1..L
      OBVIOUS
    <3> QED
      BY Zenon, <1>2, <3>1
  <2> QED
    BY Zenon, <2>1 DEF FilledBy
<1>5. PICK heap : heap = CHOOSE h : fills(h)
  OBVIOUS
<1>6. fills(heap)
  <2>1. \E h : FilledBy(h, L, k, pair)
    BY Zenon, <1>2, HeapsExist
  <2> HIDE DEF fills
  <2> QED
    BY Zenon, <1>4, <1>5, <2>1
<1>7. ScanChunk(q, docs, k, chunk) = heap[L]
  BY Zenon, <1>5 DEF ScanChunk
<1>8. Best(heap[L], {pair[i] : i \in 1..L}, k)
  <2>1. FilledBy(heap, L, k, pair)
    BY Zenon, <1>4, <1>6
  <2> QED
    BY Zenon, <1>2, <1>3, <2>1, HeapsKeepBest
<1>9. {pair[i] : i \in 1..L} = {PairAt(q, docs, chunk[i]) : i \in 1..L}
  BY <1>1
<1> QED
  BY Zenon, <1>7, <1>8, <1>9

-----------------------------------------------------------------------------
(* Merging two heaps. *)

MergedBy(after, a, b, k) ==
  after = [rest \in SUBSET b |->
             IF rest = {} THEN {a}
             ELSE UNION {{Push(h, k, p) : h \in after[rest \ {p}]} : p \in rest}]

LEMMA MergesExist ==
  ASSUME NEW a, NEW b, IsFiniteSet(b), NEW k
  PROVE  \E after : MergedBy(after, a, b, k)
<1> DEFINE D == SUBSET b
           V == SUBSET SUBSET (a \cup b)
           body(g, rest) == IF rest = {} THEN {a}
                            ELSE UNION {{Push(h, k, p) : h \in g[rest \ {p}]} : p \in rest}
           step == [g \in [D -> V] |-> [rest \in D |-> body(g, rest)]]
           rank == [rest \in D |-> Cardinality(rest)]
<1>1. ASSUME NEW rest \in D
      PROVE  /\ Cardinality(rest) \in Nat /\ Cardinality(rest) < Cardinality(b) + 1
             /\ \A p \in rest : rest \ {p} \in D /\ Cardinality(rest \ {p}) < Cardinality(rest)
  <2>1. IsFiniteSet(rest) /\ Cardinality(rest) <= Cardinality(b)
    BY FS_Subset
  <2>2. Cardinality(rest) \in Nat /\ Cardinality(b) \in Nat
    BY <2>1, FS_CardinalityType
  <2>3. ASSUME NEW p \in rest
        PROVE  Cardinality(rest \ {p}) = Cardinality(rest) - 1
    BY <2>1, FS_RemoveElement
  <2> QED
    BY <2>1, <2>2, <2>3
<1>2. ASSUME NEW g \in [D -> V], NEW rest \in D
      PROVE  body(g, rest) \in V
  <2> SUFFICES ASSUME NEW x \in body(g, rest) PROVE x \in SUBSET (a \cup b)
    OBVIOUS
  <2>1. CASE rest = {}
    BY <2>1
  <2>2. CASE rest # {}
    <3>1. PICK p \in rest : x \in {Push(h, k, p) : h \in g[rest \ {p}]}
      BY Zenon, <2>2
    <3>2. PICK h \in g[rest \ {p}] : x = Push(h, k, p)
      BY Zenon, <3>1
    <3>3. h \in SUBSET (a \cup b) /\ p \in b
      BY <1>1
    <3>4. Push(h, k, p) \subseteq h \cup {p}
      BY PushBrings
    <3> QED
      BY <3>2, <3>3, <3>4
  <2> QED
    BY <2>1, <2>2
<1>3. ASSUME NEW g \in [D -> V], NEW h \in [D -> V], NEW rest \in D,
             \A other \in D : rank[other] < rank[rest] => g[other] = h[other]
      PROVE  body(g, rest) = body(h, rest)
  <2>1. \A p \in rest : g[rest \ {p}] = h[rest \ {p}]
    BY <1>1, <1>3
  <2>2. {{Push(i, k, p) : i \in g[rest \ {p}]} : p \in rest}
          = {{Push(i, k, p) : i \in h[rest \ {p}]} : p \in rest}
    BY Zenon, <2>1
  <2> QED
    BY Zenon, <2>2
<1>4. rank \in [D -> Nat]
  BY <1>1
<1>5. Bounded(D, rank) /\ V # {}
  <2>1. Cardinality(b) + 1 \in Nat /\ \A rest \in D : rank[rest] < Cardinality(b) + 1
    BY <1>1, FS_CardinalityType
  <2> QED
    BY Zenon, <2>1 DEF Bounded
<1> HIDE DEF D, V, body, rank
<1>6. step \in [[D -> V] -> [D -> V]]
  BY Zenon, <1>2
<1>7. \A g, h \in [D -> V], rest \in D :
        (\A other \in D : rank[other] < rank[rest] => g[other] = h[other]) => step[g][rest] = step[h][rest]
  BY Zenon, <1>3
<1>8. PICK f \in [D -> V] : f = step[f]
  <2> HIDE DEF step
  <2>1. AsksBelow(D, V, rank, step)
    BY Zenon, <1>6, <1>7 DEF AsksBelow
  <2>2. FixedBy(D, V, step)
    BY Zenon, <1>4, <1>5, <2>1, FixedPoint
  <2> QED
    BY Zenon, <2>2 DEF FixedBy
<1>9. f = [rest \in D |-> body(f, rest)]
  BY Zenon, <1>8
<1>10. MergedBy(f, a, b, k)
  BY Zenon, <1>9 DEF D, body, MergedBy
<1> QED
  BY Zenon, <1>10

\* In whatever order the pairs of the other heap are pushed.
LEMMA MergesKeepBest ==
  ASSUME NEW P \in SUBSET Pairs, NEW k \in Nat, k # 0, NEW a, Best(a, P, k),
         NEW b \in SUBSET Pairs, IsFiniteSet(b), P \cap b = {},
         NEW after, MergedBy(after, a, b, k)
  PROVE  \A h \in after[b] : Best(h, P \cup b, k)
<1> DEFINE D == SUBSET b
           rank == [rest \in D |-> Cardinality(rest)]
           good == {rest \in D : \A h \in after[rest] : Best(h, P \cup rest, k)}
           body(rest) == IF rest = {} THEN {a}
                         ELSE UNION {{Push(h, k, p) : h \in after[rest \ {p}]} : p \in rest}
<1>1. \A rest \in D : after[rest] = body(rest)
  <2>1. after = [rest \in D |-> body(rest)]
    BY Zenon DEF MergedBy
  <2> HIDE DEF body, D
  <2> QED
    BY Zenon, <2>1
<1>2. ASSUME NEW rest \in D, \A other \in D : rank[other] < rank[rest] => other \in good
      PROVE  rest \in good
  <2> SUFFICES ASSUME NEW h \in after[rest] PROVE Best(h, P \cup rest, k)
    OBVIOUS
  <2>1. CASE rest = {}
    <3>1. body(rest) = {a} /\ P \cup rest = P
      BY <2>1
    <3> QED
      BY Zenon, <1>1, <3>1
  <2>2. CASE rest # {}
    <3>1. PICK p \in rest : h \in {Push(i, k, p) : i \in after[rest \ {p}]}
      <4>1. h \in body(rest)
        <5> HIDE DEF body
        <5> QED
          BY Zenon, <1>1
      <4> QED
        BY Zenon, <2>2, <4>1
    <3>2. PICK i \in after[rest \ {p}] : h = Push(i, k, p)
      BY Zenon, <3>1
    <3>3. IsFiniteSet(rest) /\ rest \ {p} \in D
      BY FS_Subset
    <3>4. rank[rest \ {p}] < rank[rest]
      <4>1. Cardinality(rest) \in Nat /\ Cardinality(rest \ {p}) = Cardinality(rest) - 1
        BY <3>3, FS_CardinalityType, FS_RemoveElement
      <4> QED
        BY <3>3, <4>1
    <3>5. Best(i, P \cup (rest \ {p}), k)
      <4> HIDE DEF rank
      <4> QED
        BY Zenon, <1>2, <3>3, <3>4
    <3>6. p \in Pairs /\ p \notin P \cup (rest \ {p}) /\ P \cup (rest \ {p}) \in SUBSET Pairs
      BY <3>1
    <3>7. Best(h, (P \cup (rest \ {p})) \cup {p}, k)
      BY Zenon, <3>2, <3>5, <3>6, PushKeepsBest
    <3>8. (P \cup (rest \ {p})) \cup {p} = P \cup rest
      OBVIOUS
    <3> QED
      BY Zenon, <3>7, <3>8
  <2> QED
    BY <2>1, <2>2
<1>3. rank \in [D -> Nat]
  <2>1. \A rest \in D : Cardinality(rest) \in Nat
    BY FS_Subset, FS_CardinalityType
  <2> QED
    BY <2>1
<1>4. b \in good
  <2>1. b \in D
    OBVIOUS
  <2> HIDE DEF good, rank, D
  <2>2. Hereditary(D, rank, good)
    BY Zenon, <1>2 DEF Hereditary
  <2>3. D \subseteq good
    BY Zenon, <1>3, <2>2, RankInduction
  <2> QED
    BY <2>1, <2>3
<1> QED
  BY <1>4

\* What is among the best of one heap's pairs and the other heap's is among
\* the best of both heaps' pairs.
LEMMA BestOfBoth ==
  ASSUME NEW P \in SUBSET Pairs, NEW Q \in SUBSET Pairs, P \cap Q = {}, NEW k \in Nat,
         NEW b, Best(b, Q, k), NEW h, Best(h, P \cup b, k), IsFiniteSet(P)
  PROVE  Best(h, P \cup Q, k)
<1>1. /\ IsFiniteSet(Q) /\ b \subseteq Q /\ h \subseteq P \cup b
      /\ \A x \in b, y \in Q \ b : x[1] <= y[1]
      /\ \A x \in h, y \in (P \cup b) \ h : x[1] <= y[1]
  BY DEF Best
<1>2. IsFiniteSet(b) /\ IsFiniteSet(h) /\ IsFiniteSet(P \cup b) /\ IsFiniteSet(P \cup Q)
  BY <1>1, FS_Subset, FS_Union
<1>3. PICK nb, nh, nP, nQ, nb2 \in Nat :
        /\ nb = Cardinality(b) /\ nh = Cardinality(h) /\ nP = Cardinality(P)
        /\ nQ = Cardinality(Q) /\ nb2 = Cardinality(P \cup b)
  BY <1>1, <1>2, FS_CardinalityType
<1>4. Cardinality(P \cup Q) = nP + nQ /\ nb2 = nP + nb
  <2>1. P \cap b = {}
    BY <1>1
  <2>2. Cardinality({}) = 0
    BY FS_EmptySet
  <2>3. Cardinality(P \cup b) = nP + nb - 0
    BY <1>2, <1>3, <2>1, <2>2, FS_Union
  <2>4. Cardinality(P \cup Q) = nP + nQ - 0
    BY <1>1, <1>3, <2>2, FS_Union
  <2> QED
    BY <1>3, <2>3, <2>4
<1>5. nb = AtMost(k, nQ) /\ nh = AtMost(k, nP + nb)
  BY <1>3, <1>4 DEF Best
<1>6. nh = AtMost(k, nP + nQ)
  BY <1>5 DEF AtMost
<1>7. ASSUME NEW x \in h, NEW y \in (P \cup Q) \ h
      PROVE  x[1] <= y[1]
  <2>1. CASE y \in P \cup b
    BY <1>1, <2>1
  <2>2. CASE y \notin P \cup b
    <3>1. y \in Q \ b
      BY <2>2
    <3>2. CASE x \in b
      BY <1>1, <3>1, <3>2
    <3>3. CASE x \notin b
      <4>1. nb = k
        <5>1. nb # nQ
          BY <1>1, <1>3, <3>1, FS_Subset
        <5> QED
          BY <1>5, <5>1 DEF AtMost
      <4>2. ~(b \subseteq h)
        <5> SUFFICES ASSUME b \subseteq h PROVE FALSE
          OBVIOUS
        <5>1. nb <= nh /\ (nb = nh => b = h)
          BY <1>2, <1>3, FS_Subset
        <5>2. nh <= k
          BY <1>5 DEF AtMost
        <5> QED
          BY <3>3, <4>1, <5>1, <5>2
      <4>3. PICK z \in b : z \notin h
        BY <4>2
      <4>4. x[1] <= z[1] /\ z[1] <= y[1]
        BY <1>1, <3>1, <4>3
      <4>5. x[1] \in Nat /\ y[1] \in Nat /\ z[1] \in Nat
        BY <1>1, <3>1, <4>3 DEF Pairs
      <4> QED
        BY <4>4, <4>5
    <3> QED
      BY <3>2, <3>3
  <2> QED
    BY <2>1, <2>2
<1> QED
  BY <1>1, <1>2, <1>3, <1>4, <1>6, <1>7 DEF Best

LEMMA MergeKeepsBest ==
  ASSUME NEW P \in SUBSET Pairs, NEW Q \in SUBSET Pairs, P \cap Q = {}, NEW k \in Nat, k # 0,
         NEW a, Best(a, P, k), NEW b, Best(b, Q, k)
  PROVE  \A h \in Merge(a, b, k) : Best(h, P \cup Q, k)
<1>1. b \subseteq Q /\ IsFiniteSet(b) /\ IsFiniteSet(P) /\ b \in SUBSET Pairs /\ P \cap b = {}
  BY FS_Subset DEF Best
<1>2. PICK after : after = CHOOSE f : MergedBy(f, a, b, k)
  OBVIOUS
<1>3. MergedBy(after, a, b, k)
  BY Zenon, <1>1, <1>2, MergesExist
<1>4. Merge(a, b, k) = after[b]
  BY Zenon, <1>2 DEF Merge, MergedBy
<1>5. \A h \in after[b] : Best(h, P \cup b, k)
  BY Zenon, <1>1, <1>3, MergesKeepBest
<1> QED
  BY Zenon, <1>1, <1>4, <1>5, BestOfBoth

-----------------------------------------------------------------------------
(* Joining the heaps of all chunks. *)

ReducedBy(of, heaps, k) ==
  of = [span \in (DOMAIN heaps) \X (DOMAIN heaps) |->
          IF span[1] >= span[2] THEN {heaps[span[1]]}
          ELSE UNION {Joined(of[<<span[1], mid>>], of[<<mid + 1, span[2]>>], k) :
                        mid \in span[1]..(span[2] - 1)}]


\* Nothing but the two heaps' pairs comes out of a merge.
LEMMA MergeBrings ==
  ASSUME NEW a, NEW b, IsFiniteSet(b), NEW k
  PROVE  \A h \in Merge(a, b, k) : h \subseteq a \cup b
<1>1. PICK after : after = CHOOSE f : MergedBy(f, a, b, k)
  OBVIOUS
<1>2. MergedBy(after, a, b, k)
  BY Zenon, <1>1, MergesExist
<1>3. Merge(a, b, k) = after[b]
  BY Zenon, <1>1 DEF Merge, MergedBy
<1> DEFINE D == SUBSET b
           rank == [rest \in D |-> Cardinality(rest)]
           good == {rest \in D : \A h \in after[rest] : h \subseteq a \cup b}
           body(rest) == IF rest = {} THEN {a}
                         ELSE UNION {{Push(h, k, p) : h \in after[rest \ {p}]} : p \in rest}
<1>4. \A rest \in D : after[rest] = body(rest)
  <2>1. after = [rest \in D |-> body(rest)]
    BY Zenon, <1>2 DEF MergedBy
  <2> HIDE DEF body, D
  <2> QED
    BY Zenon, <2>1
<1>5. ASSUME NEW rest \in D, \A other \in D : rank[other] < rank[rest] => other \in good
      PROVE  rest \in good
  <2> SUFFICES ASSUME NEW h \in after[rest] PROVE h \subseteq a \cup b
    OBVIOUS
  <2>1. h \in body(rest)
    <3> HIDE DEF body
    <3> QED
      BY Zenon, <1>4
  <2>2. CASE rest = {}
    BY <2>1, <2>2
  <2>3. CASE rest # {}
    <3>1. PICK p \in rest : h \in {Push(i, k, p) : i \in after[rest \ {p}]}
      BY Zenon, <2>1, <2>3
    <3>2. PICK i \in after[rest \ {p}] : h = Push(i, k, p)
      BY Zenon, <3>1
    <3>3. rest \ {p} \in D /\ rank[rest \ {p}] < rank[rest]
      <4>1. IsFiniteSet(rest)
        BY FS_Subset
      <4>2. Cardinality(rest) \in Nat /\ Cardinality(rest \ {p}) = Cardinality(rest) - 1
        BY <4>1, FS_CardinalityType, FS_RemoveElement
      <4> QED
        BY <4>2
    <3>4. i \subseteq a \cup b
      <4> HIDE DEF rank
      <4> QED
        BY Zenon, <1>5, <3>3
    <3> QED
      BY <3>2, <3>4, PushBrings
  <2> QED
    BY <2>2, <2>3
<1>6. rank \in [D -> Nat]
  <2>1. \A rest \in D : Cardinality(rest) \in Nat
    BY FS_Subset, FS_CardinalityType
  <2> QED
    BY <2>1
<1>7. b \in good
  <2>1. b \in D
    OBVIOUS
  <2> HIDE DEF good, rank, D
  <2>2. Hereditary(D, rank, good)
    BY Zenon, <1>5 DEF Hereditary
  <2>3. D \subseteq good
    BY Zenon, <1>6, <2>2, RankInduction
  <2> QED
    BY <2>1, <2>3
<1> QED
  BY <1>3, <1>7

LEMMA InJoined ==
  ASSUME NEW A, NEW B, NEW k
  PROVE  \A h : h \in Joined(A, B, k) <=> \E a \in A, b \in B : h \in Merge(a, b, k)
BY DEF Joined

\* The spans of chunks, shorter ones first.
SpanLength(D) == [span \in D |-> IF span[1] >= span[2] THEN 0 ELSE span[2] - span[1]]

ShorterInside(D, rank) ==
  \A span \in D : ~(span[1] >= span[2]) =>
    \A mid \in span[1]..(span[2] - 1) :
      /\ <<span[1], mid>> \in D /\ <<mid + 1, span[2]>> \in D
      /\ rank[<<span[1], mid>>] < rank[span] /\ rank[<<mid + 1, span[2]>>] < rank[span]

LEMMA Spans ==
  ASSUME NEW C \in Nat, NEW D, D = (1..C) \X (1..C)
  PROVE  /\ SpanLength(D) \in [D -> Nat]
         /\ Bounded(D, SpanLength(D))
         /\ ShorterInside(D, SpanLength(D))
<1>1. \A span \in D : span[1] \in 1..C /\ span[2] \in 1..C
  OBVIOUS
<1>2. SpanLength(D) \in [D -> Nat]
  BY <1>1 DEF SpanLength
<1>3. C + 1 \in Nat /\ \A span \in D : SpanLength(D)[span] < C + 1
  BY <1>1 DEF SpanLength
<1>4. ASSUME NEW span \in D, ~(span[1] >= span[2]), NEW mid \in span[1]..(span[2] - 1)
      PROVE  /\ <<span[1], mid>> \in D /\ <<mid + 1, span[2]>> \in D
             /\ SpanLength(D)[<<span[1], mid>>] < SpanLength(D)[span]
             /\ SpanLength(D)[<<mid + 1, span[2]>>] < SpanLength(D)[span]
  <2>1. PICK lo, hi \in 1..C : lo = span[1] /\ hi = span[2]
    BY <1>1
  <2>2. mid \in 1..C /\ mid + 1 \in 1..C /\ lo <= mid /\ mid < hi /\ lo < hi
    BY <1>4, <2>1
  <2>3. <<lo, mid>> \in D /\ <<mid + 1, hi>> \in D
    BY <2>2
  <2>4. SpanLength(D)[span] = hi - lo
    BY <2>1, <2>2 DEF SpanLength
  <2>5. SpanLength(D)[<<lo, mid>>] = (IF lo >= mid THEN 0 ELSE mid - lo)
    BY <2>3 DEF SpanLength
  <2>6. SpanLength(D)[<<mid + 1, hi>>] = (IF mid + 1 >= hi THEN 0 ELSE hi - (mid + 1))
    BY <2>3 DEF SpanLength
  <2> QED
    BY <2>1, <2>2, <2>3, <2>4, <2>5, <2>6
<1> QED
  BY <1>2, <1>3, <1>4 DEF Bounded, ShorterInside

LEMMA ReductionsExist ==
  ASSUME NEW C \in Nat, NEW heaps, DOMAIN heaps = 1..C, NEW k,
         NEW U, IsFiniteSet(U), \A c \in 1..C : heaps[c] \subseteq U
  PROVE  \E of : ReducedBy(of, heaps, k)
<1> DEFINE D == (1..C) \X (1..C)
           V == SUBSET SUBSET U
           body(g, span) == IF span[1] >= span[2] THEN {heaps[span[1]]}
                            ELSE UNION {Joined(g[<<span[1], mid>>], g[<<mid + 1, span[2]>>], k) :
                                          mid \in span[1]..(span[2] - 1)}
           step == [g \in [D -> V] |-> [span \in D |-> body(g, span)]]
<1>1. PICK rank : rank = SpanLength(D)
  OBVIOUS
<1>2. /\ rank \in [D -> Nat]
      /\ Bounded(D, rank)
      /\ ShorterInside(D, rank)
  BY Zenon, <1>1, Spans
<1>3. ASSUME NEW g \in [D -> V], NEW span \in D
      PROVE  body(g, span) \in V
  <2>1. CASE span[1] >= span[2]
    BY <2>1
  <2>2. CASE ~(span[1] >= span[2])
    <3> SUFFICES ASSUME NEW x \in body(g, span) PROVE x \subseteq U
      BY Zenon
    <3>1. PICK mid \in span[1]..(span[2] - 1) :
            x \in Joined(g[<<span[1], mid>>], g[<<mid + 1, span[2]>>], k)
      BY Zenon, <2>2
    <3>2. PICK a \in g[<<span[1], mid>>], b \in g[<<mid + 1, span[2]>>] : x \in Merge(a, b, k)
      BY Zenon, <3>1, InJoined
    <3>3. <<span[1], mid>> \in D /\ <<mid + 1, span[2]>> \in D
      BY Zenon, <1>2, <2>2 DEF ShorterInside
    <3>4. g[<<span[1], mid>>] \in V /\ g[<<mid + 1, span[2]>>] \in V
      <4> HIDE DEF D, V
      <4> QED
        BY <3>3
    <3>5. a \subseteq U /\ b \subseteq U
      BY Zenon, <3>2, <3>4
    <3>6. IsFiniteSet(b)
      BY <3>5, FS_Subset
    <3> QED
      BY <3>2, <3>5, <3>6, MergeBrings
  <2> QED
    BY <2>1, <2>2
<1>4. ASSUME NEW g \in [D -> V], NEW h \in [D -> V], NEW span \in D,
             \A other \in D : rank[other] < rank[span] => g[other] = h[other]
      PROVE  body(g, span) = body(h, span)
  <2>1. CASE span[1] >= span[2]
    BY <2>1
  <2>2. CASE ~(span[1] >= span[2])
    <3>1. \A mid \in span[1]..(span[2] - 1) :
            /\ g[<<span[1], mid>>] = h[<<span[1], mid>>]
            /\ g[<<mid + 1, span[2]>>] = h[<<mid + 1, span[2]>>]
      BY Zenon, <1>2, <1>4, <2>2 DEF ShorterInside
    <3>2. {Joined(g[<<span[1], mid>>], g[<<mid + 1, span[2]>>], k) : mid \in span[1]..(span[2] - 1)}
            = {Joined(h[<<span[1], mid>>], h[<<mid + 1, span[2]>>], k) : mid \in span[1]..(span[2] - 1)}
      BY Zenon, <3>1
    <3> QED
      BY Zenon, <3>2
  <2> QED
    BY <2>1, <2>2
<1>5. V # {} /\ D = (DOMAIN heaps) \X (DOMAIN heaps)
  OBVIOUS
<1> HIDE DEF D, V, body
<1>6. step \in [[D -> V] -> [D -> V]]
  BY Zenon, <1>3
<1>7. \A g, h \in [D -> V], span \in D :
        (\A other \in D : rank[other] < rank[span] => g[other] = h[other])
          => step[g][span] = step[h][span]
  BY Zenon, <1>4
<1>8. PICK f \in [D -> V] : f = step[f]
  <2> HIDE DEF step
  <2>1. AsksBelow(D, V, rank, step)
    BY Zenon, <1>6, <1>7 DEF AsksBelow
  <2>2. FixedBy(D, V, step)
    BY Zenon, <1>2, <1>5, <2>1, FixedPoint
  <2> QED
    BY Zenon, <2>2 DEF FixedBy
<1>9. f = [span \in D |-> body(f, span)]
  BY Zenon, <1>8
<1>10. ReducedBy(f, heaps, k)
  BY Zenon, <1>5, <1>9 DEF body, ReducedBy
<1> QED
  BY Zenon, <1>10

Between(part, lo, hi) == UNION {part[c] : c \in lo..hi}

LEMMA BetweenSplits ==
  ASSUME NEW C \in Nat, NEW part \in [1..C -> SUBSET Pairs],
         \A c, d \in 1..C : c # d => part[c] \cap part[d] = {},
         NEW lo \in 1..C, NEW mid \in 1..C, NEW hi \in 1..C, lo <= mid, mid < hi
  PROVE  /\ Between(part, lo, mid) \in SUBSET Pairs
         /\ Between(part, mid + 1, hi) \in SUBSET Pairs
         /\ Between(part, lo, mid) \cap Between(part, mid + 1, hi) = {}
         /\ Between(part, lo, mid) \cup Between(part, mid + 1, hi) = Between(part, lo, hi)
<1>1. \A c \in lo..mid, d \in (mid + 1)..hi : c \in 1..C /\ d \in 1..C /\ c # d
  OBVIOUS
<1>2. lo..hi = (lo..mid) \cup ((mid + 1)..hi)
  OBVIOUS
<1>3. \A c \in lo..hi : c \in 1..C
  OBVIOUS
<1>4. \A c \in lo..hi : part[c] \in SUBSET Pairs
  BY <1>3
<1>5. \A x, a, b : x \in Between(part, a, b) <=> \E c \in a..b : x \in part[c]
  BY DEF Between
<1>6. ASSUME NEW x, x \in Between(part, lo, mid), x \in Between(part, mid + 1, hi)
      PROVE  FALSE
  <2>1. PICK c \in lo..mid, d \in (mid + 1)..hi : x \in part[c] /\ x \in part[d]
    BY Zenon, <1>5, <1>6
  <2> QED
    BY <1>1, <2>1
<1>7. ASSUME NEW x
      PROVE  x \in Between(part, lo, hi) <=> x \in Between(part, lo, mid) \/ x \in Between(part, mid + 1, hi)
  BY Zenon, <1>2, <1>5
<1>8. \A x \in Between(part, lo, hi) : x \in Pairs
  BY Zenon, <1>4, <1>5
<1> QED
  BY Zenon, <1>6, <1>7, <1>8

\* In whatever tree the heaps are joined.
LEMMA ReduceKeepsBest ==
  ASSUME NEW C \in Nat, C # 0, NEW heaps, DOMAIN heaps = 1..C, Len(heaps) = C,
         NEW k \in Nat, k # 0, NEW part \in [1..C -> SUBSET Pairs],
         \A c, d \in 1..C : c # d => part[c] \cap part[d] = {},
         \A c \in 1..C : Best(heaps[c], part[c], k),
         NEW U, IsFiniteSet(U), \A c \in 1..C : part[c] \subseteq U
  PROVE  \A h \in Reduce(heaps, k) : Best(h, Between(part, 1, C), k)
<1>1. PICK of : of = CHOOSE f : ReducedBy(f, heaps, k)
  OBVIOUS
<1>2. ReducedBy(of, heaps, k)
  <2>1. \A c \in 1..C : heaps[c] \subseteq U
    BY DEF Best
  <2> QED
    BY Zenon, <1>1, <2>1, ReductionsExist
<1>3. Reduce(heaps, k) = of[<<1, C>>]
  BY Zenon, <1>1 DEF Reduce, ReducedBy
<1> DEFINE D == (1..C) \X (1..C)
           body(span) == IF span[1] >= span[2] THEN {heaps[span[1]]}
                         ELSE UNION {Joined(of[<<span[1], mid>>], of[<<mid + 1, span[2]>>], k) :
                                       mid \in span[1]..(span[2] - 1)}
           good == {span \in D : span[1] <= span[2] =>
                      \A h \in of[span] : Best(h, Between(part, span[1], span[2]), k)}
<1>4. \A span \in D : of[span] = body(span)
  <2>1. of = [span \in D |-> body(span)]
    BY Zenon, <1>2 DEF ReducedBy
  <2> HIDE DEF body, D
  <2> QED
    BY Zenon, <2>1
<1>5. PICK rank : rank = SpanLength(D)
  OBVIOUS
<1>6. /\ rank \in [D -> Nat]
      /\ Bounded(D, rank)
      /\ ShorterInside(D, rank)
  BY Zenon, <1>5, Spans
<1>7. ASSUME NEW span \in D, \A other \in D : rank[other] < rank[span] => other \in good
      PROVE  span \in good
  <2> SUFFICES ASSUME span[1] <= span[2], NEW h \in of[span]
               PROVE  Best(h, Between(part, span[1], span[2]), k)
    OBVIOUS
  <2>1. span[1] \in 1..C /\ span[2] \in 1..C
    OBVIOUS
  <2>2. h \in body(span)
    <3> HIDE DEF body
    <3> QED
      BY Zenon, <1>4
  <2>3. CASE span[1] >= span[2]
    <3>1. span[1] = span[2] /\ h = heaps[span[1]]
      BY <2>1, <2>2, <2>3
    <3>2. Between(part, span[1], span[2]) = part[span[1]]
      <4>1. span[1]..span[2] = {span[1]}
        BY <3>1
      <4> QED
        BY <4>1 DEF Between
    <3>3. Best(heaps[span[1]], part[span[1]], k)
      OBVIOUS
    <3> QED
      BY Zenon, <3>1, <3>2, <3>3
  <2>4. CASE ~(span[1] >= span[2])
    <3>1. PICK mid \in span[1]..(span[2] - 1) : h \in Joined(of[<<span[1], mid>>], of[<<mid + 1, span[2]>>], k)
      BY Zenon, <2>2, <2>4
    <3>2. PICK a \in of[<<span[1], mid>>], b \in of[<<mid + 1, span[2]>>] : h \in Merge(a, b, k)
      BY <3>1, InJoined
    <3>3. /\ <<span[1], mid>> \in D /\ <<mid + 1, span[2]>> \in D
          /\ rank[<<span[1], mid>>] < rank[span] /\ rank[<<mid + 1, span[2]>>] < rank[span]
      BY Zenon, <1>6, <2>4, <3>1 DEF ShorterInside
    <3>4. <<span[1], mid>> \in good /\ <<mid + 1, span[2]>> \in good
      <4> HIDE DEF D, good
      <4> QED
        BY Zenon, <1>7, <3>3
    <3>5. mid \in 1..C /\ span[1] <= mid /\ mid < span[2] /\ mid + 1 <= span[2]
      BY <2>1, <2>4, <3>1
    <3>6. Best(a, Between(part, span[1], mid), k) /\ Best(b, Between(part, mid + 1, span[2]), k)
      BY <3>2, <3>4, <3>5
    <3>7. /\ Between(part, span[1], mid) \in SUBSET Pairs
          /\ Between(part, mid + 1, span[2]) \in SUBSET Pairs
          /\ Between(part, span[1], mid) \cap Between(part, mid + 1, span[2]) = {}
          /\ Between(part, span[1], mid) \cup Between(part, mid + 1, span[2]) = Between(part, span[1], span[2])
      BY <2>1, <3>5, BetweenSplits
    <3>8. Best(h, Between(part, span[1], mid) \cup Between(part, mid + 1, span[2]), k)
      BY Zenon, <3>2, <3>6, <3>7, MergeKeepsBest
    <3> QED
      BY Zenon, <3>7, <3>8
  <2> QED
    BY <2>3, <2>4
<1>8. <<1, C>> \in good
  <2>1. <<1, C>> \in D
    OBVIOUS
  <2> HIDE DEF good, D
  <2>2. Hereditary(D, rank, good)
    BY Zenon, <1>7 DEF Hereditary
  <2>3. D \subseteq good
    BY Zenon, <1>6, <2>2, RankInduction
  <2> QED
    BY <2>1, <2>3
<1> QED
  BY <1>3, <1>8

-----------------------------------------------------------------------------
(* Cutting into chunks. *)

\* Every position is in one chunk and no other.
CutUp(chunks, N, C) ==
  /\ C # 0 /\ DOMAIN chunks = 1..C
  /\ \A c \in 1..C : /\ Len(chunks[c]) \in Nat
                     /\ \A i \in 1..Len(chunks[c]) : chunks[c][i] \in 1..N
  /\ \A c, d \in 1..C : \A i \in 1..Len(chunks[c]), j \in 1..Len(chunks[d]) :
       chunks[c][i] = chunks[d][j] => c = d /\ i = j
  /\ \A p \in 1..N : \E c \in 1..C : \E i \in 1..Len(chunks[c]) : chunks[c][i] = p

LEMMA ChunksCover ==
  ASSUME NEW N \in Nat, N # 0, NEW size \in Nat, size # 0, NEW chunks, chunks = Chunks(N, size)
  PROVE  \E C \in Nat : CutUp(chunks, N, C)
<1>1. PICK C : C = (N + size - 1) \div size
  OBVIOUS
<1>2. C \in Nat /\ N <= C * size /\ (C - 1) * size < N
  <2>1. N + size - 1 \in Nat
    OBVIOUS
  <2>2. /\ N + size - 1 = size * C + ((N + size - 1) % size)
        /\ (N + size - 1) % size \in 0..(size - 1)
    BY <1>1
  <2>3. C \in Nat
    BY <1>1, <2>1
  <2> QED
    BY <2>2, <2>3
<1>3. C # 0
  BY <1>2
<1>4. ASSUME NEW c \in 1..C
      PROVE  (c - 1) * size \in Nat /\ (c - 1) * size < N /\ (c - 1) * size <= (C - 1) * size
  <2>1. c - 1 \in Nat /\ c - 1 <= C - 1 /\ C - 1 \in Nat
    BY <1>2
  <2>2. \A a, b \in Nat : a <= b => a * size <= b * size
    OBVIOUS
  <2>3. (c - 1) * size \in Nat /\ (C - 1) * size \in Nat
    BY <2>1
  <2> QED
    BY <1>2, <2>1, <2>2, <2>3
<1> DEFINE from(c) == (c - 1) * size
           much(c) == AtMost(size, N - from(c))
<1>5. chunks = [c \in 1..C |-> [i \in 1..much(c) |-> from(c) + i]]
  BY Zenon, <1>1 DEF Chunks
<1>6. ASSUME NEW c \in 1..C
      PROVE  /\ from(c) \in Nat /\ much(c) \in Nat /\ much(c) <= size /\ from(c) + much(c) <= N
             /\ Len(chunks[c]) = much(c)
             /\ \A i \in 1..much(c) : chunks[c][i] = from(c) + i
  <2>1. /\ from(c) \in Nat /\ much(c) \in Nat /\ much(c) <= size /\ from(c) + much(c) <= N
    BY <1>4 DEF AtMost
  <2> HIDE DEF from, much
  <2>2. chunks[c] = [i \in 1..much(c) |-> from(c) + i]
    BY Zenon, <1>5
  <2>3. chunks[c] \in [1..much(c) -> Nat]
    BY <2>1, <2>2
  <2>4. chunks[c] \in Seq(Nat) /\ Len(chunks[c]) = much(c)
    BY <2>1, <2>3, SeqDef, LenProperties
  <2> QED
    BY <2>1, <2>2, <2>4
<1>7. DOMAIN chunks = 1..C
  BY <1>5
<1>8. ASSUME NEW c \in 1..C, NEW d \in 1..C, c < d
      PROVE  from(c) + size <= from(d)
  <2>1. PICK a, b \in Nat : a = c - 1 /\ b = d - 1 /\ a + 1 <= b
    BY <1>8
  <2>2. (a + 1) * size <= b * size
    BY <2>1
  <2>3. (a + 1) * size = a * size + size
    BY <2>1
  <2> QED
    BY <2>1, <2>2, <2>3
<1>9. ASSUME NEW p \in 1..N
      PROVE  \E c \in 1..C : \E i \in 1..much(c) : from(c) + i = p
  <2>1. PICK a, r : a = (p - 1) \div size /\ r = (p - 1) % size
    OBVIOUS
  <2>2. p - 1 \in Nat
    OBVIOUS
  <2>3. a \in Nat /\ p - 1 = size * a + r /\ r \in 0..(size - 1)
    BY <2>1, <2>2
  <2>4. a < C
    <3> SUFFICES ASSUME C <= a PROVE FALSE
      BY <1>2, <2>3
    <3>1. C * size <= a * size
      BY <1>2, <2>3
    <3>2. a * size <= p - 1 /\ a * size \in Nat
      BY <2>3
    <3> QED
      BY <1>2, <3>1, <3>2
  <2>5. PICK c \in 1..C : c = a + 1
    BY <1>2, <2>3, <2>4
  <2>6. from(c) = a * size
    BY <2>3, <2>5
  <2>7. from(c) + (r + 1) = p /\ r + 1 <= size /\ r + 1 \in Nat /\ r + 1 # 0 /\ from(c) \in Nat
    BY <2>3, <2>6
  <2>8. r + 1 \in 1..much(c)
    <3> HIDE DEF from
    <3> QED
      BY <2>7 DEF AtMost
  <2> QED
    BY <2>7, <2>8
<1> HIDE DEF from, much
<1>10. ASSUME NEW c \in 1..C, NEW d \in 1..C, NEW i \in 1..much(c), NEW j \in 1..much(d),
              from(c) + i = from(d) + j
       PROVE  c = d /\ i = j
  <2>1. ~(c < d)
    <3> SUFFICES ASSUME c < d PROVE FALSE
      OBVIOUS
    <3>1. from(c) + size <= from(d)
      BY <1>8
    <3> QED
      BY <1>6, <1>10, <3>1
  <2>2. ~(d < c)
    <3> SUFFICES ASSUME d < c PROVE FALSE
      OBVIOUS
    <3>1. from(d) + size <= from(c)
      BY <1>8
    <3> QED
      BY <1>6, <1>10, <3>1
  <2>3. c = d
    BY <1>2, <2>1, <2>2
  <2>4. from(c) = from(d) /\ from(c) \in Nat
    BY <1>6, <2>3
  <2> QED
    BY <1>6, <1>10, <2>3, <2>4
<1>11. \A c \in 1..C : /\ Len(chunks[c]) \in Nat
                       /\ \A i \in 1..Len(chunks[c]) : chunks[c][i] \in 1..N
  BY <1>6
<1>12. \A c, d \in 1..C : \A i \in 1..Len(chunks[c]), j \in 1..Len(chunks[d]) :
         chunks[c][i] = chunks[d][j] => c = d /\ i = j
  BY <1>6, <1>10
<1>13. \A p \in 1..N : \E c \in 1..C : \E i \in 1..Len(chunks[c]) : chunks[c][i] = p
  BY <1>6, <1>9
<1>14. CutUp(chunks, N, C)
  BY Zenon, <1>3, <1>7, <1>11, <1>12, <1>13 DEF CutUp
<1> QED
  BY <1>2, <1>14

-----------------------------------------------------------------------------
(* A scan finds the nearest of its scope. *)

\* The pairs of all positions, each once.
PairsOf(q, docs, N)  == {PairAt(q, docs, i) : i \in 1..N}
Measured(q, docs, N) == \A i \in 1..N : DistanceTo(q, docs[i]) \in Nat

LEMMA AllPairs ==
  ASSUME NEW N \in Nat, NEW q, NEW docs, Measured(q, docs, N)
  PROVE  /\ PairsOf(q, docs, N) \in SUBSET Pairs
         /\ IsFiniteSet(PairsOf(q, docs, N))
         /\ Cardinality(PairsOf(q, docs, N)) = N
<1> DEFINE all  == PairsOf(q, docs, N)
           pair == [i \in 1..N |-> PairAt(q, docs, i)]
<1>1. all \in SUBSET Pairs
  BY DEF Pairs, PairAt, PairsOf, Measured
<1>2. pair \in Surjection(1..N, all)
  BY DEF Surjection, PairsOf
<1>3. \A i, j \in 1..N : pair[i] = pair[j] => i = j
  BY DEF PairAt
<1>4. pair \in Injection(1..N, all)
  <2> HIDE DEF pair, all
  <2> QED
    BY <1>2, <1>3 DEF Injection, IsInjective, Surjection
<1>5. IsFiniteSet(1..N) /\ Cardinality(1..N) = N
  BY FS_Interval
<1>6. IsFiniteSet(all) /\ Cardinality(all) = Cardinality(1..N)
  <2> HIDE DEF pair, all
  <2> QED
    BY <1>2, <1>4, <1>5, FS_Surjection
<1> QED
  BY <1>1, <1>5, <1>6

\* The pairs of one chunk.
PairsIn(q, docs, chunk) == {PairAt(q, docs, chunk[i]) : i \in 1..Len(chunk)}

\* The heap that is left after all chunks are joined.
LEMMA HeapsJoined ==
  ASSUME NEW N \in Nat, N # 0, NEW q, NEW docs, Measured(q, docs, N),
         NEW k \in Nat, k # 0, NEW size \in Nat, size # 0,
         NEW chunks, chunks = Chunks(N, size),
         NEW heaps, heaps = [c \in DOMAIN chunks |-> ScanChunk(q, docs, k, chunks[c])]
  PROVE  \A h \in Reduce(heaps, k) : Best(h, PairsOf(q, docs, N), k)
<1>1. PICK C \in Nat : CutUp(chunks, N, C)
  BY Zenon, ChunksCover
<1> DEFINE once(c, d) == \A i \in 1..Len(chunks[c]), j \in 1..Len(chunks[d]) :
                           chunks[c][i] = chunks[d][j] => c = d /\ i = j
<1>0. \A c, d \in 1..C : once(c, d)
  BY Zenon, <1>1 DEF CutUp
<1>2. PICK all : all = PairsOf(q, docs, N)
  OBVIOUS
<1>3. all \in SUBSET Pairs /\ IsFiniteSet(all)
  BY Zenon, <1>2, AllPairs
<1>4. ASSUME NEW c \in 1..C
      PROVE  /\ PairsIn(q, docs, chunks[c]) \in SUBSET all
             /\ Best(heaps[c], PairsIn(q, docs, chunks[c]), k)
  <2>1. PICK chunk : chunk = chunks[c]
    OBVIOUS
  <2>2. PICK L : L = Len(chunk)
    OBVIOUS
  <2>3. L \in Nat /\ \A i \in 1..L : chunk[i] \in 1..N
    BY Zenon, <1>1, <2>1, <2>2 DEF CutUp
  <2>4. \A i \in 1..L, j \in 1..L : chunk[i] = chunk[j] => i = j
    <3>1. once(c, c)
      BY Zenon, <1>0
    <3> QED
      BY Zenon, <2>1, <2>2, <3>1
  <2>5. PairsIn(q, docs, chunk) = {PairAt(q, docs, chunk[i]) : i \in 1..L}
    BY Zenon, <2>2 DEF PairsIn
  <2>6. PairsIn(q, docs, chunk) \in SUBSET all
    BY <1>2, <2>3, <2>5 DEF PairsOf
  <2>7. /\ \A n \in 1..L : chunk[n] \in Nat /\ DistanceTo(q, docs[chunk[n]]) \in Nat
        /\ \A i, j \in 1..L : i # j => chunk[i] # chunk[j]
    BY <2>3, <2>4 DEF Measured
  <2>8. Best(ScanChunk(q, docs, k, chunk), {PairAt(q, docs, chunk[i]) : i \in 1..L}, k)
    BY Zenon, <2>2, <2>3, <2>7, ChunkKeepsBest
  <2>9. c \in DOMAIN chunks
    BY Zenon, <1>1 DEF CutUp
  <2>10. heaps[c] = ScanChunk(q, docs, k, chunk)
    BY Zenon, <2>1, <2>9
  <2> QED
    BY Zenon, <2>1, <2>5, <2>6, <2>8, <2>10
<1>5. PICK part : part = [c \in 1..C |-> PairsIn(q, docs, chunks[c])]
  OBVIOUS
<1>6. \A c \in 1..C : part[c] = PairsIn(q, docs, chunks[c])
  BY Zenon, <1>5
<1>7. part \in [1..C -> SUBSET Pairs] /\ \A c \in 1..C : part[c] \subseteq all
  BY <1>3, <1>4, <1>5
<1>8. ASSUME NEW c \in 1..C, NEW d \in 1..C, NEW x \in part[c], x \in part[d]
      PROVE  c = d
  <2>1. PICK i \in 1..Len(chunks[c]) : x = PairAt(q, docs, chunks[c][i])
    BY <1>6 DEF PairsIn
  <2>2. PICK j \in 1..Len(chunks[d]) : x = PairAt(q, docs, chunks[d][j])
    BY <1>6, <1>8 DEF PairsIn
  <2>3. chunks[c][i] = chunks[d][j]
    BY <2>1, <2>2 DEF PairAt
  <2>4. once(c, d)
    BY Zenon, <1>0
  <2> QED
    BY Zenon, <2>3, <2>4
<1>9. \A c, d \in 1..C : c # d => part[c] \cap part[d] = {}
  BY <1>8
<1>10. Between(part, 1, C) = all
  <2>1. \A x : x \in Between(part, 1, C) <=> \E c \in 1..C : x \in part[c]
    BY DEF Between
  <2>2. ASSUME NEW x \in all
        PROVE  \E c \in 1..C : x \in part[c]
    <3>1. PICK p \in 1..N : x = PairAt(q, docs, p)
      BY <1>2 DEF PairsOf
    <3>2. PICK c \in 1..C : \E i \in 1..Len(chunks[c]) : chunks[c][i] = p
      BY Zenon, <1>1 DEF CutUp
    <3> QED
      BY <1>6, <3>1, <3>2 DEF PairsIn
  <2> QED
    BY Zenon, <1>7, <2>1, <2>2
<1>11. C # 0 /\ DOMAIN heaps = 1..C
  BY Zenon, <1>1 DEF CutUp
<1>12. Len(heaps) = C
  <2>1. PICK T : T = {heaps[c] : c \in 1..C}
    OBVIOUS
  <2>2. heaps \in [1..C -> T]
    BY <1>11, <2>1
  <2>3. heaps \in Seq(T)
    BY <2>2, SeqDef
  <2> QED
    BY <1>11, <2>3, LenProperties
<1>13. \A c \in 1..C : Best(heaps[c], part[c], k)
  BY Zenon, <1>4, <1>6
<1>14. \A h \in Reduce(heaps, k) : Best(h, Between(part, 1, C), k)
  BY Zenon, <1>3, <1>7, <1>9, <1>11, <1>12, <1>13, ReduceKeepsBest
<1> QED
  BY Zenon, <1>2, <1>10, <1>14

\* A list of some documents of the corpus in index order.
ListOf(docs, near, N) ==
  /\ N = Cardinality(near) /\ N \in Nat
  /\ docs \in [1..N -> near]
  /\ \A d \in near : \E i \in 1..N : docs[i] = d
  /\ \A i, j \in 1..N : i < j => docs[i] < docs[j]

\* Sorted, the pairs kept are the nearest documents in rank order.
LEMMA SortedAreNearest ==
  ASSUME NEW q \in Signatures, NEW near \in SUBSET Docs, NEW docs, NEW N, ListOf(docs, near, N),
         NEW k \in Nat, NEW heap, Best(heap, PairsOf(q, docs, N), k)
  PROVE  \E S \in NearestSets(q, near, k) : \E r \in Rankings(q, S) : SortedHits(docs, heap) = HitsOf(q, r)
<1> DEFINE all == PairsOf(q, docs, N)
<1>1. /\ N = Cardinality(near) /\ N \in Nat /\ docs \in [1..N -> near]
      /\ \A d \in near : \E i \in 1..N : docs[i] = d
      /\ \A i, j \in 1..N : i < j => docs[i] < docs[j]
  BY DEF ListOf
<1>2. /\ \A i \in 1..N : docs[i] \in Docs /\ DistanceTo(q, docs[i]) \in Nat
      /\ Measured(q, docs, N)
  BY <1>1, DistanceToType DEF Measured
<1>3. all \in SUBSET Pairs /\ IsFiniteSet(all) /\ Cardinality(all) = N
  BY Zenon, <1>1, <1>2, AllPairs
<1>4. /\ heap \subseteq all /\ Cardinality(heap) = AtMost(k, N)
      /\ \A a \in heap, b \in all \ heap : a[1] <= b[1]
  BY Zenon, <1>3 DEF Best
<1>5. IsFiniteSet(heap) /\ heap \in SUBSET Pairs
  BY <1>3, <1>4, FS_Subset
<1>6. PICK m \in Nat : m = Cardinality(heap)
  BY <1>5, FS_CardinalityType
<1>7. \A p \in all : p[2] \in 1..N /\ p[1] = DistanceTo(q, docs[p[2]]) /\ p = PairAt(q, docs, p[2])
  BY <1>1 DEF PairAt, PairsOf
<1>8. PICK sorted : sorted = Listing(heap, PairOrder(heap))
  OBVIOUS
<1>9. /\ sorted \in [1..m -> heap]
      /\ \A p \in heap : \E i \in 1..m : sorted[i] = p
      /\ \A i, j \in 1..m : i < j => PairBefore(sorted[i], sorted[j])
  <2>1. PICK R : R = PairOrder(heap)
    OBVIOUS
  <2>2. StrictOrder(heap, R) /\ \A a, b \in heap : <<a, b>> \in R <=> PairBefore(a, b)
    BY Zenon, <1>5, <2>1, PairsOrdered
  <2>3. /\ Listing(heap, R) \in [1..Cardinality(heap) -> heap]
        /\ \A x \in heap : \E r \in 1..Cardinality(heap) : Listing(heap, R)[r] = x
        /\ \A i, j \in 1..Cardinality(heap) :
             i < j => <<Listing(heap, R)[i], Listing(heap, R)[j]>> \in R
    BY <1>5, <2>2, ListedInOrder
  <2>4. /\ sorted \in [1..m -> heap]
        /\ \A p \in heap : \E i \in 1..m : sorted[i] = p
        /\ \A i, j \in 1..m : i < j => <<sorted[i], sorted[j]>> \in R
    BY Zenon, <1>6, <1>8, <2>1, <2>3
  <2> QED
    BY <2>2, <2>4
<1>10. Ordered(heap, PairBefore) = sorted
  <2>1. \A x \in heap : {y \in heap : PairBefore(y, x)} = Ahead(heap, PairOrder(heap), x)
    BY <1>5, PairsOrdered DEF Ahead
  <2>2. \A r : (CHOOSE x \in heap : Cardinality({y \in heap : PairBefore(y, x)}) = r - 1)
               = (CHOOSE x \in heap : Cardinality(Ahead(heap, PairOrder(heap), x)) = r - 1)
    BY Zenon, <2>1
  <2>3. Ordered(heap, PairBefore) =
          [r \in 1..Cardinality(heap) |->
             CHOOSE x \in heap : Cardinality({y \in heap : PairBefore(y, x)}) = r - 1]
    BY Zenon DEF Ordered
  <2> QED
    BY Zenon, <1>8, <2>2, <2>3 DEF Listing
<1>11. SortedHits(docs, heap) = [i \in 1..m |-> [dist |-> sorted[i][1], doc |-> docs[sorted[i][2]]]]
  <2>1. DOMAIN sorted = 1..m
    BY <1>9
  <2> QED
    BY Zenon, <1>10, <2>1 DEF SortedHits
<1> DEFINE S == {docs[p[2]] : p \in heap}
           r == [i \in 1..m |-> docs[sorted[i][2]]]
           at1 == [p \in heap |-> docs[p[2]]]
<1>12. \A i, j \in 1..N : docs[i] = docs[j] => i = j
  <2> SUFFICES ASSUME NEW i \in 1..N, NEW j \in 1..N, docs[i] = docs[j] PROVE i = j
    OBVIOUS
  <2>1. docs[i] \in Nat /\ docs[j] \in Nat
    BY <1>2, DocsFinite DEF Docs
  <2>2. ~(i < j) /\ ~(j < i)
    BY <1>1, <2>1
  <2> QED
    BY <1>1, <2>2
<1>13. IsFiniteSet(S) /\ Cardinality(S) = m
  <2>1. at1 \in Surjection(heap, S)
    BY DEF Surjection
  <2>2. \A a, b \in heap : at1[a] = at1[b] => a = b
    <3>1. \A a, b \in heap : a[2] = b[2] => a = b
      BY Zenon, <1>4, <1>7
    <3>2. \A a \in heap : at1[a] = docs[a[2]] /\ a[2] \in 1..N
      BY <1>4, <1>7
    <3> HIDE DEF at1
    <3> SUFFICES ASSUME NEW a \in heap, NEW b \in heap, at1[a] = at1[b] PROVE a = b
      OBVIOUS
    <3>3. docs[a[2]] = docs[b[2]] /\ a[2] \in 1..N /\ b[2] \in 1..N
      BY Zenon, <3>2
    <3>4. a[2] = b[2]
      BY Zenon, <1>12, <3>3
    <3> QED
      BY Zenon, <3>1, <3>4
  <2> HIDE DEF at1, S
  <2>3. at1 \in Injection(heap, S)
    BY <2>1, <2>2 DEF Injection, IsInjective, Surjection
  <2> QED
    BY <1>5, <1>6, <2>1, <2>3, FS_Surjection
<1>14. S \subseteq near
  BY <1>1, <1>4, <1>7
<1>15. ASSUME NEW d \in S, NEW e \in near \ S
       PROVE  DistanceTo(q, d) <= DistanceTo(q, e)
  <2>1. PICK a \in heap : d = docs[a[2]]
    BY <1>15
  <2>2. PICK j \in 1..N : e = docs[j]
    BY <1>1, <1>15
  <2>3. PICK b : b = PairAt(q, docs, j)
    OBVIOUS
  <2>4. b \in all /\ b[1] = DistanceTo(q, e) /\ b[2] = j
    BY <2>2, <2>3 DEF PairAt, PairsOf
  <2>5. b \notin heap
    BY <1>15, <2>2, <2>4
  <2>6. a[1] <= b[1] /\ a[1] = DistanceTo(q, d)
    BY <1>4, <1>7, <2>1, <2>4, <2>5
  <2> QED
    BY <2>4, <2>6
<1>16. S \in NearestSets(q, near, k)
  <2> HIDE DEF S
  <2> QED
    BY <1>1, <1>4, <1>6, <1>13, <1>14, <1>15 DEF NearestSets, kSubset
<1>17. r \in [1..m -> S] /\ DOMAIN r = 1..m
  BY <1>9
<1>18. Range(r) = S
  BY <1>9 DEF Range
<1>19. ASSUME NEW i \in 1..m, NEW j \in 1..m, i < j
       PROVE  RankedBefore(q, r[i], r[j])
  <2>1. PICK a, b \in heap : a = sorted[i] /\ b = sorted[j] /\ PairBefore(a, b)
    BY <1>9, <1>19
  <2>2. r[i] = docs[a[2]] /\ r[j] = docs[b[2]]
    BY <2>1
  <2>3. /\ a[2] \in 1..N /\ a[1] = DistanceTo(q, docs[a[2]])
        /\ b[2] \in 1..N /\ b[1] = DistanceTo(q, docs[b[2]])
    BY <1>4, <1>7
  <2>4. a[2] < b[2] => docs[a[2]] < docs[b[2]]
    BY <1>1, <2>3
  <2> HIDE DEF r
  <2> QED
    BY Zenon, <2>1, <2>2, <2>3, <2>4 DEF PairBefore, RankedBefore
<1>20. r \in Rankings(q, S)
  <2> HIDE DEF r, S
  <2> QED
    BY <1>13, <1>17, <1>18, <1>19 DEF Rankings
<1>21. SortedHits(docs, heap) = HitsOf(q, r)
  <2>1. \A i \in 1..m : /\ sorted[i][1] = DistanceTo(q, r[i]) /\ docs[sorted[i][2]] = r[i]
    BY <1>4, <1>7, <1>9
  <2>2. HitsOf(q, r) = [i \in 1..m |-> [dist |-> DistanceTo(q, r[i]), doc |-> r[i]]]
    <3> HIDE DEF r
    <3> QED
      BY Zenon, <1>17 DEF HitsOf
  <2> HIDE DEF r
  <2> QED
    BY Zenon, <1>11, <2>1, <2>2
<1> HIDE DEF r, S
<1> QED
  BY Zenon, <1>16, <1>20, <1>21

\* Documents in the order of the index.
IndexOrder(near) == {p \in near \X near : p[1] < p[2]}

LEMMA InIndexOrder ==
  ASSUME NEW near \in SUBSET Docs
  PROVE  /\ IsFiniteSet(near)
         /\ StrictOrder(near, IndexOrder(near))
         /\ \A x, y \in near : <<x, y>> \in IndexOrder(near) <=> x < y
         /\ Listing(near, IndexOrder(near)) \in [1..Cardinality(near) -> near]
         /\ \A x \in near : \E r \in 1..Cardinality(near) : Listing(near, IndexOrder(near))[r] = x
         /\ \A i, j \in 1..Cardinality(near) :
              i < j => <<Listing(near, IndexOrder(near))[i], Listing(near, IndexOrder(near))[j]>>
                         \in IndexOrder(near)
<1>1. near \in SUBSET Nat /\ IsFiniteSet(near)
  <2>1. Docs \subseteq Nat
    BY DEF Docs
  <2>2. near \in SUBSET Nat
    BY <2>1
  <2> QED
    BY <2>2, DocsFinite, FS_Subset
<1>2. \A x, y \in near : <<x, y>> \in IndexOrder(near) <=> x < y
  BY DEF IndexOrder
<1>3. StrictOrder(near, IndexOrder(near))
  BY <1>1, <1>2 DEF StrictOrder
<1> QED
  BY <1>1, <1>2, <1>3, ListedInOrder

\* The gather lists the documents of the scope once each, in index order.
LEMMA PackedList ==
  ASSUME NEW scope, NEW near, near = scope \cap Docs, NEW N, N = Cardinality(near)
  PROVE  ListOf(Packed(scope), near, N)
<1> PICK R : R = IndexOrder(near)
  OBVIOUS
<1>1. /\ IsFiniteSet(near) /\ near \in SUBSET Docs
      /\ \A x, y \in near : <<x, y>> \in R <=> x < y
      /\ Listing(near, R) \in [1..N -> near]
      /\ \A x \in near : \E r \in 1..N : Listing(near, R)[r] = x
      /\ \A i, j \in 1..N : i < j => <<Listing(near, R)[i], Listing(near, R)[j]>> \in R
  <2>1. near \in SUBSET Docs
    OBVIOUS
  <2> QED
    BY Zenon, <2>1, InIndexOrder
<1>2. N \in Nat
  BY <1>1, FS_CardinalityType
<1>3. Packed(scope) = Listing(near, R)
  <2>1. \A x \in near : {y \in near : y < x} = Ahead(near, R, x)
    BY <1>1 DEF Ahead
  <2>2. \A r : (CHOOSE x \in near : Cardinality({y \in near : y < x}) = r - 1)
               = (CHOOSE x \in near : Cardinality(Ahead(near, R, x)) = r - 1)
    BY Zenon, <2>1
  <2>3. Packed(scope) =
          [r \in 1..Cardinality(near) |->
             CHOOSE x \in near : Cardinality({y \in near : y < x}) = r - 1]
    BY DEF Packed, Ordered
  <2> QED
    BY Zenon, <2>2, <2>3 DEF Listing
<1>4. \A i, j \in 1..N : i < j => Listing(near, R)[i] < Listing(near, R)[j]
  BY <1>1
<1> QED
  BY Zenon, <1>1, <1>2, <1>3, <1>4 DEF ListOf

\* An empty scope has the empty answer.
LEMMA NothingNear ==
  ASSUME NEW q, NEW k \in Nat, NEW scope, scope \cap Docs = {}
  PROVE  <<>> \in ScanTopK(q, scope, k)
<1>1. Cardinality({}) = 0
  BY FS_EmptySet
<1>2. {} \in NearestSets(q, {}, k)
  BY <1>1 DEF NearestSets, kSubset, AtMost
<1>3. PICK r : r = <<>>
  OBVIOUS
<1>4. r \in [1..0 -> {}] /\ DOMAIN r = {} /\ Range(r) = {}
  BY <1>3 DEF Range
<1>5. r \in Rankings(q, {})
  BY <1>1, <1>4 DEF Rankings
<1>6. HitsOf(q, r) = <<>>
  BY <1>4 DEF HitsOf
<1> QED
  BY <1>2, <1>5, <1>6 DEF ScanTopK

\* However the scan is split and joined, it returns k nearest documents of its
\* scope in rank order (index/signatures.rs, index/heap.rs).
THEOREM ScanRefines ==
  ASSUME NEW q \in Signatures, NEW k \in Nat, k # 0, NEW parallel \in BOOLEAN, NEW scope,
         NEW hits \in Scan(q, Packed(scope), k, parallel)
  PROVE  hits \in ScanTopK(q, scope, k)
<1>1. PICK near, docs : near = scope \cap Docs /\ docs = Packed(scope)
  OBVIOUS
<1>2. PICK N : N = Cardinality(near)
  OBVIOUS
<1>3. ListOf(docs, near, N)
  BY Zenon, <1>1, <1>2, PackedList
<1>4. /\ N \in Nat /\ docs \in [1..N -> near] /\ near \in SUBSET Docs
      /\ Measured(q, docs, N)
  BY <1>1, <1>3, DistanceToType DEF ListOf, Measured
<1>5. docs \in Seq(near) /\ Len(docs) = N
  BY <1>4, SeqDef, LenProperties
<1>6. CASE N = 0
  <2>1. docs = <<>>
    BY <1>5, <1>6, EmptySeq
  <2>2. near = {}
    BY <1>2, <1>4, <1>6, DocsFinite, FS_Subset, FS_EmptySet
  <2>3. hits = <<>>
    BY <1>1, <2>1 DEF Scan
  <2> QED
    BY <1>1, <2>2, <2>3, NothingNear
<1>7. CASE N # 0
  <2>1. PICK size : size = IF parallel THEN ChunkSize(N) ELSE AtLeast(N, 1)
    OBVIOUS
  <2>2. size \in Nat /\ size # 0
    <3>1. N \div RayonThreads \in Nat
      BY <1>4, ScanAssumption
    <3>2. ChunkSize(N) \in Nat /\ ChunkSize(N) # 0
      BY <3>1, ScanAssumption DEF ChunkSize, AtLeast
    <3> QED
      BY <1>4, <2>1, <3>2 DEF AtLeast
  <2>3. PICK chunks : chunks = Chunks(N, size)
    OBVIOUS
  <2>4. PICK heaps : heaps = [c \in DOMAIN chunks |-> ScanChunk(q, docs, k, chunks[c])]
    OBVIOUS
  <2>5. docs # <<>>
    BY <1>5, <1>7, EmptySeq
  <2>6. Scan(q, docs, k, parallel) = {SortedHits(docs, h) : h \in Reduce(heaps, k)}
    BY Zenon, <1>5, <2>1, <2>3, <2>4, <2>5 DEF Scan
  <2>7. PICK h \in Reduce(heaps, k) : hits = SortedHits(docs, h)
    BY <1>1, <2>6
  <2>8. Best(h, PairsOf(q, docs, N), k)
    BY Zenon, <1>4, <1>7, <2>2, <2>3, <2>4, <2>7, HeapsJoined
  <2>9. PICK S \in NearestSets(q, near, k) :
               \E r \in Rankings(q, S) : SortedHits(docs, h) = HitsOf(q, r)
    BY <1>3, <1>4, <2>8, SortedAreNearest
  <2> QED
    BY <1>1, <2>7, <2>9 DEF ScanTopK
<1> QED
  BY <1>6, <1>7

-----------------------------------------------------------------------------
(* The searches scan their corpus, and the scope of their candidates. *)

Depth(k) == AtMost(AtLeast(CoarseK, k), Len(Corpus))

\* What the property says of one answer.
ScanAnswerOK(r) ==
  r # NoResult =>
    /\ r.coarse \in ScanTopK(r.query, Docs, Depth(r.k))
    /\ ~r.viaShards =>
         \/ r.results = Prefix(r.coarse, r.k)
         \/ r.results \in ScanTopK(r.query, UnionScope(Range(Seeds(r.coarse, r.k))), r.k)

\* A thread on its way through the shards keeps a coarse ranking of its query.
ScannedFor(t) ==
  Asking(t) => /\ request[t] \in Requests
               /\ coarse[t] \in ScanTopK(request[t].query, Docs, Depth(request[t].k))

ScanInv ==
  /\ Threads = DOMAIN request
  /\ Threads = DOMAIN coarse
  /\ Threads = DOMAIN result
  /\ \A t \in Threads : ScannedFor(t) /\ ScanAnswerOK(result[t])

\* The coarse scan of a request.
LEMMA CoarseScan ==
  ASSUME NEW rq \in Requests,
         NEW found \in Scan(rq.query, Packed(Docs), Depth(rq.k), Parallel)
  PROVE  found \in ScanTopK(rq.query, Docs, Depth(rq.k))
<1>1. rq.query \in Signatures /\ rq.k \in Nat /\ rq.k # 0 /\ Parallel \in BOOLEAN
  BY ShardedAssumption
<1>2. Len(Corpus) \in Nat /\ Len(Corpus) # 0
  BY ShardedAssumption, IndexAssumption, LenProperties, EmptySeq
<1>3. Depth(rq.k) \in Nat /\ Depth(rq.k) # 0
  BY <1>1, <1>2, IndexAssumption DEF Depth, AtMost, AtLeast
<1> QED
  BY Zenon, <1>1, <1>3, ScanRefines

\* A step that leaves a thread its request and ranking, or takes it off the
\* shards, leaves what is known of it.
LEMMA ScanFrame ==
  ASSUME ScanInv, NEW t \in Threads,
         Threads = DOMAIN request', Threads = DOMAIN coarse', Threads = DOMAIN result',
         \A u \in Threads \ {t} : /\ at'[u] = at[u] /\ request'[u] = request[u]
                                  /\ coarse'[u] = coarse[u] /\ result'[u] = result[u],
         ScannedFor(t)', ScanAnswerOK(result'[t])
  PROVE  ScanInv'
<1>1. \A u \in Threads \ {t} : ScannedFor(u)'
  BY DEF ScanInv, ScannedFor, Asking
<1>3. ASSUME NEW u \in Threads
      PROVE  ScanAnswerOK(result'[u])
  BY DEF ScanInv
<1>4. \A u \in Threads : ScanAnswerOK(result[u])'
  BY <1>3 DEF ScanAnswerOK
<1> QED
  BY <1>1, <1>4 DEF ScanInv

LEMMA ScanInvInit == Init => ScanInv
<1> SUFFICES ASSUME Init PROVE ScanInv
  OBVIOUS
<1>1. /\ DOMAIN request = Threads
      /\ coarse = [t \in Threads |-> <<>>] /\ result = [t \in Threads |-> NoResult]
      /\ at = [t \in Threads |-> "idle"]
  BY DEF Init
<1> QED
  BY <1>1 DEF ScanInv, ScannedFor, ScanAnswerOK, Asking

\* A thread that changes place only.
LEMMA ScanInvMoves ==
  ASSUME TypeOK, ScanInv, NEW t \in Threads, NEW to, Goes(t, to), UNCHANGED <<request, coarse, result>>,
         \/ to \notin {"lookup", "reading", "upgrade", "writing"}
         \/ Asking(t)
  PROVE  ScanInv'
<1>1. at'[t] = to /\ \A u \in Threads \ {t} : at'[u] = at[u]
  BY DEF Goes, TypeOK
<1>2. ScannedFor(t) /\ ScanAnswerOK(result[t])
  BY DEF ScanInv
<1>3. ScannedFor(t)'
  BY <1>1, <1>2 DEF ScannedFor, Asking
<1> QED
  BY <1>1, <1>2, <1>3, ScanFrame DEF ScanInv

LEMMA ScanInvBegin ==
  ASSUME TypeOK, ScanInv, NEW t \in Threads, Begin(t)
  PROVE  ScanInv'
<1>0. PICK rq \in Requests :
        \E found \in Scan(rq.query, Packed(Docs), Depth(rq.k), Parallel) :
          BeginFlat(t, rq, found) \/ BeginRescan(t, rq, found) \/ BeginShards(t, rq, found)
  BY DEF Begin, Depth
<1>1. PICK found \in Scan(rq.query, Packed(Docs), Depth(rq.k), Parallel) :
        BeginFlat(t, rq, found) \/ BeginRescan(t, rq, found) \/ BeginShards(t, rq, found)
  BY <1>0
<1>2. found \in ScanTopK(rq.query, Docs, Depth(rq.k))
  BY Zenon, <1>1, CoarseScan
<1>3. at[t] = "idle" /\ DOMAIN at = Threads
  BY DEF Begin, Take, TypeOK
<1>4. ASSUME UNCHANGED <<at, request, coarse>>, NEW hits,
             result' = [result EXCEPT ![t] = Found(rq, hits, found, FALSE)],
             \/ hits = Prefix(found, rq.k)
             \/ hits \in ScanTopK(rq.query, UnionScope(Range(Seeds(found, rq.k))), rq.k)
      PROVE  ScanInv'
  <2>1. ScannedFor(t)'
    BY <1>3, <1>4 DEF ScannedFor, Asking
  <2>2. PICK r : r = Found(rq, hits, found, FALSE)
    OBVIOUS
  <2>3. ScanAnswerOK(r)
    BY <1>2, <1>4, <2>2 DEF ScanAnswerOK, Found
  <2>4. result'[t] = r /\ DOMAIN result' = Threads
    BY <1>4, <2>2 DEF ScanInv
  <2>5. \A u \in Threads \ {t} : result'[u] = result[u]
    BY <1>4 DEF ScanInv
  <2>6. ScanAnswerOK(result'[t])
    BY Zenon, <2>3, <2>4
  <2> QED
    BY <1>4, <2>1, <2>4, <2>5, <2>6, ScanFrame DEF ScanInv
<1>5. CASE BeginFlat(t, rq, found)
  BY <1>4, <1>5 DEF BeginFlat
<1>6. CASE BeginRescan(t, rq, found)
  <2>1. PICK scope : scope = UnionScope(Range(Seeds(found, rq.k)))
    OBVIOUS
  <2>2. PICK hits \in Scan(rq.query, Packed(scope), rq.k, Parallel) :
          result' = [result EXCEPT ![t] = Found(rq, hits, found, FALSE)]
    BY <1>6, <2>1 DEF BeginRescan
  <2>3. rq.query \in Signatures /\ rq.k \in Nat /\ rq.k # 0 /\ Parallel \in BOOLEAN
    BY ShardedAssumption
  <2>4. hits \in ScanTopK(rq.query, scope, rq.k)
    BY Zenon, <2>2, <2>3, ScanRefines
  <2> QED
    BY <1>4, <1>6, <2>1, <2>2, <2>4 DEF BeginRescan
<1>7. CASE BeginShards(t, rq, found)
  <2>1. /\ at' = [at EXCEPT ![t] = "lookup"]
        /\ request' = [request EXCEPT ![t] = rq]
        /\ coarse' = [coarse EXCEPT ![t] = found]
        /\ UNCHANGED result
    BY <1>7 DEF BeginShards, Goes
  <2>2. request'[t] = rq /\ coarse'[t] = found
    BY <2>1 DEF ScanInv
  <2>3. ScannedFor(t)'
    BY <1>2, <2>2 DEF ScannedFor
  <2>4. ScanAnswerOK(result'[t]) /\ Threads = DOMAIN result' /\ result' = result
    BY <2>1 DEF ScanInv
  <2>5. \A u \in Threads \ {t} : at'[u] = at[u] /\ request'[u] = request[u] /\ coarse'[u] = coarse[u]
    BY <1>3, <2>1 DEF ScanInv
  <2>6. Threads = DOMAIN request' /\ Threads = DOMAIN coarse'
    BY <2>1 DEF ScanInv
  <2> QED
    BY <2>3, <2>4, <2>5, <2>6, ScanFrame
<1> QED
  BY <1>1, <1>5, <1>6, <1>7

LEMMA ScanInvFinish ==
  ASSUME TypeOK, ScanInv, NEW t \in Threads, Finish(t)
  PROVE  ScanInv'
<1>1. PICK r : r = Found(request[t], MergeSorted(merged[t], request[t].k), coarse[t], TRUE)
  OBVIOUS
<1>2. /\ at[t] = "lookup"
      /\ result' = [result EXCEPT ![t] = r]
      /\ coarse' = [coarse EXCEPT ![t] = <<>>]
      /\ at' = [at EXCEPT ![t] = "idle"]
      /\ UNCHANGED request
  BY <1>1 DEF Finish, Goes
<1>3. ScannedFor(t) /\ Asking(t)
  BY <1>2 DEF ScanInv, Asking
<1>4. ScanAnswerOK(r)
  BY <1>1, <1>3 DEF ScannedFor, ScanAnswerOK, Found
<1>5. at'[t] = "idle" /\ \A u \in Threads \ {t} : at'[u] = at[u] /\ coarse'[u] = coarse[u]
  BY <1>2 DEF ScanInv, TypeOK
<1>6. ScannedFor(t)'
  BY <1>5 DEF ScannedFor, Asking
<1>7. Threads = DOMAIN request' /\ Threads = DOMAIN coarse' /\ Threads = DOMAIN result'
  BY <1>2 DEF ScanInv
<1>8. result'[t] = r /\ \A u \in Threads \ {t} : result'[u] = result[u]
  BY <1>2 DEF ScanInv
<1>9. ScanAnswerOK(result'[t])
  BY Zenon, <1>4, <1>8
<1> QED
  BY <1>2, <1>5, <1>6, <1>7, <1>8, <1>9, ScanFrame

LEMMA ScanInvNext == TypeOK /\ ScanInv /\ [Next]_vars => ScanInv'
<1> SUFFICES ASSUME TypeOK, ScanInv, [Next]_vars PROVE ScanInv'
  OBVIOUS
<1>1. CASE UNCHANGED vars
  BY <1>1 DEF vars, searchVars, ScanInv, ScannedFor, ScanAnswerOK, Asking
<1>2. CASE Restart
  <2>1. /\ UNCHANGED request
        /\ coarse' = [t \in Threads |-> <<>>] /\ result' = [t \in Threads |-> NoResult]
        /\ at' = [t \in Threads |-> "idle"]
    BY <1>2 DEF Restart
  <2> QED
    BY <2>1 DEF ScanInv, ScannedFor, ScanAnswerOK, Asking
<1>3. ASSUME NEW t \in Threads,
             Lookup(t) \/ ReadHit(t) \/ ReadMiss(t) \/ Upgrade(t) \/ WriteAndAsk(t)
      PROVE  ScanInv'
  <2>1. /\ Asking(t) /\ UNCHANGED <<request, coarse, result>>
        /\ Goes(t, "lookup") \/ Goes(t, "reading") \/ Goes(t, "upgrade") \/ Goes(t, "writing")
    BY <1>3 DEF Lookup, ReadHit, ReadMiss, Upgrade, WriteAndAsk, NextEvent, Asking, searchVars
  <2> QED
    BY <2>1, ScanInvMoves
<1>4. ASSUME NEW t \in Threads,
             Save(t) \/ SaveWrite(t) \/ Load(t) \/ LoadLock(t) \/ LoadRebuild(t)
      PROVE  ScanInv'
  <2>1. /\ UNCHANGED <<request, coarse, result>>
        /\ Goes(t, "saving") \/ Goes(t, "idle") \/ Goes(t, "loading") \/ Goes(t, "rebuilding")
    BY <1>4 DEF Save, SaveWrite, Load, LoadLock, LoadRebuild, searchVars
  <2> QED
    BY <2>1, ScanInvMoves
<1> QED
  BY <1>1, <1>2, <1>3, <1>4, ScanInvBegin, ScanInvFinish DEF Next, Step

LEMMA ScanInvAlways == Spec => []ScanInv
BY ScanInvInit, ScanInvNext, TypeCorrect, PTL DEF Spec

\* However rayon splits and joins the scans of the threads, the coarse ranking
\* of every answer is k nearest documents of the corpus, and an answer made by
\* scanning again is k nearest of the candidates' documents
\* (index/mod.rs, index/signatures.rs).
THEOREM ScansNearestAlways == Spec => []ScansNearest
<1>1. ScanInv => ScansNearest
  BY DEF ScanInv, ScanAnswerOK, ScansNearest, Depth
<1> QED
  BY <1>1, ScanInvAlways, PTL

=============================================================================
