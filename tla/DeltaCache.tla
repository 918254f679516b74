----------------------------- MODULE DeltaCache -----------------------------
(***************************************************************************)
(* The delta cache as primd-core predict/cache.rs keeps it: per scope hash *)
(* a vector of entries stamped with a use counter, lookup by linear scan,  *)
(* eviction of the smallest stamp with swap_remove.                        *)
(***************************************************************************)
EXTENDS DeltaBuckets, FiniteSetsExt, SequencesExt

CONSTANTS
  ScopeKeys,   \* scope hashes; DefaultHasher is taken to be injective
  ResultCounts,\* result counts callers ask for
  Payloads,    \* cached result lists
  NoAnswer,    \* None
  MaxOps       \* bound: lookups and insertions explored

ASSUME CacheAssumption ==
  /\ ResultCounts \subseteq Nat
  /\ MaxOps \in Nat

VARIABLES
  byScope,     \* by_scope: vectors of stamped entries
  useCounter,  \* use_counter
  stats,       \* DeltaCacheStats
  answer       \* what the last lookup returned

vars == <<byScope, useCounter, stats, answer>>

StampedEntry ==
  [query : Signatures, k : ResultCounts, results : Payloads, lastUsed : Nat]

Counters == {"lookups", "hits", "misses", "inserts", "evictions"}

TypeOK ==
  /\ byScope \in [ScopeKeys -> Seq(StampedEntry)]
  /\ \A s \in ScopeKeys : Len(byScope[s]) <= MaxEntriesPerScope
  /\ useCounter \in 0..MaxOps
  /\ stats \in [Counters -> Nat]
  /\ answer \in Payloads \cup {NoAnswer}

Init ==
  /\ byScope = [s \in ScopeKeys |-> <<>>]
  /\ useCounter = 0
  /\ stats = [c \in Counters |-> 0]
  /\ answer = NoAnswer

-----------------------------------------------------------------------------

Tick ==
  /\ useCounter < MaxOps
  /\ useCounter' = useCounter + 1

\* The scan keeps its first best entry when a later one is as close.
FirstNearest(bucket, q, k) == Min(Nearest(bucket, q, k))

LookupHit(s, q, k) ==
  /\ Tick
  /\ Near(byScope[s], q, k) # {}
  /\ LET i == FirstNearest(byScope[s], q, k)
     IN  /\ byScope' = [byScope EXCEPT ![s][i].lastUsed = useCounter']
         /\ answer' = byScope[s][i].results
  /\ stats' = [stats EXCEPT !["lookups"] = @ + 1, !["hits"] = @ + 1]

LookupMiss(s, q, k) ==
  /\ Tick
  /\ Near(byScope[s], q, k) = {}
  /\ answer' = NoAnswer
  /\ stats' = [stats EXCEPT !["lookups"] = @ + 1, !["misses"] = @ + 1]
  /\ UNCHANGED byScope

\* Mutant: the oldest vector slot is taken for the least recently used entry.
VictimOldestSlot(bucket) == 1

\* Vec::swap_remove: the last element takes the removed one's place.
SwapRemove(v, i) == Front([v EXCEPT ![i] = Last(v)])

Victim(bucket) ==
  Min({i \in DOMAIN bucket :
         \A j \in DOMAIN bucket : bucket[i].lastUsed <= bucket[j].lastUsed})

\* Mutant: a full bucket is noticed one entry late.
EvictWhenOverfull(bucket) ==
  IF Len(bucket) > MaxEntriesPerScope THEN SwapRemove(bucket, Victim(bucket)) ELSE bucket

EvictWhenFull(bucket) ==
  IF Len(bucket) >= MaxEntriesPerScope THEN SwapRemove(bucket, Victim(bucket)) ELSE bucket

\* Mutant: an insertion stamps its entry without advancing the counter.
InsertUncounted(s, q, k, r) ==
  /\ useCounter < MaxOps
  /\ byScope' = [byScope EXCEPT ![s] =
       Append(EvictWhenFull(@),
              [query |-> q, k |-> k, results |-> r, lastUsed |-> useCounter])]
  /\ stats' = [stats EXCEPT
       !["inserts"] = @ + 1,
       !["evictions"] = @ + (IF Len(byScope[s]) >= MaxEntriesPerScope THEN 1 ELSE 0)]
  /\ UNCHANGED <<useCounter, answer>>

Insert(s, q, k, r) ==
  /\ Tick
  /\ byScope' = [byScope EXCEPT ![s] =
       Append(EvictWhenFull(@),
              [query |-> q, k |-> k, results |-> r, lastUsed |-> useCounter'])]
  /\ stats' = [stats EXCEPT
       !["inserts"] = @ + 1,
       !["evictions"] = @ + (IF Len(byScope[s]) >= MaxEntriesPerScope THEN 1 ELSE 0)]
  /\ UNCHANGED answer

\* clear() drops the entries; the counters go on.
Clear ==
  /\ byScope # [s \in ScopeKeys |-> <<>>]
  /\ byScope' = [s \in ScopeKeys |-> <<>>]
  /\ UNCHANGED <<useCounter, stats, answer>>

Next ==
  \/ \E s \in ScopeKeys, q \in Signatures, k \in ResultCounts :
       \/ LookupHit(s, q, k)
       \/ LookupMiss(s, q, k)
       \/ \E r \in Payloads : Insert(s, q, k, r)
  \/ Clear

Spec == Init /\ [][Next]_vars

-----------------------------------------------------------------------------
(* Properties. *)

\* No two entries of a bucket carry the same stamp and none is from the
\* future, whatever swap_remove did to the order: the eviction victim is
\* always one definite entry.
StampsDistinct ==
  \A s \in ScopeKeys : \A i, j \in DOMAIN byScope[s] :
    /\ byScope[s][i].lastUsed <= useCounter
    /\ i # j => byScope[s][i].lastUsed # byScope[s][j].lastUsed

\* The vector, its stamps and swap_remove implement the LRU cache of
\* DeltaCacheSpec: order the bucket by stamp, forget the stamps.
OrderedBy(bucket, p) ==
  /\ p \in [DOMAIN bucket -> DOMAIN bucket]
  /\ \A i, j \in DOMAIN bucket : i < j => bucket[p[i]].lastUsed < bucket[p[j]].lastUsed

Forget(e) == [query |-> e.query, k |-> e.k, results |-> e.results]

ByRecency(bucket) ==
  LET p == CHOOSE f \in [DOMAIN bucket -> DOMAIN bucket] : OrderedBy(bucket, f)
  IN  [r \in DOMAIN bucket |-> Forget(bucket[p[r]])]

LRU == INSTANCE DeltaCacheSpec WITH buckets <- [s \in ScopeKeys |-> ByRecency(byScope[s])]

ImplementsLRU == LRU!Spec

=============================================================================
