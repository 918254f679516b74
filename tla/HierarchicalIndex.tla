------------------------- MODULE HierarchicalIndex -------------------------
(***************************************************************************)
(* The immutable corpus index of primd-core: the packed signatures         *)
(* (index/signatures.rs), the event catalog (index/events.rs) and the      *)
(* two-stage search over both (index/shards.rs).  The index never changes  *)
(* after it is loaded, so this module has no variables: it defines what a  *)
(* scan or a search may return.                                            *)
(*                                                                         *)
(* Signatures are abstract points with a Hamming Distance; document i of   *)
(* the code is document i + 1 here.  Scans are sets of possible answers:   *)
(* rayon splits a parallel scan where it likes, so which of several        *)
(* equally distant documents survive at the k-th place is not determined   *)
(* (module TopKScan derives that from the heaps).                          *)
(***************************************************************************)
EXTENDS HammingSpace, Integers, Sequences, FiniteSets, FiniteSetsExt, Functions

CONSTANTS
  Corpus,             \* the indexed documents' signatures, in index order
  Scopes,             \* the documents of each event, in event id order
  CoarseK,            \* SearchOptions::coarse_k
  MaxCandidateEvents, \* SearchOptions::max_candidate_events
  TopKs,              \* the result counts callers ask for
  NoEvent             \* None :: Option<EventId>

ASSUME IndexAssumption ==
  /\ Corpus \in Seq(Signatures)
  /\ Scopes \in Seq(SUBSET Nat)
  /\ \A e \in 1..Len(Scopes) : IsFiniteSet(Scopes[e])
  /\ CoarseK \in Nat
  /\ MaxCandidateEvents \in Nat
  /\ TopKs \subseteq Nat
  /\ NoEvent \notin 1..Len(Scopes)

Docs   == 1..Len(Corpus)
Events == 1..Len(Scopes)

AtMost(a, b)  == IF a <= b THEN a ELSE b
AtLeast(a, b) == IF a >= b THEN a ELSE b

DistanceTo(q, d) == Hamming(q, Corpus[d])

Hit == [dist : Nat, doc : Docs]
Results   == Seq(Hit)
EventSets == SUBSET Events

-----------------------------------------------------------------------------
(* The event catalog. *)

\* from_named_scope walks the events in name order and the later one wins.
DocEvent(d) ==
  LET owners == {e \in Events : d \in Scopes[e]}
  IN  IF owners = {} THEN NoEvent ELSE Max(owners)

\* Indices past the end of the corpus are skipped when the scope is scanned.
UnionScope(events) == UNION {Scopes[e] : e \in events \cap Events}

\* The first `limit` distinct events along a ranking.
CandidateEvents(hits, limit) ==
  LET seen(n) == {DocEvent(hits[i].doc) : i \in 1..n} \ {NoEvent}
  IN  UNION {seen(n) : n \in {m \in 0..Len(hits) : Cardinality(seen(m)) <= limit}}

-----------------------------------------------------------------------------
(* The scans. *)

\* The heap is drained in (distance, index) order.
RankedBefore(q, d, e) ==
  \/ DistanceTo(q, d) < DistanceTo(q, e)
  \/ DistanceTo(q, d) = DistanceTo(q, e) /\ d < e

\* The k nearest documents of a scope: nothing left out is nearer than
\* anything kept.
NearestSets(q, scope, k) ==
  {S \in kSubset(AtMost(k, Cardinality(scope)), scope) :
     \A d \in S, e \in scope \ S : DistanceTo(q, d) <= DistanceTo(q, e)}

Rankings(q, S) ==
  {r \in [1..Cardinality(S) -> S] :
     /\ Range(r) = S
     /\ \A i, j \in DOMAIN r : i < j => RankedBefore(q, r[i], r[j])}

HitsOf(q, r) == [i \in DOMAIN r |-> [dist |-> DistanceTo(q, r[i]), doc |-> r[i]]]

ScanTopK(q, scope, k) ==
  {HitsOf(q, r) : r \in UNION {Rankings(q, S) : S \in NearestSets(q, scope \cap Docs, k)}}

-----------------------------------------------------------------------------
(* HierarchicalIndex::search: a coarse scan of everything names candidate  *)
(* events, their documents are scanned again.                              *)

SearchResult(results, scopeSize, usedShards) ==
  [results |-> results, scopeSize |-> scopeSize, usedShards |-> usedShards]

Prefix(hits, k) == SubSeq(hits, 1, AtMost(k, Len(hits)))

\* The events the coarse ranking points at: the first 4k hits are asked.
SeedEvents(coarse, k) ==
  CandidateEvents(Prefix(coarse, AtLeast(4 * k, 1)), AtLeast(MaxCandidateEvents, 1))

RescanEvents(q, k, coarse) ==
  LET scope == UnionScope(SeedEvents(coarse, k))
  IN  IF Len(Scopes) <= 1 \/ scope = {}
      THEN {SearchResult(Prefix(coarse, k), Len(Corpus), FALSE)}
      ELSE {SearchResult(r, Cardinality(scope), TRUE) : r \in ScanTopK(q, scope, k)}

Search(q, k) ==
  IF k = 0 \/ Corpus = <<>>
  THEN {SearchResult(<<>>, 0, FALSE)}
  ELSE UNION {RescanEvents(q, k, coarse) :
                coarse \in ScanTopK(q, Docs, AtLeast(CoarseK, k))}

-----------------------------------------------------------------------------
(* What a conversation scans under a prediction: the predicted events'     *)
(* documents only, or the whole hierarchical search if they have none.     *)

ScopedSearch(events, q, k) ==
  LET scope == UnionScope(events)
  IN  IF scope = {}
      THEN Search(q, k)
      ELSE {SearchResult(r, Cardinality(scope), TRUE) : r \in ScanTopK(q, scope, k)}

Answers(events, q, k) == {s.results : s \in ScopedSearch(events, q, k)}

\* All of them as one relation: <<events, q, k, results>>.
AnswerRelation ==
  UNION {{<<E, q, k, r>> : r \in Answers(E, q, k)} :
           E \in EventSets, q \in Signatures, k \in TopKs}

\* The event of the best hit.
TopEvent(results) == IF results = <<>> THEN NoEvent ELSE DocEvent(results[1].doc)

=============================================================================
