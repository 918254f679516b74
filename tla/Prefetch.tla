------------------------------ MODULE Prefetch ------------------------------
(***************************************************************************)
(* The prefetching library of primd-core predict/prefetch.rs: the          *)
(* coordinator, which stages the documents of the events its Markov        *)
(* predictor expects, and the streaming prefetcher around it, which scans  *)
(* them while the user speaks.  It keeps a gate and a delta cache like a   *)
(* QueryContext, and differs from it: there is no full scan behind it, and *)
(* a draft outlives its final until the caller ends the utterance.         *)
(***************************************************************************)
EXTENDS HierarchicalIndex, DeltaBuckets, MarkovPredictor

CONSTANTS
  Training,        \* sequences the predictor was trained with
  TopNEvents,      \* top_n_events
  Confidence,      \* confidence_threshold, as <<numerator, denominator>>
  DriftThreshold,  \* of the gate
  AcceptDrift,     \* accept_drift given to on_final
  WithDelta,       \* with_delta_cache was called
  NoSig,           \* None :: Option<BinarySignature>
  NoResults,       \* None :: Option<Vec<(u32, usize)>>
  NoReply,         \* nothing asked yet
  MaxCalls         \* bound: calls explored

ASSUME PrefetchAssumption ==
  /\ TopNEvents \in Nat
  /\ Confidence \in Nat \X (Nat \ {0})
  /\ DriftThreshold \in Nat
  /\ AcceptDrift \in Nat
  /\ WithDelta \subseteq BOOLEAN
  /\ MaxCalls \in Nat
  /\ NoSig \notin Signatures
  /\ NoResults \notin Seq(Hit)

VARIABLES
  window,         \* the caller's ConversationState
  predictor,      \* coord.predictor
  staged,         \* coord.last_predicted_events, as a set; the scope is its union
  hash,           \* last_scope_hash
  lastEmitted,    \* gate.last_emitted
  draft,          \* cached_results
  draftSig,       \* cached_for_sig
  delta,          \* delta_cache
  hasDelta,       \* delta_cache is there
  counters,       \* PrefetchStats and StreamingPrefetchStats
  reply,          \* the last reply, and how it was found
  inForce,        \* history: the hashes and the staged sets they were there with
  draftScopes,    \* history: the sets the draft may have been scanned under
  calls           \* bound counter

coordVars  == <<window, predictor, staged, hash>>
streamVars == <<lastEmitted, draft, draftSig, delta, draftScopes>>
prefetchVars == <<coordVars, streamVars, hasDelta, counters, reply, inForce, calls>>

\* scope_hash, taken to be injective, and last_scope_hash before the first
\* prefetch: 0, taken to be the hash of no set.
ScopeHash(events) == <<events>>
NoHash == <<>>

PrefetchCounters == {"queries", "warmHits", "warmMisses", "coldFallbacks", "utterances", "partials",
             "scans", "deltaHits", "speculative", "cached", "rescans"}

Count(routes) == counters' = [c \in PrefetchCounters |-> counters[c] + IF c \in routes THEN 1 ELSE 0]

\* A coordinator around a trained predictor, nothing staged.
CoordInit ==
  /\ window = <<>>
  /\ predictor = TrainSequences(Training, 0)
  /\ staged = {}

\* A streaming prefetcher around it, with or without a delta cache.
StreamInit ==
  /\ hash = NoHash
  /\ lastEmitted = NoSig
  /\ draft = NoResults
  /\ draftSig = NoSig
  /\ draftScopes = {}
  /\ delta = <<>>
  /\ hasDelta \in WithDelta

PrefetchInit ==
  /\ CoordInit
  /\ StreamInit
  /\ counters = [c \in PrefetchCounters |-> 0]
  /\ reply = NoReply
  /\ inForce = {<<NoHash, {}>>}
  /\ calls = 0

Call == calls < MaxCalls /\ calls' = calls + 1

-----------------------------------------------------------------------------
(* The coordinator. *)

\* The caller notes a turn and has the predictor observe it.
Turn(e) ==
  /\ Call
  /\ window' = Append(window, e)
  /\ predictor' = IF window = <<>> THEN predictor ELSE Observe(predictor, window[Len(window)], e, 0)
  /\ UNCHANGED <<staged, hash, streamVars, hasDelta, counters, reply, inForce>>

Context == Suffix(window, AtMost(Len(window), AtLeast(Cardinality(predictor.vocab), 3)))

Confident(p) == p.weight * Confidence[2] >= p.mass * Confidence[1]

\* The confident predictions' events.
Expected ==
  IF window = <<>> THEN {}
  ELSE {p.event : p \in {q \in Range(Predict(predictor, Context, TopNEvents, 0)) : Confident(q)}}

\* prefetch of the coordinator.
Stages(h) ==
  /\ Call
  /\ staged' = Expected
  /\ hash' = h
  /\ inForce' = inForce \cup {<<h, Expected>>}
  /\ UNCHANGED <<window, predictor, streamVars, hasDelta, counters, reply>>

\* prefetch of the streaming prefetcher.
Stage == Stages(ScopeHash(Expected))

\* prefetch through coordinator_mut: last_scope_hash stays as it was.
Restage == Stages(hash)

StagedScope == UnionScope(staged)

\* The sets of events that were staged while a hash was in force.
Under(h) == {p[2] : p \in {f \in inForce : f[1] = h}}

\* History: `scopes`, the sets of events of which one was scanned.
Answer(kind, q, k, results, scopes) ==
  reply' = [kind |-> kind, query |-> q, k |-> k, results |-> results,
            scopes |-> scopes]

Best(results) == IF results = <<>> THEN {} ELSE {results[1].dist}

\* query: nothing staged, the whole corpus is scanned.
QueryCold(q, k) ==
  /\ StagedScope = {}
  /\ Count({"queries", "coldFallbacks"})
  /\ \E r \in ScanTopK(q, Docs, k) : Answer("cold", q, k, r, {{}})

\* The staged documents are scanned, and the best of them is compared with the
\* best of all.
QueryWarm(q, k) ==
  /\ StagedScope # {}
  /\ \E r \in ScanTopK(q, StagedScope, k), best \in ScanTopK(q, Docs, 1) :
       LET hit == Best(r) = Best(best)
       IN  /\ Count({"queries", IF hit THEN "warmHits" ELSE "warmMisses"})
           /\ Answer(IF hit THEN "hit" ELSE "miss", q, k, r, {staged})

Query(q, k) ==
  /\ Call
  /\ QueryCold(q, k) \/ QueryWarm(q, k)
  /\ UNCHANGED <<coordVars, streamVars, hasDelta, inForce>>

-----------------------------------------------------------------------------
(* The streaming prefetcher. *)

ShouldEmit(partial) == lastEmitted # NoSig => Hamming(lastEmitted, partial) >= DriftThreshold

Draft(sig, results, scopes) ==
  /\ draft' = results
  /\ draftSig' = sig
  /\ draftScopes' = scopes

\* The entries that were cached under the current hash.
Bucket == At(delta, hash, <<>>)

Stored(q, k, results) ==
  delta' = IF hasDelta THEN Put(delta, hash, Push(Bucket, [query |-> q, k |-> k, results |-> results]))
           ELSE delta

InDelta(q, k) == hasDelta /\ Near(Bucket, q, k) # {}

\* The entry nearest the query answers, and is now the last one used.
DeltaAnswers(q, k, results) ==
  \E i \in Nearest(Bucket, q, k) :
    /\ results = Bucket[i].results
    /\ delta' = Put(delta, hash, Touch(Bucket, i))

DeltaResults(q, k) == {Bucket[i].results : i \in Nearest(Bucket, q, k)}

PartialSuppressed(p) ==
  /\ ~ShouldEmit(p)
  /\ Count({"partials"})
  /\ UNCHANGED streamVars

PartialFromDelta(p, k) ==
  /\ ShouldEmit(p)
  /\ InDelta(p, k)
  /\ lastEmitted' = p
  /\ \E r \in DeltaResults(p, k) : DeltaAnswers(p, k, r) /\ Draft(p, r, Under(hash))
  /\ Count({"partials", "deltaHits"})

PartialScanned(p, k) ==
  /\ ShouldEmit(p)
  /\ ~InDelta(p, k)
  /\ lastEmitted' = p
  /\ \E r \in ScanTopK(p, StagedScope, k) : Stored(p, k, r) /\ Draft(p, r, {staged})
  /\ Count({"partials", "scans"})

OnPartial(p, k) ==
  /\ Call
  /\ PartialSuppressed(p) \/ PartialFromDelta(p, k) \/ PartialScanned(p, k)
  /\ UNCHANGED <<coordVars, hasDelta, reply, inForce>>

\* Mutant: any draft will do.
DraftServesAny(q, k) == draft # NoResults /\ Len(draft) = k

\* A full draft for a signature near enough.
DraftServes(q, k) ==
  /\ draftSig # NoSig
  /\ draft # NoResults
  /\ Hamming(draftSig, q) <= AcceptDrift
  /\ Len(draft) = k

FinalFromDraft(q, k) ==
  /\ DraftServes(q, k)
  /\ Answer("speculative", q, k, draft, draftScopes)
  /\ Count({"speculative"})
  /\ UNCHANGED delta

FinalFromDelta(q, k) ==
  /\ ~DraftServes(q, k)
  /\ InDelta(q, k)
  /\ \E r \in DeltaResults(q, k) : DeltaAnswers(q, k, r) /\ Answer("delta", q, k, r, Under(hash))
  /\ Count({"cached"})

FinalScanned(q, k) ==
  /\ ~DraftServes(q, k)
  /\ ~InDelta(q, k)
  /\ \E r \in ScanTopK(q, StagedScope, k) : Stored(q, k, r) /\ Answer("scan", q, k, r, {staged})
  /\ Count({"rescans"})

\* The draft is left where it is.
OnFinal(q, k) ==
  /\ Call
  /\ FinalFromDraft(q, k) \/ FinalFromDelta(q, k) \/ FinalScanned(q, k)
  /\ UNCHANGED <<coordVars, lastEmitted, draft, draftSig, draftScopes, hasDelta, inForce>>

EndUtterance ==
  /\ Call
  /\ lastEmitted' = NoSig
  /\ draft' = NoResults
  /\ draftSig' = NoSig
  /\ draftScopes' = {}
  /\ Count({"utterances"})
  /\ UNCHANGED <<coordVars, delta, hasDelta, reply, inForce>>

PrefetchNext ==
  \/ \E e \in Events : Turn(e)
  \/ Stage \/ Restage
  \/ EndUtterance
  \/ \E q \in Signatures, k \in TopKs : Query(q, k) \/ OnPartial(q, k) \/ OnFinal(q, k)

PrefetchSpec == PrefetchInit /\ [][PrefetchNext]_prefetchVars

-----------------------------------------------------------------------------
(* Properties. *)

\* Every answer is a scan, for a query no further than the tolerances taken, of
\* the documents of one set of events: the one staged now if they were scanned
\* for it; one staged under the hash now in force if the delta cache answered;
\* and of a draft served, one it could have been scanned under in its time.
\* Where every prefetch goes through the streaming prefetcher, a hash is in
\* force with the set it was taken of and no other.  Under a delta entry that
\* came by way of the draft, both tolerances are spent.
Reach(kind) == CASE kind = "speculative" -> AcceptDrift + DeltaTolerance
                 [] kind = "delta" -> DeltaTolerance
                 [] OTHER -> 0

\* A scan of the union of one of these sets, for a query this near.
ScanOfOne(scopes, reach) ==
  \E s \in Signatures, events \in scopes :
    /\ Hamming(s, reply.query) <= reach
    /\ reply.results \in
         ScanTopK(s, IF reply.kind = "cold" THEN Docs ELSE UnionScope(events), reply.k)

FinalsHonest == reply # NoReply => ScanOfOne(reply.scopes, Reach(reply.kind))

=============================================================================
