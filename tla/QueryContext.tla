---------------------------- MODULE QueryContext ----------------------------
(***************************************************************************)
(* One conversation's retrieval state, primd-core query_context.rs: the    *)
(* streaming gate, the speculative result of the utterance in flight, the  *)
(* delta cache, the predicted scope, and the window of past turns.  Each   *)
(* public method is an action, each way it can return a disjunct.          *)
(*                                                                         *)
(* The predictor is the boxed NextTurnPredictor: which events it names is  *)
(* left open (any set within the limit); what it was taught is kept in     *)
(* `taught`.  The scope hash of a prediction is the predicted set itself.  *)
(***************************************************************************)
EXTENDS HierarchicalIndex, DeltaBuckets

CONSTANTS
  DriftThreshold,       \* StreamingQuery::new(24)
  SpeculativeTolerance, \* the 16 bits finalize accepts
  WindowCapacity,       \* ConversationState::new(8, ..)
  MaxAge,               \* ConversationState::new(.., 60 s), in clock ticks
  NoSig,                \* None :: Option<BinarySignature>
  NoResults,            \* None :: Option<Vec<(u32, usize)>>
  NoOutput,             \* nothing finalized yet
  MaxCalls              \* bound: calls and clock ticks explored

ASSUME ContextAssumption ==
  /\ DriftThreshold \in Nat \ {0}
  /\ SpeculativeTolerance \in Nat
  /\ WindowCapacity \in Nat \ {0}
  /\ MaxAge \in Nat
  /\ MaxCalls \in Nat
  /\ NoSig \notin Signatures
  /\ NoResults \notin Seq(Hit)

VARIABLES
  window,          \* state.window: turns as [event, age], oldest first
  taught,          \* the transitions the predictor has observed
  predictedEvents, \* predicted_events (as a set)
  lastEmitted,     \* gate.last_emitted
  current,         \* gate.current
  cachedResults,   \* cached_results
  cachedForSig,    \* cached_for_sig
  delta,           \* delta_cache: a bucket per predicted event set
  output,          \* the last QueryOutput; its query, k and inForce are history
  inForce,         \* history: the predictions in force since the utterance began
  calls            \* bound counter

utteranceVars == <<lastEmitted, current, cachedResults, cachedForSig>>
vars ==
  <<window, taught, predictedEvents, utteranceVars, delta, output, inForce, calls>>

ServedBy    == {"FullScan", "ShardScan", "Speculative", "DeltaCache"}
Observation == [event : Events, age : 0..(MaxAge + 1)]

Output ==
  [query : Signatures, k : TopKs, results : Results,
   topEvent : Events \cup {NoEvent}, predictedEvents : EventSets,
   scopeSize : Nat, servedBy : ServedBy, inForce : SUBSET EventSets]

Replies == [query : Signatures, k : TopKs, results : Results]

ASSUME OutputAssumption == NoOutput \notin Output /\ NoOutput \notin Replies

TypeOK ==
  /\ window \in Seq(Observation)
  /\ Len(window) <= WindowCapacity
  /\ taught \in SUBSET (Events \X Events)
  /\ predictedEvents \in EventSets
  /\ lastEmitted \in Signatures \cup {NoSig}
  /\ current \in Signatures \cup {NoSig}
  /\ cachedForSig \in Signatures \cup {NoSig}
  /\ cachedResults \in Results \cup {NoResults}
  /\ delta \in [EventSets -> Seq(Entry(Results))]
  /\ \A E \in EventSets : Len(delta[E]) <= MaxEntriesPerScope
  /\ output \in Output \cup {NoOutput}
  /\ inForce \in SUBSET EventSets
  /\ calls \in 0..MaxCalls

Init ==
  /\ window = <<>>
  /\ taught = {}
  /\ predictedEvents = {}
  /\ lastEmitted = NoSig
  /\ current = NoSig
  /\ cachedForSig = NoSig
  /\ cachedResults = NoResults
  /\ delta = [E \in EventSets |-> <<>>]
  /\ output = NoOutput
  /\ inForce = {{}}
  /\ calls = 0

Call ==
  /\ calls < MaxCalls
  /\ calls' = calls + 1

\* predicted_scope: set together with predicted_events, always.
PredictedScope == UnionScope(predictedEvents)

-----------------------------------------------------------------------------
(* warm_next *)

\* The context is the tail of the window however old it is: last_n does not
\* evict.  With no turn yet the prediction is withdrawn.
WarmNext ==
  /\ Call
  /\ \/ /\ window = <<>>
        /\ predictedEvents' = {}
     \/ /\ window # <<>>
        /\ \E E \in EventSets :
             /\ Cardinality(E) <= MaxCandidateEvents
             /\ predictedEvents' = E
  /\ inForce' = inForce \cup {predictedEvents'}
  /\ UNCHANGED <<window, taught, utteranceVars, delta, output>>

-----------------------------------------------------------------------------
(* observe_partial *)

ShouldEmit(partial) ==
  lastEmitted # NoSig => Hamming(lastEmitted, partial) >= DriftThreshold

Speculate(sig, results) ==
  /\ cachedResults' = results
  /\ cachedForSig' = sig

\* The partial is too close to the last emitted one: nothing but the gate
\* has seen it.
ObserveSuppressed(partial) ==
  /\ ~ShouldEmit(partial)
  /\ UNCHANGED <<lastEmitted, cachedResults, cachedForSig, delta>>

\* Mutant: a hit replaces the results and forgets the signature.
ObserveDeltaHitUntagged(partial, k) ==
  /\ ShouldEmit(partial)
  /\ lastEmitted' = partial
  /\ \E i \in Nearest(delta[predictedEvents], partial, k) :
       /\ cachedResults' = delta[predictedEvents][i].results
       /\ delta' = [delta EXCEPT ![predictedEvents] = Touch(@, i)]
  /\ UNCHANGED cachedForSig

ObserveDeltaHit(partial, k) ==
  /\ ShouldEmit(partial)
  /\ lastEmitted' = partial
  /\ \E i \in Nearest(delta[predictedEvents], partial, k) :
       /\ Speculate(partial, delta[predictedEvents][i].results)
       /\ delta' = [delta EXCEPT ![predictedEvents] = Touch(@, i)]

ObserveScan(partial, k) ==
  /\ ShouldEmit(partial)
  /\ lastEmitted' = partial
  /\ Near(delta[predictedEvents], partial, k) = {}
  /\ \E found \in ScopedSearch(predictedEvents, partial, k) :
       /\ Speculate(partial, found.results)
       /\ delta' = [delta EXCEPT ![predictedEvents] =
                      Push(@, [query |-> partial, k |-> k, results |-> found.results])]

ObservePartial(partial, k) ==
  /\ Call
  /\ \/ ObserveSuppressed(partial)
     \/ ObserveDeltaHit(partial, k)
     \/ ObserveScan(partial, k)
  /\ current' = partial
  /\ UNCHANGED <<window, taught, predictedEvents, output, inForce>>

-----------------------------------------------------------------------------
(* finalize *)

\* Mutant: only the gate is reset.
ForgetGateOnly ==
  /\ lastEmitted' = NoSig
  /\ current' = NoSig
  /\ inForce' = {predictedEvents}
  /\ UNCHANGED <<cachedResults, cachedForSig>>

\* reset_utterance
ForgetUtterance ==
  /\ lastEmitted' = NoSig
  /\ current' = NoSig
  /\ cachedResults' = NoResults
  /\ cachedForSig' = NoSig
  /\ inForce' = {predictedEvents}

\* evict_stale pops from the front only.
DropStale(w) ==
  LET stale == Max({n \in 0..Len(w) : \A i \in 1..n : w[i].age > MaxAge})
  IN  SubSeq(w, stale + 1, Len(w))

MakeRoom(w) == IF Len(w) = WindowCapacity THEN Tail(w) ELSE w

ObserveTurn(w, event) == Append(MakeRoom(DropStale(w)), [event |-> event, age |-> 0])

\* Mutant: a result without an event is recorded as a turn.
LearnAlways(event) ==
  /\ taught' = IF window = <<>> THEN taught
               ELSE taught \cup {<<window[Len(window)].event, event>>}
  /\ window' = ObserveTurn(window, event)

\* Mutant: the window is updated first, so the turn follows itself.
LearnAfterObserve(event) ==
  IF event = NoEvent
  THEN UNCHANGED <<window, taught>>
  ELSE /\ window' = ObserveTurn(window, event)
       /\ taught' = taught \cup {<<window'[Len(window')].event, event>>}

\* The predictor learns the transition from the last turn in the window,
\* read before stale turns are evicted.
Learn(event) ==
  IF event = NoEvent
  THEN UNCHANGED <<window, taught>>
  ELSE /\ taught' = IF window = <<>> THEN taught
                    ELSE taught \cup {<<window[Len(window)].event, event>>}
       /\ window' = ObserveTurn(window, event)

Finish(q, k, results, servedBy, scopeSize) ==
  /\ Learn(TopEvent(results))
  /\ output' = [query |-> q, k |-> k, results |-> results,
                topEvent |-> TopEvent(results), predictedEvents |-> predictedEvents,
                scopeSize |-> scopeSize, servedBy |-> servedBy, inForce |-> inForce]
  /\ ForgetUtterance

\* Mutant: any speculation of the right length is served.
SpeculationFitsAnywhere(q, k) ==
  /\ cachedResults # NoResults
  /\ Len(cachedResults) = k

SpeculationFits(q, k) ==
  /\ cachedForSig # NoSig
  /\ cachedResults # NoResults
  /\ Hamming(cachedForSig, q) <= SpeculativeTolerance
  /\ Len(cachedResults) = k

FinalizeSpeculative(q, k) ==
  /\ SpeculationFits(q, k)
  /\ Finish(q, k, cachedResults, "Speculative", Cardinality(PredictedScope))
  /\ UNCHANGED delta

FinalizeDeltaHit(q, k) ==
  /\ ~SpeculationFits(q, k)
  /\ \E i \in Nearest(delta[predictedEvents], q, k) :
       /\ Finish(q, k, delta[predictedEvents][i].results, "DeltaCache",
                 Cardinality(PredictedScope))
       /\ delta' = [delta EXCEPT ![predictedEvents] = Touch(@, i)]

FinalizeScan(q, k) ==
  /\ ~SpeculationFits(q, k)
  /\ Near(delta[predictedEvents], q, k) = {}
  /\ \E found \in ScopedSearch(predictedEvents, q, k) :
       /\ Finish(q, k, found.results,
                 IF found.usedShards THEN "ShardScan" ELSE "FullScan", found.scopeSize)
       /\ delta' = [delta EXCEPT ![predictedEvents] =
                      Push(@, [query |-> q, k |-> k, results |-> found.results])]

Finalize(q, k) ==
  /\ Call
  /\ \/ FinalizeSpeculative(q, k)
     \/ FinalizeDeltaHit(q, k)
     \/ FinalizeScan(q, k)
  /\ UNCHANGED predictedEvents

-----------------------------------------------------------------------------

\* The public reset_utterance: the utterance is abandoned.
ResetUtterance ==
  /\ Call
  /\ ForgetUtterance
  /\ UNCHANGED <<window, taught, predictedEvents, delta, output>>

\* Time passes between turns; ages past the limit are not told apart.
Elapse ==
  /\ Call
  /\ window # <<>>
  /\ window' = [i \in DOMAIN window |->
                  [window[i] EXCEPT !.age = AtMost(@ + 1, MaxAge + 1)]]
  /\ UNCHANGED <<taught, predictedEvents, utteranceVars, delta, output, inForce>>

Next ==
  \/ WarmNext
  \/ \E sig \in Signatures, k \in TopKs : ObservePartial(sig, k) \/ Finalize(sig, k)
  \/ ResetUtterance
  \/ Elapse

Spec == Init /\ [][Next]_vars

-----------------------------------------------------------------------------
(* Properties. *)

\* How far the query an answer was computed for may be from the one asked.
Slack(servedBy) ==
  CASE servedBy = "Speculative" -> DeltaTolerance + SpeculativeTolerance
    [] servedBy = "DeltaCache"  -> DeltaTolerance
    [] OTHER                    -> 0

\* The predictions an answer may stem from: a speculation may predate a
\* warm_next of the same utterance, everything else uses the current one.
Origins(out) ==
  IF out.servedBy = "Speculative" THEN out.inForce ELSE {out.predictedEvents}

\* finalize never drifts: through speculation on top of delta-cache hits on
\* top of earlier turns, what it returns is the exact answer for a query
\* within the two tolerances, under a prediction of this utterance.
ServedNearQuery ==
  output # NoOutput =>
    /\ Len(output.results) <= output.k
    /\ \E E \in Origins(output), q \in Signatures, k \in TopKs :
         /\ Hamming(q, output.query) <= Slack(output.servedBy)
         /\ <<E, q, k, output.results>> \in AnswerRelation

\* The distance reported with a hit is off by no more than that drift.
DistancesHonest ==
  output # NoOutput =>
    \A i \in DOMAIN output.results :
      LET hit    == output.results[i]
          actual == DistanceTo(output.query, hit.doc)
      IN  /\ hit.dist <= actual + Slack(output.servedBy)
          /\ actual <= hit.dist + Slack(output.servedBy)

Returned(results) == {results[i].doc : i \in DOMAIN results}

\* No document of the scope that was left out beats a returned one by more
\* than twice the drift.
RegretWithin(results, q, scope, slack) ==
  \A d \in Returned(results), e \in (scope \cap Docs) \ Returned(results) :
    DistanceTo(q, d) <= DistanceTo(q, e) + 2 * slack

\* Reusing results for similar queries costs bounded ranking quality
\* whenever the utterance had a prediction throughout.
RegretBounded ==
  (output # NoOutput /\ \A E \in Origins(output) : UnionScope(E) # {}) =>
    \E E \in Origins(output) :
      RegretWithin(output.results, output.query, UnionScope(E), Slack(output.servedBy))

\* The gate and the speculation move together: whenever a partial has been
\* emitted there is a result for it, and the partials suppressed since are
\* within the drift threshold of it.
SpeculationKeepsUp ==
  /\ cachedForSig = lastEmitted
  /\ cachedResults = NoResults <=> cachedForSig = NoSig
  /\ lastEmitted # NoSig =>
       current # NoSig /\ Hamming(lastEmitted, current) < DriftThreshold

\* Insertions follow misses, so a bucket holds no two entries either of
\* which could answer for the other: the cap is not spent on near copies.
DeltaEntriesApart ==
  \A E \in EventSets : \A i, j \in DOMAIN delta[E] :
    (i # j /\ delta[E][i].k = delta[E][j].k) =>
      Hamming(delta[E][i].query, delta[E][j].query) > DeltaTolerance

\* The predictor has been taught every step of the remembered conversation,
\* oldest turns first in the window (evict_stale looks at the front only).
WindowLearned ==
  \A i \in 1..(Len(window) - 1) :
    /\ <<window[i].event, window[i + 1].event>> \in taught
    /\ window[i].age >= window[i + 1].age

\* The conversation advances and the predictor learns at a finalize, once
\* per answered turn; partials, predictions, resets and time do neither.
Reply ==
  IF output = NoOutput THEN NoOutput
  ELSE [query |-> output.query, k |-> output.k, results |-> output.results]

LastTurn == IF window = <<>> THEN NoEvent ELSE window[Len(window)].event

Turns == INSTANCE TurnService WITH
  Queries <- Signatures,
  Counts <- TopKs,
  Distances <- Hamming,
  Exact <- AnswerRelation,
  EventOf <- TopEvent,
  Drift <- DeltaTolerance + SpeculativeTolerance,
  reply <- Reply,
  lastTurn <- LastTurn

ImplementsTurns == Turns!Spec

=============================================================================
