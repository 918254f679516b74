------------------------------ MODULE Predictors ------------------------------
(***************************************************************************)
(* The predictor of one returning session of primd serve: trained from     *)
(* transcripts, taught by every turn, aged by the clock, saved when the    *)
(* session is reset and loaded when it comes back (primd-core              *)
(* predict/markov.rs, primd-sr lib.rs, primd-cli cmd_serve.rs).            *)
(***************************************************************************)
EXTENDS SrPredictor

CONSTANTS
  EventIds,       \* EventIds
  TrainingSets,  \* what primd train may be given
  Kinds,        \* --predictor
  TopNs,        \* prediction counts asked for
  NeverSaved,       \* the session has never been saved
  MaxTurns      \* bound: turns explored

ASSUME PredictorsAssumption ==
  /\ EventIds \subseteq Nat
  /\ IsFiniteSet(EventIds)
  /\ \A lines \in TrainingSets :
       /\ lines \in Seq(Range(lines))
       /\ \A l \in Range(lines) : "events" \in DOMAIN l => l.events \in Seq(Nat)
  /\ Kinds \subseteq {"markov", "sr", "hybrid"}
  /\ TopNs \subseteq Nat
  /\ MaxTurns \in Nat

VARIABLES
  clock,    \* Instant::now, in half-lives
  trained,    \* transitions.json: the trained predictor, as saved
  kind,     \* predictor_kind
  live,     \* the session is in the table
  markov,   \* its Markov predictor
  sr,       \* its successor representation
  recent,   \* the turns warm_next looks at: last_n(3)
  file,     \* <session>.markov.json
  taught,   \* history: the transitions sr was taught
  counted   \* bound counter of turns

predictorVars == <<clock, trained, kind, live, markov, sr, recent, file, taught, counted>>

ContextTurns == 3

HasMarkov == kind \in {"markov", "hybrid"}
HasSr     == kind \in {"sr", "hybrid"}

PredictorInit ==
  /\ clock = 0
  /\ \E lines \in TrainingSets :
       trained = LET learned == TrainSequences(TranscriptSequences(lines, EventIds), 0)
               IN  Saved(learned, 0)
  /\ kind \in Kinds
  /\ live = FALSE
  /\ markov = NewMarkov
  /\ sr = NewSr
  /\ recent = <<>>
  /\ file = NeverSaved
  /\ taught = {}
  /\ counted = 0

Tick ==
  /\ clock < LastTick
  /\ clock' = clock + 1
  /\ UNCHANGED <<trained, kind, live, markov, sr, recent, file, taught, counted>>

\* new_session: what the session had saved, else what was trained; the
\* successor representation starts from nothing.
Return ==
  /\ ~live
  /\ live' = TRUE
  /\ markov' = IF HasMarkov THEN Loaded(IF file # NeverSaved THEN file ELSE trained, clock) ELSE NewMarkov
  /\ sr' = NewSr
  /\ taught' = {}
  /\ UNCHANGED <<clock, trained, kind, recent, file, counted>>

\* A turn is finalized: the predictor observes the step from the last one.
Turn(e) ==
  /\ live
  /\ counted < MaxTurns
  /\ counted' = counted + 1
  /\ IF recent = <<>>
     THEN UNCHANGED <<markov, sr, taught>>
     ELSE /\ markov' = IF HasMarkov THEN Observe(markov, Last(recent), e, clock) ELSE markov
          /\ sr' = IF HasSr THEN SrObserve(sr, Last(recent), e) ELSE sr
          /\ taught' = IF HasSr THEN taught \cup {<<Last(recent), e>>} ELSE taught
  /\ recent' = Suffix(Append(recent, e), IF Len(recent) < ContextTurns THEN Len(recent) + 1 ELSE ContextTurns)
  /\ UNCHANGED <<clock, trained, kind, live, file>>

\* The session ends, by a reset, which saves what as_markov gives, or with the
\* process, which saves nothing; a save may fail.
End(saved) ==
  /\ live
  /\ live' = FALSE
  /\ file' = IF saved /\ HasMarkov THEN Saved(markov, clock) ELSE file
  /\ recent' = <<>>
  /\ markov' = NewMarkov
  /\ sr' = NewSr
  /\ taught' = {}
  /\ UNCHANGED <<clock, trained, kind, counted>>

PredictorNext ==
  \/ Tick
  \/ Return
  \/ \E e \in EventIds : Turn(e)
  \/ \E saved \in BOOLEAN : End(saved)

PredictorSpec == PredictorInit /\ [][PredictorNext]_predictorVars

-----------------------------------------------------------------------------
(* Properties. *)

\* A context's total is what its row adds up to, now and at any later time,
\* however the two were aged.
RowsAddUp ==
  /\ DOMAIN markov.rows = DOMAIN markov.totals
  /\ \A c \in DOMAIN markov.rows, later \in clock..LastTick :
       Current(markov.totals[c], later) =
         Added([e \in DOMAIN markov.rows[c] |-> Current(markov.rows[c][e], later)])

Contexts == UNION {[1..n -> EventIds] : n \in 1..MaxOrder}

\* Asked for as many events as it knows, a predictor names each, and their
\* probabilities are 1 together: what a row counts is in the vocabulary.
ProbabilitiesAddUp ==
  \A c \in Contexts :
    LET all == Predict(markov, c, Cardinality(markov.vocab), clock)
    IN  /\ Len(all) = Cardinality(markov.vocab)
        /\ \A i \in DOMAIN all : Added([j \in DOMAIN all |-> all[j].weight]) = all[i].mass

\* Saving and loading, whenever that is, changes no prediction.
RestartInvisible ==
  \A c \in Contexts, k \in TopNs, later \in clock..LastTick :
    Predict(Loaded(Saved(markov, clock), later), c, k, later) = Predict(markov, c, k, clock)

\* The successor representation expects an event after another if it was seen
\* to follow, and only if it was seen to follow through some chain of steps.
Follows(S) == {t \in EventIds : \E s \in S : <<s, t>> \in taught}

ReachedFrom(s) ==
  {t \in EventIds : \A S \in SUBSET EventIds : s \in S /\ Follows(S) \subseteq S => t \in S}

SrForesees ==
  /\ SrVocab(sr) = UNION {{p[1], p[2]} : p \in taught}
  /\ \A s \in SrVocab(sr) : Follows({s}) \subseteq sr.positive[s] /\ sr.positive[s] \subseteq ReachedFrom(s)

\* A hybrid that knows any event at all always has a prediction, and until the
\* successor representation is warm again it is Markov's, with all it had saved.
HybridSpeaks ==
  (live /\ kind = "hybrid" /\ recent # <<>> /\ markov.vocab # {}) =>
    \A k \in TopNs \ {0} :
      LET answers == HybridPredict(sr, markov, recent, k, clock)
      IN  /\ \A r \in answers : r # <<>> /\ Len(r) <= k /\ IsInjective(r)
          /\ 2 * sr.t < Warmup => answers = {EventsOf(Predict(markov, recent, k, clock))}

=============================================================================
