--------------------------- MODULE MarkovPredictor ---------------------------
(***************************************************************************)
(* The variable-order Markov predictor (primd-core predict/markov.rs) and  *)
(* its training (predict/trainer.rs, primd-cli cmd_train.rs), as values:   *)
(* a predictor is a record and every method an operator on it.             *)
(*                                                                         *)
(* Weights are counted in units of 2^-LastTick observations and a tick of  *)
(* the clock is one half-life, so that decay is exact up to LastTick.      *)
(* Rounding of f32 is left out.                                            *)
(***************************************************************************)
EXTENDS Naturals, Sequences, FiniteSets, FiniteSetsExt, SequencesExt, Functions

CONSTANTS
  MaxOrder,   \* max_order
  Smoothing,  \* smoothing, in weight units
  Decays,     \* a half-life is set
  LastTick    \* bound: clock ticks explored

ASSUME MarkovAssumption ==
  /\ MaxOrder \in Nat \ {0}
  /\ Smoothing \in Nat
  /\ Decays \in BOOLEAN
  /\ LastTick \in Nat

\* 2 ^ n, for as many half-lives as there may be.
Pow2[n \in 0..LastTick] == IF n = 0 THEN 1 ELSE 2 * Pow2[n - 1]

Unit == Pow2[LastTick]

\* MIN_CONTEXT_OBSERVATIONS
MinContextObservations == 2 * Unit

\* HashMap::get with a default, HashMap::insert, and the sum of the values.
At(map, key, default) == IF key \in DOMAIN map THEN map[key] ELSE default
Put(map, key, value) ==
  [x \in DOMAIN map \cup {key} |-> IF x = key THEN value ELSE map[x]]
Added(map) == FoldFunction(+, 0, map)

-----------------------------------------------------------------------------
(* WeightedCount *)

Zero(now) == [weight |-> 0, last |-> now]

Current(count, now) ==
  IF Decays THEN count.weight \div Pow2[now - count.last] ELSE count.weight

\* Mutant: what was there is not aged before it is stamped anew.
ObservedUnaged(count, now) == [weight |-> count.weight + Unit, last |-> now]

Observed(count, now) == [weight |-> Current(count, now) + Unit, last |-> now]

-----------------------------------------------------------------------------
(* observe, observe_sequence *)

NewMarkov == [rows |-> <<>>, totals |-> <<>>, vocab |-> {}]

\* Counts an event in a row, and an occurrence of its context.
Record(m, context, next, now) ==
  LET vocab == m.vocab \cup Range(context) \cup {next}
      row   == At(m.rows, context, <<>>)
  IN  IF Len(context) \notin 1..MaxOrder
      THEN [m EXCEPT !.vocab = vocab]
      ELSE [rows   |-> Put(m.rows, context,
                           Put(row, next, Observed(At(row, next, Zero(now)), now))),
            totals |-> Put(m.totals, context,
                           Observed(At(m.totals, context, Zero(now)), now)),
            vocab  |-> vocab]

\* Mutant: the event observed does not enter the vocabulary.
ObserveUnheard(m, prev, next, now) ==
  [Record(m, <<prev>>, next, now) EXCEPT !.vocab = m.vocab \cup {prev}]

Observe(m, prev, next, now) == Record(m, <<prev>>, next, now)

\* Every event with the contexts of every order that precede it.
ObserveSequence(m, events, now) ==
  LET windows == {w \in (2..Len(events)) \X (1..MaxOrder) : w[1] > w[2]}
  IN  FoldSet(LAMBDA w, acc :
                Record(acc, SubSeq(events, w[1] - w[2], w[1] - 1), events[w[1]], now),
              [m EXCEPT !.vocab = @ \cup Range(events)], windows)

\* train_sequences
TrainSequences(sequences, now) ==
  FoldLeft(LAMBDA m, s : IF Len(s) >= 2 THEN ObserveSequence(m, s, now) ELSE m,
           NewMarkov, sequences)

\* What a sequence has at some indices, in order.
Kept(s, indices) ==
  LET kept[i \in 0..Len(s)] ==
        IF i = 0 THEN <<>>
        ELSE IF i \in indices THEN Append(kept[i - 1], s[i]) ELSE kept[i - 1]
  IN  kept[Len(s)]

\* primd train: whole sequences, and single turns gathered by session, of the
\* events the manifest knows; a lone event teaches nothing.
TranscriptSequences(lines, known) ==
  LET Whole(l) == "events" \in DOMAIN l
      whole    == Kept(lines, {i \in DOMAIN lines : Whole(lines[i])})
      turns    == Kept(lines, {i \in DOMAIN lines : ~Whole(lines[i])})
      sessions == SetToSeq({l.session : l \in Range(turns)})
      Said(s)  == LET said == Kept(turns, {i \in DOMAIN turns : turns[i].session = s})
                  IN  [i \in DOMAIN said |-> said[i].event]
      all      == [i \in DOMAIN whole |-> whole[i].events] \o [i \in DOMAIN sessions |-> Said(sessions[i])]
      heard    == [i \in DOMAIN all |-> Kept(all[i], {n \in DOMAIN all[i] : all[i][n] \in known})]
  IN  Kept(heard, {i \in DOMAIN heard : Len(heard[i]) >= 2})

-----------------------------------------------------------------------------
(* predict *)

Suffix(s, n) == SubSeq(s, Len(s) - n + 1, Len(s))
FirstOf(s, k) == SubSeq(s, 1, IF k <= Len(s) THEN k ELSE Len(s))

\* The events by falling weight, then by number.
Likelier(weight, a, b) == weight[a] > weight[b] \/ (weight[a] = weight[b] /\ a < b)

Ranked(weight) ==
  [r \in 1..Cardinality(DOMAIN weight) |->
     CHOOSE e \in DOMAIN weight : Cardinality({d \in DOMAIN weight : Likelier(weight, d, e)}) = r - 1]

\* A probability is a weight out of a mass.
Scored(weight, mass, k) ==
  LET taken == FirstOf(Ranked(weight), k)
  IN  [i \in DOMAIN taken |-> [event |-> taken[i], weight |-> weight[taken[i]], mass |-> mass]]

Uniform(m, k) == Scored([e \in m.vocab |-> 1], Cardinality(m.vocab), k)

Score(m, key, k, now) ==
  LET row   == At(m.rows, key, <<>>)
      total == Current(m.totals[key], now)
  IN  Scored([e \in m.vocab |-> Current(At(row, e, Zero(now)), now) + Smoothing],
             total + Smoothing * Cardinality(m.vocab), k)

\* The lengths of context that have been seen often enough.
TrustedOrders(m, context, now) ==
  {n \in 1..MaxOrder :
     /\ n <= Len(context)
     /\ Current(At(m.totals, Suffix(context, n), Zero(now)), now) >= MinContextObservations}

\* predict_with_context_at: the longest trusted context, or no opinion.
Predict(m, context, k, now) ==
  LET trusted == TrustedOrders(m, context, now)
  IN  IF trusted = {} THEN Uniform(m, k)
      ELSE Score(m, Suffix(context, Max(trusted)), k, now)

EventsOf(predictions) == [i \in DOMAIN predictions |-> predictions[i].event]

-----------------------------------------------------------------------------
(* save_to_file, load_from_file: weights as of now; an Instant does not      *)
(* outlive the process.                                                      *)

\* Mutant: weights as they were when last stamped.
SavedUnaged(m, now) ==
  [vocab |-> m.vocab,
   rows  |-> [c \in DOMAIN m.rows |-> [e \in DOMAIN m.rows[c] |-> m.rows[c][e].weight]]]

Saved(m, now) ==
  [vocab |-> m.vocab,
   rows  |-> [c \in DOMAIN m.rows |-> [e \in DOMAIN m.rows[c] |-> Current(m.rows[c][e], now)]]]

\* Totals are not stored: they are added up again.
Loaded(file, now) ==
  LET contexts == {c \in DOMAIN file.rows : Len(c) \in 1..MaxOrder}
      Stamped(w) == [weight |-> w, last |-> now]
  IN  [vocab  |-> file.vocab,
       rows   |-> [c \in contexts |-> [e \in DOMAIN file.rows[c] |-> Stamped(file.rows[c][e])]],
       totals |-> [c \in contexts |-> Stamped(Added(file.rows[c]))]]

=============================================================================
