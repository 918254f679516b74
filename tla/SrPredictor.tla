----------------------------- MODULE SrPredictor -----------------------------
(***************************************************************************)
(* The successor-representation predictor and the hybrid of it and Markov  *)
(* (primd-sr lib.rs), as values.                                           *)
(*                                                                         *)
(* Of a cell of the matrix only this is kept: that it is stored, and       *)
(* whether it is positive.  For learning rates in (0, 1] and a discount in *)
(* (0, 1) that is exact: an update adds what is positive in the next       *)
(* event's row, the event itself, and loses nothing (the rate is 1 at most *)
(* for the first observation, when the row holds the event alone).  How    *)
(* positive cells rank is left open.                                       *)
(***************************************************************************)
EXTENDS MarkovPredictor

CONSTANT Warmup   \* transitions before the confidence is 1

ASSUME WarmupAssumption == Warmup \in Nat \ {0}

\* stored, positive: event -> the columns of its row; t: observations.
NewSr == [stored |-> <<>>, positive |-> <<>>, t |-> 0]

SrVocab(sr) == DOMAIN sr.stored

\* ensure_self_visit
EnsureSelfVisit(sr, e) ==
  [sr EXCEPT !.stored   = Put(@, e, At(@, e, {}) \cup {e}),
             !.positive = Put(@, e, IF e \in At(sr.stored, e, {}) THEN @[e] ELSE {e})]

\* Mutant: the row of the event before is taken for the next one's.
SrObserveBackwards(sr, prev, next) ==
  LET seen == EnsureSelfVisit(EnsureSelfVisit(sr, prev), next)
  IN  [seen EXCEPT !.stored[prev]   = SrVocab(seen),
                   !.positive[next] = @ \cup {next} \cup seen.positive[prev],
                   !.t = @ + 1]

\* TD(0): the row of prev moves towards itself and the discounted row of next,
\* in every column known.
SrObserve(sr, prev, next) ==
  LET seen == EnsureSelfVisit(EnsureSelfVisit(sr, prev), next)
  IN  [seen EXCEPT !.stored[prev]   = SrVocab(seen),
                   !.positive[prev] = @ \cup {prev} \cup seen.positive[next],
                   !.t = @ + 1]

Orders(S) == {r \in [1..Cardinality(S) -> S] : Range(r) = S}

\* The answers predict may give: positive cells of the last event's row, then
\* its other stored cells in event order; nothing if no cell is positive.
SrPredict(sr, context, k) ==
  IF k = 0 \/ context = <<>> \/ Last(context) \notin SrVocab(sr)
  THEN {<<>>}
  ELSE LET self == {Last(context)}
           live == sr.positive[Last(context)] \ self
           rest == Ranked([e \in sr.stored[Last(context)] \ (live \cup self) |-> 0])
       IN  IF live = {} THEN {<<>>} ELSE {FirstOf(r \o rest, k) : r \in Orders(live)}

\* HybridPredictor: SR once it is half warm and has something to say.
IsWarm(sr) == 2 * sr.t >= Warmup

\* Mutant: a warm SR has the last word even when it has none.
HybridPredictNoBackup(sr, markov, context, k, now) ==
  IF IsWarm(sr) THEN SrPredict(sr, context, k) ELSE {EventsOf(Predict(markov, context, k, now))}

HybridPredict(sr, markov, context, k, now) ==
  LET own    == IF IsWarm(sr) THEN SrPredict(sr, context, k) ELSE {<<>>}
      backup == EventsOf(Predict(markov, context, k, now))
  IN  (own \ {<<>>}) \cup (IF <<>> \in own THEN {backup} ELSE {})

=============================================================================
