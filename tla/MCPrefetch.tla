----------------------------- MODULE MCPrefetch -----------------------------
(* Four documents on a line, two events with a document in common and one    *)
(* document in neither; a predictor trained to expect event 2 after event 1. *)
EXTENDS Prefetch

LineDistance ==
  [p \in Signatures \X Signatures |-> IF p[1] <= p[2] THEN p[2] - p[1] ELSE p[1] - p[2]]

MCCorpus == <<0, 1, 3, 2>>
MCScopes == <<{1, 2}, {2, 3}>>
MCTraining == << <<1, 2>>, <<1, 2>> >>
MCConfidence == <<1, 2>>

=============================================================================
