---------------------------- MODULE MCPredictors ----------------------------
(* Three events, contexts of two, a half-life or two, a session that is      *)
(* reset or lost at any time.  Transcripts: none of use, and one whole       *)
(* sequence with an unknown event together with turns of two sessions.       *)
EXTENDS Predictors

MCTrainingSets ==
  { << [events |-> <<1>>], [session |-> "a", event |-> 2] >>,
    << [events |-> <<1, 2, 1, 9, 2>>],
       [session |-> "a", event |-> 2], [session |-> "b", event |-> 3],
       [session |-> "a", event |-> 3], [session |-> "a", event |-> 1] >> }

=============================================================================
