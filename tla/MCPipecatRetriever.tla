------------------------- MODULE MCPipecatRetriever -------------------------
(* Two utterances with a partial each. *)
EXTENDS PipecatRetriever

=============================================================================
