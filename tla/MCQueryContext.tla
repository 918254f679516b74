--------------------------- MODULE MCQueryContext ---------------------------
(* A small conversation: unary codes as signatures, so that |p - q| is a   *)
(* Hamming distance; 0, 1 and 2 are a step of either tolerance apart, 7 is *)
(* out of reach of both together.  Two events share a document, and one    *)
(* document belongs to none.                                               *)
EXTENDS QueryContext

LineDistance ==
  [p \in Signatures \X Signatures |-> IF p[1] <= p[2] THEN p[2] - p[1] ELSE p[1] - p[2]]

SmallCorpus == <<0, 1, 7, 7>>
SmallScopes == <<{1, 2}, {2, 3}>>

=============================================================================
