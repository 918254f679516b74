---------------------------- MODULE MCDeltaCache ----------------------------
(* A small delta cache: unary codes of length 2 as signatures, two scopes, *)
(* two entries per bucket.                                                 *)
EXTENDS DeltaCache, Integers

LineDistance ==
  [p \in Signatures \X Signatures |-> IF p[1] <= p[2] THEN p[2] - p[1] ELSE p[1] - p[2]]

\* Scopes and results are only compared; what is checked are steps, not
\* eventualities, so that states may be taken for their permutations.
Renamings == Permutations(ScopeKeys) \cup Permutations(Payloads)

=============================================================================
