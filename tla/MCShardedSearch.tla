-------------------------- MODULE MCShardedSearch --------------------------
(* Seven documents on a line, the last two of no event.  Of the four       *)
(* events two share a document and are large, two have one document each:  *)
(* together they are worth a shard, alone they are not.                    *)
EXTENDS ShardedSearch

MCSignatures == 0..40
MCDistance   == [p \in MCSignatures \X MCSignatures |->
                   IF p[1] <= p[2] THEN p[2] - p[1] ELSE p[1] - p[2]]
MCCorpus     == <<1, 2, 3, 8, 9, 30, 31>>
MCScopes     == <<{1, 2}, {2, 3}, {4}, {5}>>
MCRequests   == {[query |-> 2, k |-> 2], [query |-> 7, k |-> 1],
                 [query |-> 20, k |-> 1], [query |-> 30, k |-> 1]}
\* What an earlier corpus left: one event of today's, a small one, one more.
MCWarmFiles  == {{2, 3, 7}}
=============================================================================
