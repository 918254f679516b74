--------------------------- MODULE DeltaCacheSpec ---------------------------
(***************************************************************************)
(* The delta cache as its callers see it: an LRU cache with approximate    *)
(* keys.  `answer` is what the last lookup returned.                       *)
(***************************************************************************)
EXTENDS DeltaBuckets

CONSTANTS
  ScopeKeys,   \* scope hashes of the predicted event sets
  ResultCounts,\* result counts callers ask for
  Payloads,    \* cached result lists
  NoAnswer     \* None

VARIABLES
  buckets,     \* [ScopeKeys -> sequences of entries, least recent first]
  answer       \* payload returned by the last lookup, or NoAnswer

Init ==
  /\ buckets = [s \in ScopeKeys |-> <<>>]
  /\ answer = NoAnswer

Hit(s, q, k) ==
  \E i \in Nearest(buckets[s], q, k) :
    /\ answer' = buckets[s][i].results
    /\ buckets' = [buckets EXCEPT ![s] = Touch(@, i)]

Miss(s, q, k) ==
  /\ Near(buckets[s], q, k) = {}
  /\ answer' = NoAnswer
  /\ UNCHANGED buckets

Insert(s, q, k, r) ==
  /\ buckets' = [buckets EXCEPT ![s] = Push(@, [query |-> q, k |-> k, results |-> r])]
  /\ UNCHANGED answer

Clear ==
  /\ buckets' = [s \in ScopeKeys |-> <<>>]
  /\ UNCHANGED answer

Next ==
  \/ \E s \in ScopeKeys, q \in Signatures, k \in ResultCounts :
       \/ Hit(s, q, k)
       \/ Miss(s, q, k)
       \/ \E r \in Payloads : Insert(s, q, k, r)
  \/ Clear

vars == <<buckets, answer>>

Spec == Init /\ [][Next]_vars

=============================================================================
