---------------------------- MODULE DeltaBuckets ----------------------------
(***************************************************************************)
(* What the predictive-coding delta cache promises (primd-core             *)
(* predict/cache.rs): one bounded bucket per predicted event set, a hit on *)
(* the closest stored query within the tolerance, and the least recently   *)
(* used entry given up when a full bucket takes a new one.                 *)
(*                                                                         *)
(* A bucket is written as a sequence ordered from the least to the most    *)
(* recently used entry.  The code keeps a vector and a use counter         *)
(* instead; module DeltaCache models those and is checked to implement     *)
(* this.  Among equally close entries the vector order decides in the      *)
(* code; here any of them may answer.                                      *)
(***************************************************************************)
EXTENDS HammingSpace, Naturals, Sequences

CONSTANTS
  DeltaTolerance,      \* how far a query may be from the stored one
  MaxEntriesPerScope   \* capacity of a bucket

ASSUME DeltaAssumption ==
  /\ DeltaTolerance \in Nat
  /\ MaxEntriesPerScope \in Nat \ {0}   \* new() raises 0 to 1

Entry(Results) == [query : Signatures, k : Nat, results : Results]

\* Mutant: the tolerance is exclusive.
NearExclusive(bucket, q, k) ==
  {i \in DOMAIN bucket :
     /\ bucket[i].k = k
     /\ Hamming(q, bucket[i].query) < DeltaTolerance}

\* The entries that may answer a query for k results.
Near(bucket, q, k) ==
  {i \in DOMAIN bucket :
     /\ bucket[i].k = k
     /\ Hamming(q, bucket[i].query) <= DeltaTolerance}

Nearest(bucket, q, k) ==
  {i \in Near(bucket, q, k) :
     \A j \in Near(bucket, q, k) :
       Hamming(q, bucket[i].query) <= Hamming(q, bucket[j].query)}

\* A hit makes the entry the most recently used one.
Touch(bucket, i) ==
  [j \in DOMAIN bucket |->
     IF j < i THEN bucket[j]
     ELSE IF j < Len(bucket) THEN bucket[j + 1]
     ELSE bucket[i]]

\* An insertion never looks for an equal query: callers insert after a miss.
Push(bucket, entry) ==
  Append(IF Len(bucket) >= MaxEntriesPerScope THEN Tail(bucket) ELSE bucket, entry)

=============================================================================
