---------------------------- MODULE HammingSpace ----------------------------
(***************************************************************************)
(* Binary signatures as points of a metric space (primd-core               *)
(* embed/binary.rs).  Only distances matter to retrieval: the bits and the *)
(* embedding that produced them are left out.                              *)
(***************************************************************************)
EXTENDS Naturals

CONSTANTS
  Signatures,   \* the 256-bit signatures that occur
  Distance      \* hamming_distance: [Signatures \X Signatures -> Nat]

ASSUME DistanceType == Distance \in [Signatures \X Signatures -> Nat]

\* What xor and popcount give: a metric.  The drift bounds rest on it.
ASSUME DistanceIsMetric ==
  \A a, b, c \in Signatures :
    /\ Distance[a, a] = 0
    /\ Distance[a, b] = Distance[b, a]
    /\ Distance[a, c] <= Distance[a, b] + Distance[b, c]

Hamming(a, b) == Distance[a, b]

=============================================================================
