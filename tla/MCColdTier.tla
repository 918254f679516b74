----------------------------- MODULE MCColdTier -----------------------------
(* Two-bit signatures, blocks of two words of two bits, up to five entries. *)
EXTENDS ColdTier

MCEntries ==
  {[sig |-> {0, 1}, event |-> 0, doc |-> 1],
   [sig |-> {1},    event |-> 1, doc |-> 0],
   [sig |-> {},     event |-> 1, doc |-> 1]}

\* At distance 1 of the first and the last entry, 2 of the other.
MCQueries == {{0}}
=============================================================================
