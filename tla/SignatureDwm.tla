---------------------------- MODULE SignatureDwm ----------------------------
(***************************************************************************)
(* The signature store of primd-dwm signature_dwm.rs: signature i is bit i *)
(* of every layer, what was pushed since the last compaction waits in a    *)
(* tail.  A store is a record; its operations are operators on it.  A      *)
(* signature is the set of its bits, entries count from 0 as in the code.  *)
(***************************************************************************)
EXTENDS BitVector, Sequences

CONSTANT SigBits   \* SIG_BITS: the layers of a store

ASSUME SigBitsAssumption == SigBits \in Nat

Layers    == {k \in 0..SigBits : k < SigBits}
Signature == SUBSET Layers

Hamming(a, b) == Cardinality((a \ b) \cup (b \ a))

Build(sigs, values) ==
  [layers     |-> [k \in Layers |-> New({i - 1 : i \in {j \in DOMAIN sigs : k \in sigs[j]}},
                                        Len(sigs))],
   values     |-> values,
   tail       |-> <<>>,
   tailValues |-> <<>>]

Empty == Build(<<>>, <<>>)

\* Mutant: a pending signature without its value.
PushUnvalued(store, sig, value) == [store EXCEPT !.tail = Append(@, sig)]

Push(store, sig, value) ==
  [store EXCEPT !.tail = Append(@, sig), !.tailValues = Append(@, value)]

\* get_compacted: bit k of the signature is bit i of layer k.
GetCompacted(store, i) == {k \in Layers : Get(store.layers[k], i)}

\* All signatures, those of the layers read back first, and their values.
Compacted(store) == [i \in 1..Len(store.values) |-> GetCompacted(store, i - 1)]
AllSigs(store)   == Compacted(store) \o store.tail
AllValues(store) == store.values \o store.tailValues

\* Mutant: the tail goes in before what was compacted.
CompactTailFirst(store) ==
  IF store.tail = <<>> THEN store
  ELSE Build(store.tail \o Compacted(store), store.tailValues \o store.values)

Compact(store) ==
  IF store.tail = <<>> THEN store ELSE Build(AllSigs(store), AllValues(store))

PendingTail(store) == Len(store.tail)

\* get and value: the tail's entries are numbered after the layers'.
Length(store) == Len(store.values) + Len(store.tail)

SigAt(store, i) ==
  IF i < Len(store.values) THEN GetCompacted(store, i) ELSE store.tail[i - Len(store.values) + 1]

ValueAt(store, i) ==
  IF i < Len(store.values) THEN store.values[i + 1] ELSE store.tailValues[i - Len(store.values) + 1]

-----------------------------------------------------------------------------
(* nearest and within_radius: every entry's distance, stably sorted.       *)

Distances(q, sigs, values) ==
  [i \in DOMAIN sigs |-> [dist |-> Hamming(q, sigs[i]), value |-> values[i]]]

\* sort_by_key is stable: equal distances stay in order of arrival.
SortedByDistance(hits) ==
  LET before(i, j) == hits[i].dist < hits[j].dist \/ (hits[i].dist = hits[j].dist /\ i < j)
      place        == [i \in DOMAIN hits |-> 1 + Cardinality({j \in DOMAIN hits : before(j, i)})]
  IN  [r \in DOMAIN hits |-> hits[CHOOSE i \in DOMAIN hits : place[i] = r]]

Truncate(s, k) == SubSeq(s, 1, Lower(k, Len(s)))

NearestOf(q, sigs, values, k) == Truncate(SortedByDistance(Distances(q, sigs, values)), k)

Nearest(store, q, k) == NearestOf(q, AllSigs(store), AllValues(store), k)

\* What lies within the radius, in the order it was met.
Within(hits, radius) ==
  LET met[i \in 0..Len(hits)] ==
        IF i = 0 THEN <<>>
        ELSE IF hits[i].dist <= radius THEN Append(met[i - 1], hits[i]) ELSE met[i - 1]
  IN  met[Len(hits)]

\* Mutant: what is pending is not looked at.
WithinRadiusCompacted(store, q, radius) ==
  SortedByDistance(Within(Distances(q, Compacted(store), store.values), radius))

WithinRadius(store, q, radius) ==
  SortedByDistance(Within(Distances(q, AllSigs(store), AllValues(store)), radius))

\* save_to_file writes a compacted clone.
SavedForm(store) == Compact(store)

=============================================================================
