------------------------------ MODULE ColdTier ------------------------------
(***************************************************************************)
(* The cold tier of a session, primd-dwm cold_tier.rs behind the trait of  *)
(* primd-core cold_tier.rs: a SignatureDwm whose values pack an event and  *)
(* a document, compacted when enough is pending, and the file it is saved  *)
(* to and loaded from.  An instance has one owner, so calls are atomic.    *)
(***************************************************************************)
EXTENDS SignatureDwm

CONSTANTS
  Entries,    \* what may be evicted: [sig, event, doc]
  Queries,    \* the signatures searched for
  TopKs,      \* the result counts asked for
  Thresholds, \* with_auto_compact_threshold's arguments
  DocRange,   \* 2^32: documents a value can tell apart
  MaxEntries  \* bound: entries a tier holds

ASSUME ColdTierAssumption ==
  /\ DocRange \in Nat \ {0}
  /\ Entries \subseteq [sig : Signature, event : Nat, doc : 0..(DocRange - 1)]
  /\ Queries \subseteq Signature
  /\ TopKs \subseteq Nat
  /\ Thresholds \subseteq Nat
  /\ MaxEntries \in Nat

VARIABLES
  dwm,       \* the store
  threshold, \* auto_compact_threshold
  file,      \* [dwm, threshold] as last saved, if anything was
  call       \* history: the last call and what it returned

vars == <<dwm, threshold, file, call>>

\* The event in the upper half of the value, the document in the lower.
Encode(event, doc) == (event * DocRange) + (doc % DocRange)
Decode(value)      == [event |-> value \div DocRange, doc |-> value % DocRange]

FromBatch(batch) ==
  Build([i \in DOMAIN batch |-> batch[i].sig],
        [i \in DOMAIN batch |-> Encode(batch[i].event, batch[i].doc)])

\* A fresh tier, or one built from a batch; DwmColdTier::empty's threshold
\* replaced by n.max(1).
Init ==
  /\ \/ dwm = Empty
     \/ \E e \in Entries, f \in Entries : dwm = FromBatch(<<e, f>>)
  /\ threshold \in {IF n = 0 THEN 1 ELSE n : n \in Thresholds}
  /\ file = {}
  /\ call = [op |-> "start"]

Size == Length(dwm)

\* Mutant: one more may wait than the threshold says.
CompactPastThreshold(store) == IF PendingTail(store) > threshold THEN Compact(store) ELSE store

AutoCompact(store) == IF PendingTail(store) >= threshold THEN Compact(store) ELSE store

AddEvicted(e) ==
  /\ Size < MaxEntries
  /\ dwm' = AutoCompact(Push(dwm, e.sig, Encode(e.event, e.doc)))
  /\ call' = [op |-> "evict", entry |-> e]
  /\ UNCHANGED <<threshold, file>>

ForceCompact ==
  /\ dwm' = Compact(dwm)
  /\ UNCHANGED <<threshold, file, call>>

Answers(q, k) ==
  LET hits == Nearest(dwm, q, k)
  IN  [r \in DOMAIN hits |->
         <<hits[r].dist, Decode(hits[r].value).event, Decode(hits[r].value).doc>>]

Search(q, k) ==
  /\ call' = [op |-> "search", query |-> q, k |-> k, reply |-> Answers(q, k)]
  /\ UNCHANGED <<dwm, threshold, file>>

\* Mutant: the tail is not written.
SaveLayers ==
  /\ file' = {[dwm |-> [dwm EXCEPT !.tail = <<>>, !.tailValues = <<>>], threshold |-> threshold]}
  /\ UNCHANGED <<dwm, threshold, call>>

\* The file is the tier as it is, tail and all.
Save ==
  /\ file' = {[dwm |-> dwm, threshold |-> threshold]}
  /\ UNCHANGED <<dwm, threshold, call>>

\* Dropped, with whatever was not saved, and loaded by the next session; one
\* without a file starts empty, with the threshold it always has.
Reload ==
  /\ \/ /\ file = {}
        /\ dwm' = Empty
        /\ UNCHANGED threshold
     \/ \E f \in file :
        /\ dwm' = f.dwm
        /\ threshold' = f.threshold
  /\ call' = [op |-> "start"]
  /\ UNCHANGED file

Next ==
  \/ \E e \in Entries : AddEvicted(e)
  \/ ForceCompact
  \/ \E q \in Queries, k \in TopKs : Search(q, k)
  \/ Save
  \/ Reload

Spec == Init /\ [][Next]_vars

-----------------------------------------------------------------------------
(* Properties. *)

Entry(sig, value) ==
  [sig |-> sig, event |-> Decode(value).event, doc |-> Decode(value).doc]

\* The entries a store holds, in the order it reads them.
LogOf(store) ==
  [i \in 1..Length(store) |-> Entry(SigAt(store, i - 1), ValueAt(store, i - 1))]

StoreOK(store) ==
  /\ DOMAIN store = {"layers", "values", "tail", "tailValues"}
  /\ DOMAIN store.layers = Layers
  /\ \A k \in Layers : store.layers[k].len = Len(store.values)
  /\ store.values \in Seq(Nat)
  /\ store.tail \in Seq(Signature)
  /\ store.tailValues \in Seq(Nat)
  /\ Len(store.tailValues) = Len(store.tail)

\* Shape of the state: layers as long as the values, a value per pending
\* signature.
TypeOK ==
  /\ StoreOK(dwm)
  /\ threshold \in Nat \ {0}
  /\ \A f \in file : StoreOK(f.dwm) /\ f.threshold \in Nat \ {0}

\* add_evicted leaves less than a threshold pending, whatever was compacted
\* by hand or loaded before (cold_tier.rs:27, "pending tail size at which
\* add_evicted triggers an automatic compact").
TailBounded == PendingTail(dwm) < threshold

\* In every layer of the store, built, compacted or loaded, rank counts and
\* select finds the bit, on both sides of every block boundary (bitvec.rs:109).
TablesAgree ==
  \A k \in Layers : RanksCount(dwm.layers[k]) /\ SelectsInvert(dwm.layers[k])

\* A radius query returns exactly the part of the full ranking within the
\* radius, in the same order, whichever entries are compacted; a store saved
\* by itself, which compacts a clone of it, answers the same.
RadiusCutsRanking ==
  \A q \in Queries, radius \in 0..SigBits :
    LET all == Nearest(dwm, q, Size)
        inside == {r \in DOMAIN all : all[r].dist <= radius}
    IN  /\ WithinRadius(dwm, q, radius) = Truncate(all, Cardinality(inside))
        /\ WithinRadius(SavedForm(dwm), q, radius) = WithinRadius(dwm, q, radius)

-----------------------------------------------------------------------------
(* The store implements the log: a compaction changes nothing a caller can *)
(* see, a save keeps all of it.                                            *)

Log == INSTANCE EvictionLog WITH
  log   <- LogOf(dwm),
  saved <- {LogOf(f.dwm) : f \in file},
  call  <- call

\* Compacted or pending, saved or not: every call returns what it would
\* return from a plain log of the evictions.
ImplementsLog == Log!Spec

=============================================================================
