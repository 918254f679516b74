------------------------------ MODULE TopKScan ------------------------------
(***************************************************************************)
(* How a scan finds the nearest documents: bounded heaps (index/heap.rs)   *)
(* filled chunk by chunk (index/signatures.rs) and merged by rayon in an   *)
(* order of its own.  ScanTopK of HierarchicalIndex is what a scan may     *)
(* return; this module is how it comes about.                              *)
(*                                                                         *)
(* A heap is the set of its <<distance, position>> pairs, positions being  *)
(* those of the packed list that is scanned.                               *)
(***************************************************************************)
EXTENDS HierarchicalIndex

CONSTANTS
  RayonThreads, \* rayon::current_num_threads()
  MinChunk      \* the least chunk: 512 for a subset, 1024 for the corpus

ASSUME ScanAssumption ==
  /\ RayonThreads \in Nat \ {0}
  /\ MinChunk \in Nat \ {0}

\* A set as a sequence, by a strict order on it.
Ordered(S, Before(_, _)) ==
  [r \in 1..Cardinality(S) |->
     CHOOSE x \in S : Cardinality({y \in S : Before(y, x)}) = r - 1]

\* Tuples compare by distance, then by position.
PairBefore(a, b) == a[1] < b[1] \/ (a[1] = b[1] /\ a[2] < b[2])

Worst(heap) == CHOOSE w \in heap : \A p \in heap \ {w} : PairBefore(p, w)

\* Mutant: a full heap lets the worst go for any newcomer.
PushAlways(heap, k, pair) ==
  IF k = 0 THEN heap
  ELSE IF Cardinality(heap) < k THEN heap \cup {pair}
  ELSE (heap \ {Worst(heap)}) \cup {pair}

\* A full heap admits only what is strictly nearer than its worst.
Push(heap, k, pair) ==
  IF k = 0 THEN heap
  ELSE IF Cardinality(heap) < k THEN heap \cup {pair}
  ELSE IF pair[1] < Worst(heap)[1] THEN (heap \ {Worst(heap)}) \cup {pair}
  ELSE heap

\* The scan kernels: the positions of a chunk in order.  They differ in how
\* the popcount is computed only.
ScanChunk(q, docs, k, chunk) ==
  LET heap[n \in 0..Len(chunk)] ==
        IF n = 0 THEN {}
        ELSE Push(heap[n - 1], k, <<DistanceTo(q, docs[chunk[n]]), chunk[n]>>)
  IN  heap[Len(chunk)]

\* merge pushes the other heap's pairs in the order of its array: any.
Merge(a, b, k) ==
  LET after[rest \in SUBSET b] ==
        IF rest = {} THEN {a}
        ELSE UNION {{Push(h, k, p) : h \in after[rest \ {p}]} : p \in rest}
  IN  after[b]

\* Every outcome of one side with every outcome of the other.
Joined(A, B, k) == UNION {Merge(a, b, k) : a \in A, b \in B}

\* reduce joins neighbours, in any tree.
Reduce(heaps, k) ==
  LET of[span \in (DOMAIN heaps) \X (DOMAIN heaps)] ==
        IF span[1] >= span[2] THEN {heaps[span[1]]}
        ELSE UNION {Joined(of[<<span[1], mid>>], of[<<mid + 1, span[2]>>], k) :
                      mid \in span[1]..(span[2] - 1)}
  IN  of[<<1, Len(heaps)>>]

Chunks(n, size) ==
  [c \in 1..((n + size - 1) \div size) |->
     [i \in 1..AtMost(size, n - (c - 1) * size) |-> (c - 1) * size + i]]

\* into_sorted_vec, positions turned back into documents.
SortedHits(docs, heap) ==
  LET sorted == Ordered(heap, PairBefore)
  IN  [r \in DOMAIN sorted |-> [dist |-> sorted[r][1], doc |-> docs[sorted[r][2]]]]

ChunkSize(n) == AtLeast(n \div RayonThreads, MinChunk)

\* What a scan over the packed documents may return, split or not.
Scan(q, docs, k, parallel) ==
  LET chunks == Chunks(Len(docs), IF parallel THEN ChunkSize(Len(docs)) ELSE AtLeast(Len(docs), 1))
      heaps  == [c \in DOMAIN chunks |-> ScanChunk(q, docs, k, chunks[c])]
  IN  IF k = 0 \/ docs = <<>> THEN {<<>>}
      ELSE {SortedHits(docs, h) : h \in Reduce(heaps, k)}

\* The gather: the documents of a scope in index order, those past the end
\* of the corpus left out.
Packed(scope) == Ordered(scope \cap Docs, <)

=============================================================================
