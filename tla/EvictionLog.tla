----------------------------- MODULE EvictionLog -----------------------------
(***************************************************************************)
(* What a cold tier promises: a log of evicted signatures.  Entries are    *)
(* only ever added at the end, a search ranks all of them by distance and  *)
(* equal distances by arrival, and what was saved is what the next process *)
(* starts with.  Where an entry is kept is no concern of the caller's.     *)
(***************************************************************************)
EXTENDS Naturals, FiniteSets, Sequences

CONSTANTS
  Entries,   \* what may be evicted: [sig, event, doc]
  Queries,   \* the signatures searched for
  TopKs      \* the result counts asked for

VARIABLES
  log,    \* the entries, in order of arrival
  saved,  \* the log as last saved, if it was
  call    \* the last call and what it returned

vars == <<log, saved, call>>

Started == [op |-> "start"]
Evicted(e) == [op |-> "evict", entry |-> e]
Searched(q, k, reply) == [op |-> "search", query |-> q, k |-> k, reply |-> reply]

Distance(q, e) == Cardinality((q \ e.sig) \cup (e.sig \ q))

\* Position i is ahead of j in an answer to q.
Ahead(q, i, j) ==
  \/ Distance(q, log[i]) < Distance(q, log[j])
  \/ Distance(q, log[i]) = Distance(q, log[j]) /\ i < j

\* The k entries nearest to q, as <<distance, event, doc>>.
Answer(q, k) ==
  LET place == [i \in DOMAIN log |-> 1 + Cardinality({j \in DOMAIN log : Ahead(q, j, i)})]
      nth(r) == log[CHOOSE i \in DOMAIN log : place[i] = r]
  IN  [r \in 1..(IF k <= Len(log) THEN k ELSE Len(log)) |->
         <<Distance(q, nth(r)), nth(r).event, nth(r).doc>>]

Init ==
  /\ log \in {<<>>} \cup {<<e, f>> : e \in Entries, f \in Entries}
  /\ saved = {}
  /\ call = Started

Evict(e) ==
  /\ log' = Append(log, e)
  /\ call' = Evicted(e)
  /\ UNCHANGED saved

Search(q, k) ==
  /\ call' = Searched(q, k, Answer(q, k))
  /\ UNCHANGED <<log, saved>>

Save == saved' = {log} /\ UNCHANGED <<log, call>>

\* The process starts again: with what was saved, or empty.
Restart ==
  /\ IF saved = {} THEN log' = <<>> ELSE log' \in saved
  /\ call' = Started
  /\ UNCHANGED saved

Next ==
  \/ \E e \in Entries : Evict(e)
  \/ \E q \in Queries, k \in TopKs : Search(q, k)
  \/ Save
  \/ Restart

Spec == Init /\ [][Next]_vars

=============================================================================
